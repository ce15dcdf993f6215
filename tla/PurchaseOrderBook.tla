-------------------------- MODULE PurchaseOrderBook -------------------------
(***************************************************************************)
(* What purchase orders promise (README PR-24 and PR-25, the integration   *)
(* tests of orders and receipts): an order is edited or deleted only in    *)
(* DRAFT, receives in APPROVED never more than ordered, and is RECEIVED by *)
(* the receipt that leaves it nothing to wait for.  The bodies let zero    *)
(* units through, so an order or a receipt may be of none.                 *)
(***************************************************************************)
EXTENDS Integers

CONSTANT Product

VARIABLES status,    \* NONE before the order exists, GONE after its deletion
          ordered,   \* [Product -> Nat], units on its lines
          received   \* [Product -> Nat], units received on them

Nothing == [p \in Product |-> 0]
Quantities == [Product -> Nat]

Init == status = "NONE" /\ ordered = Nothing /\ received = Nothing

Draft ==
    /\ status \in {"NONE", "DRAFT"}
    /\ status' = "DRAFT"
    /\ ordered' \in Quantities
    /\ UNCHANGED received

Remove ==
    /\ status = "DRAFT"
    /\ status' = "GONE"
    /\ ordered' = Nothing
    /\ UNCHANGED received

Approve ==
    /\ status = "DRAFT"
    /\ status' = "APPROVED"
    /\ UNCHANGED <<ordered, received>>

Cancel ==
    /\ status \in {"DRAFT", "APPROVED"}
    /\ status' = "CANCELLED"
    /\ UNCHANGED <<ordered, received>>

Receive ==
    /\ status = "APPROVED"
    /\ received' \in Quantities
    /\ \A p \in Product : received[p] <= received'[p] /\ received'[p] <= ordered[p]
    /\ status' = IF received' = ordered THEN "RECEIVED" ELSE "APPROVED"
    /\ UNCHANGED ordered

Next == Draft \/ Remove \/ Approve \/ Cancel \/ Receive

Spec == Init /\ [][Next]_<<status, ordered, received>>
=============================================================================
