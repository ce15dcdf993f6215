----------------------------- MODULE MCAuditTrail -----------------------------
(* AuditTrail for TLC: a pool of three connections.                         *)
EXTENDS AuditTrail, TLC

CONSTANTS x1, x2, x3, r1, r2, r3

Three == {x1, x2, x3}
Existing == {x1, x3}
SoftRows == {x1, x2}

Write(k, row) == [kind |-> k, row |-> row]
Alone(k, row) == [tx |-> FALSE, ops |-> <<Write(k, row)>>]
InTx(o1, o2) == [tx |-> TRUE, ops |-> <<o1, o2>>]

\* A transaction that creates and then corrects a row, changes two or deletes
\* one; a transaction that takes rows in the other order; and single writes,
\* the soft delete of a row the others create among them.
Scripts ==
    ( r1 :> {InTx(Write("CREATE", x2), Write("UPDATE", x2)),
             InTx(Write("UPDATE", x1), Write("UPDATE", x3)),
             [tx |-> TRUE, ops |-> <<Write("DELETE", x3)>>]} @@
      r2 :> {InTx(Write("UPDATE", x3), Write("UPDATE", x1)),
             Alone("SOFT", x1), Alone("SOFT", x2)} @@
      r3 :> {Alone("UPDATE", x1), Alone("SOFT", x1), Alone("CREATE", x2),
             Alone("UPDATE", x3)} )
Requests == {r1, r2, r3}
=============================================================================
