-------------------------- MODULE PurchasingSerial --------------------------
(***************************************************************************)
(* Purchasing when requests do not overlap: a request opens its            *)
(* transaction only when no other is open, the way the integration tests   *)
(* drive it.  Under this discipline the services keep the promise of       *)
(* PurchaseOrderBook.                                                      *)
(***************************************************************************)
EXTENDS Purchasing

SerialBegin(t) == (\A u \in Tx : pc[u] = "idle") /\ Begin(t)

SerialNext ==
    \/ Create
    \/ \E t \in Tx : SerialBegin(t) \/ Step(t) \/ Interrupt(t)

SerialSpec == Init /\ [][SerialNext]_vars

Book == INSTANCE PurchaseOrderBook WITH
    status <- order.status,
    ordered <- [p \in Product |-> OrderedOf(p)],
    received <- [p \in Product |-> ReceivedOf(p)]

\* Requests that do not overlap take the order through the life cycle of
\* PurchaseOrderBook: only DRAFT orders change or go, and a receipt closes
\* the order exactly when nothing is left to wait for.
ImplementsBook == Book!Spec
=============================================================================
