---------------------------- MODULE MCDocumentPages ----------------------------
(* Every page, with two rows and two calls in flight. *)
EXTENDS Bodies, DocumentPages

CONSTANTS d1, d2

MCPages == DOMAIN PageOf
\* A user who may do everything and, of three pages, one who may only read.
Everything == Operations \cup Saves
MCGrants ==
    [p \in MCPages |-> IF p \in {"quotations", "purchaseOrders", "users"}
                       THEN {Everything, {}} ELSE {Everything}]
MCMaxPresses == [p \in MCPages |-> IF p = "quotations" THEN 3 ELSE 4]
=============================================================================
