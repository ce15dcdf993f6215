------------------------ MODULE MCPurchasingOverlap -------------------------
(* The instances of MCPurchasing with the history of PurchasingOverlap.    *)
EXTENDS MCPurchasing, PurchasingOverlap
=============================================================================
