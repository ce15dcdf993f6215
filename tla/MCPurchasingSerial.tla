------------------------- MODULE MCPurchasingSerial -------------------------
(* The instances of MCPurchasing under PurchasingSerial.                   *)
EXTENDS MCPurchasing, PurchasingSerial
=============================================================================
