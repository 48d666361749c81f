--------------------------- MODULE MC_ShopifyAccess ---------------------------
(* Bounds for the model-checking run of ShopifyAccess.                     *)
EXTENDS ShopifyAccess
CONSTANTS n1, w1, w2
=============================================================================
