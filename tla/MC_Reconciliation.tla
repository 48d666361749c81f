-------------------------- MODULE MC_Reconciliation --------------------------
(* Which connection each order belongs to in the run of Reconciliation.    *)
EXTENDS Reconciliation, TLC

CONSTANT Elsewhere     \* the orders of the second connection

Shops == [o \in Orders |-> IF o \in Elsewhere THEN 2 ELSE 1]

(* Orders that one connection may import alike.                            *)
Alike == Permutations(Orders \ Elsewhere)
=============================================================================
