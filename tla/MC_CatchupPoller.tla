-------------------------- MODULE MC_CatchupPoller --------------------------
(* Bounds for the model-checking run of CatchupPoller.                     *)
EXTENDS CatchupPoller, TLC
CONSTANTS o1, o2, o3

(* All orders are of the first connection, so that a page of two is not    *)
(* all of them; the second connection is broken.                           *)
Shops == [o \in {o1, o2, o3} |-> 1]
=============================================================================
