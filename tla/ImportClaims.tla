---------------------------- MODULE ImportClaims ----------------------------
(***************************************************************************)
(* What the claim on entity_xref promises, with everything left out that   *)
(* an invocation does in between.  An invocation comes to hold an order    *)
(* only by making its row, which takes that there is none; only who holds  *)
(* an order writes it to NetSuite and settles its row, and a row is synced *)
(* only when NetSuite has the order.  A claim can be lost at any step, and *)
(* a replay forgets the row, and with it who holds the order.              *)
(***************************************************************************)
CONSTANTS
    Orders,
    Workers,
    NoOrder      \* what an invocation without a claim holds

VARIABLES
    row,         \* the status of each order's row
    holds,       \* the order each invocation has claimed
    written      \* the orders NetSuite has

vars == <<row, holds, written>>

Init ==
    /\ row = [o \in Orders |-> "absent"]
    /\ holds = [w \in Workers |-> NoOrder]
    /\ written = {}

(* The invocation goes on, or it returns, throws or dies in this step.     *)
GoesOnOrEnds(w) == holds' = holds \/ holds' = [holds EXCEPT ![w] = NoOrder]

Take(w, o) ==
    /\ holds[w] = NoOrder
    /\ row[o] = "absent"
    /\ row' = [row EXCEPT ![o] = "pending"]
    /\ holds' = [holds EXCEPT ![w] = o] \/ UNCHANGED holds
    /\ UNCHANGED written

Write(w) ==
    /\ holds[w] # NoOrder
    /\ written' = written \cup {holds[w]}
    /\ GoesOnOrEnds(w)
    /\ UNCHANGED row

Settle(w, status) ==
    /\ holds[w] # NoOrder
    /\ row[holds[w]] # "absent"
    /\ status = "synced" => holds[w] \in written
    /\ row' = [row EXCEPT ![holds[w]] = status]
    /\ GoesOnOrEnds(w)
    /\ UNCHANGED written

(* The gate ignores an order it does not hold.                             *)
Ignore(w, o) ==
    /\ holds[w] \in {o, NoOrder}
    /\ row' = [row EXCEPT ![o] = "ignored"]
    /\ GoesOnOrEnds(w)
    /\ UNCHANGED written

Lose(w) ==
    /\ holds' = [holds EXCEPT ![w] = NoOrder]
    /\ UNCHANGED <<row, written>>

Forget(o) ==
    /\ row' = [row EXCEPT ![o] = "absent"]
    /\ UNCHANGED <<holds, written>>

Next ==
    \/ \E w \in Workers, o \in Orders : Take(w, o) \/ Ignore(w, o)
    \/ \E w \in Workers, status \in {"synced", "error"} : Settle(w, status)
    \/ \E w \in Workers : Write(w) \/ Lose(w)
    \/ \E o \in Orders : Forget(o)

Spec == Init /\ [][Next]_vars

=============================================================================
