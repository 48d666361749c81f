------------------------------ MODULE XrefStore ------------------------------
(***************************************************************************)
(* The entity_xref table: one row per order, keyed by the dedup key (the   *)
(* environment, connection, entity type and source system are fixed, so an *)
(* order stands for its key).  Every operation below is one SQL statement  *)
(* of PostgresXrefStore, hence one atomic step.  The claim is not one      *)
(* statement but two, an INSERT that may lose to the primary key and a     *)
(* SELECT of the row it lost to: a client performs InsertPending, and when *)
(* that is refused reads ClaimOutcome in a later step of its own.          *)
(***************************************************************************)

CONSTANTS
    Orders     \* Shopify orders, by their GID

VARIABLES
    xref       \* the row of each order, NoRow when there is none

RowStatuses == {"absent", "pending", "synced", "ignored", "error"}

(* `linked' says that target_id holds a NetSuite internal id.              *)
Row == [status : RowStatuses, linked : BOOLEAN]

NoRow == [status |-> "absent", linked |-> FALSE]

XrefTypeOK == xref \in [Orders -> Row]

XrefInit == xref = [o \in Orders |-> NoRow]

lookup(o) == xref[o].status

Exists(o) == lookup(o) # "absent"

(***************************************************************************)
(* The statements.  An UPDATE of a missing row throws in the code: the     *)
(* guard Exists(o) is for the client to test, and to fail by.              *)
(***************************************************************************)
(* INSERT ... ON CONFLICT DO NOTHING that returns the row it inserted.     *)
InsertPending(o) ==
    /\ ~Exists(o)
    /\ xref' = [xref EXCEPT ![o] = [status |-> "pending", linked |-> FALSE]]

(* Fault: the answer is the status of the row, not an outcome of claim().  *)
ClaimOutcomeRaw(status) == status

(* What claim() answers from the row its INSERT lost to.                   *)
ClaimOutcome(status) ==
    CASE status = "synced"             -> "already_synced"
      [] status = "ignored"            -> "ignored"
      [] status \in {"pending", "error"} -> "already_claimed"

recordSuccess(o) ==
    /\ Exists(o)
    /\ xref' = [xref EXCEPT ![o] = [status |-> "synced", linked |-> TRUE]]

recordFailure(o) ==
    /\ Exists(o)
    /\ xref' = [xref EXCEPT ![o].status = "error"]

(* An upsert: it overwrites whatever status the row has, and keeps its     *)
(* target_id.                                                              *)
markIgnored(o) == xref' = [xref EXCEPT ![o].status = "ignored"]

delete(o) == xref' = [xref EXCEPT ![o] = NoRow]

=============================================================================
