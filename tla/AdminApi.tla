------------------------------ MODULE AdminApi ------------------------------
(***************************************************************************)
(* What the function app answers the admin console from: the ledger, the   *)
(* claims of entity_xref, the payloads its attempts refer to.  A handler   *)
(* that queries twice is two operators, for the console to use in two      *)
(* steps; nothing keeps the answers of one request consistent.             *)
(***************************************************************************)
EXTENDS Integers, FiniteSets, Sequences, SequencesExt

(* The rows a filter selects, in the order of every query: newest first.   *)
Matching(ledger, filter) == SelectSeq(ledger, LAMBDA r : filter \in {"all", r.status})

(***************************************************************************)
(* handleAdminOrders: SELECT COUNT, then SELECT ... LIMIT OFFSET.          *)
(***************************************************************************)
CountOrders(ledger, filter) ==
    Cardinality({i \in DOMAIN ledger : filter \in {"all", ledger[i].status}})

PageOfOrders(ledger, filter, offset, limit) ==
    LET count == CountOrders(ledger, filter) IN
    SubSeq(Matching(ledger, filter), offset + 1,
           IF offset + limit < count THEN offset + limit ELSE count)

Null == -1

(* Fault: a page that is not full is the last one, and a full one is not.  *)
NextOffsetOfFull(offset, found, total, limit) == IF found >= limit THEN offset + found ELSE Null

NextOffset(offset, found, total, limit) == IF offset + found < total THEN offset + found ELSE Null

(***************************************************************************)
(* handleAdminOrderDetail: the row of the order, none for a 404.           *)
(***************************************************************************)
OrderDetail(ledger, order) == SelectSeq(ledger, LAMBDA r : r.order = order)

(***************************************************************************)
(* handleAdminReplay, with the calls of requestReplay taken together: a    *)
(* synced order needs force, any other is un-claimed and published.        *)
(***************************************************************************)
Refuses(claim, force) == claim = "synced" /\ ~force

(***************************************************************************)
(* handleAdminPayload: a URI has to be of the blob account and to appear   *)
(* in order_attempt.  HEAD answers the size of what is servable; GET fails *)
(* with 413 for a body over the limit of the blob reader.                  *)
(***************************************************************************)
Servable(uri, attempted) == uri.origin = "blobs" /\ uri \in attempted

=============================================================================
