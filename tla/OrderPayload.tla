----------------------------- MODULE OrderPayload -----------------------------
(***************************************************************************)
(* From the order Shopify's GraphQL API returns to the payload NetSuite is *)
(* sent: mapGraphQLOrder, checkEligibility, the mapping engine with the    *)
(* default order map, the discount, the tax strategy and the balancing     *)
(* line.  Amounts are in cents; round2 keeps every amount of the program a *)
(* whole number of them.  Everything here is a function of the order, the  *)
(* connection and the lookup rows; item ids are resolved in ItemResolution. *)
(*                                                                         *)
(* An order is [status, risk, test, fields, lines, shipping, tax, discount, *)
(* total]; `fields' holds what the header map reads, a line is [sku,       *)
(* amount], a shipping line its price.  A connection is [subsidiary,       *)
(* discountItem, shipItem, defaultItem, taxEngine, extras], None for what  *)
(* it leaves unset.                                                        *)
(***************************************************************************)
EXTENDS Integers, SequencesExt

CONSTANTS
    MaxLines,          \* lineItems(first: 250)
    MaxShipping,       \* shippingLines(first: 25)
    Tolerance          \* toleranceAmount

ASSUME PayloadAssumption == MaxLines \in Nat /\ MaxShipping \in Nat /\ Tolerance \in Nat

None == "none"

ShopifyOrder ==
    [status : STRING, risk : STRING, test : BOOLEAN,
     fields : [name : STRING, id : STRING, currencyCode : STRING, gateway : STRING,
               shippingTitle : STRING],
     lines : Seq([sku : STRING, amount : Int]), shipping : Seq(Int),
     tax : Int, discount : Int, total : Int]

-----------------------------------------------------------------------------
(***************************************************************************)
(* mapGraphQLOrder and checkEligibility.                                   *)
(***************************************************************************)
FinancialStatuses ==
    {"PENDING", "AUTHORIZED", "PARTIALLY_PAID", "PAID", "PARTIALLY_REFUNDED", "REFUNDED", "VOIDED"}

(* Fault: a status the code does not know counts as paid.                  *)
mapFinancialStatusHopeful(s) == IF s \in FinancialStatuses THEN s ELSE "PAID"

mapFinancialStatus(s) == IF s \in FinancialStatuses THEN s ELSE "PENDING"

isFraudHeld(risk) == risk \notin {None, "ACCEPT"}

FirstOf(seq, n) == SubSeq(seq, 1, IF Len(seq) < n THEN Len(seq) ELSE n)

(* The query asks for the first page of lines, and nobody for the next.    *)
Fetched(order) ==
    [order EXCEPT !.status = mapFinancialStatus(@),
                  !.lines = FirstOf(@, MaxLines),
                  !.shipping = FirstOf(@, MaxShipping)]

(* Of the order as fetched; the topics of the connection are OrderImport's. *)
Eligible(order) ==
    /\ ~order.test
    /\ ~isFraudHeld(order.risk)
    /\ order.status \in {"PAID", "AUTHORIZED", "PARTIALLY_PAID"}
    /\ order.lines # <<>>

-----------------------------------------------------------------------------
(***************************************************************************)
(* The mapping engine.  A mapping is [kind, from, to, value, required,     *)
(* when]: `from' names the field read; `when' is <<>>, or the field and    *)
(* the value a conditional asks for (its `else' is a mapping of its own).  *)
(* The result is the output object as a function, or Park.                 *)
(***************************************************************************)
Park == [parked |-> "mapping"]

GetPath(order, path) == IF path \in DOMAIN order.fields THEN order.fields[path] ELSE None

(* A conditional whose branch is not there changes nothing.                *)
Applies(order, m) == m.when = <<>> \/ GetPath(order, m.when[1]) = m.when[2]

(* applyLookup: the internal id a row holds is named after its key.        *)
Hit(order, m, registered) ==
    GetPath(order, m.from) # None /\ <<m.to, GetPath(order, m.from)>> \in registered

(* Fault: every lookup parks the order when it misses.                     *)
RequiredAlways(m) == m.kind = "lookup"

Required(m) == m.kind = "lookup" /\ m.required

Value(order, m, registered) ==
    CASE m.kind = "constant" -> m.value
      [] m.kind = "direct"   -> GetPath(order, m.from)
      [] m.kind = "lookup"   -> IF Hit(order, m, registered) THEN GetPath(order, m.from) ELSE None

(* evaluate: in order, so that the last mapping of a field wins; one miss  *)
(* of a required lookup parks the whole object.                            *)
Evaluate(order, mappings, registered) ==
    LET active == {i \in DOMAIN mappings : Applies(order, mappings[i])}
    IN IF \E i \in active : Required(mappings[i]) /\ ~Hit(order, mappings[i], registered)
       THEN Park
       ELSE [f \in {mappings[i].to : i \in active} |->
                Value(order, mappings[Max({i \in active : mappings[i].to = f})], registered)]

SetPath(out, to, value) == [f \in DOMAIN out \cup {to} |-> IF f = to THEN value ELSE out[f]]

Mapping(kind, from, to, value, required) ==
    [kind |-> kind, from |-> from, to |-> to, value |-> value, required |-> required, when |-> <<>>]

(* buildDefaultOrderHeaderMap; the connection's own mappings come last and *)
(* win.  The date and the addresses, which only reformat, are left out.    *)
HeaderMap(conn) ==
    << Mapping("constant", None, "subsidiary", conn.subsidiary, FALSE),
       Mapping("constant", None, "orderStatus", "B", FALSE),
       Mapping("direct", "name", "tranId", None, FALSE),
       Mapping("direct", "id", "externalId", None, FALSE),
       Mapping("lookup", "currencyCode", "currency", None, TRUE),
       Mapping("lookup", "gateway", "paymentMethod", None, FALSE),
       Mapping("lookup", "shippingTitle", "shipMethod", None, FALSE) >>
    \o conn.extras

-----------------------------------------------------------------------------
(***************************************************************************)
(* buildOrderPayload.                                                      *)
(***************************************************************************)
DiscountParks(conn, order) == order.discount > 0 /\ conn.discountItem = None

(* The evaluated header, checked and with the discount on it.              *)
Header(conn, order, registered) ==
    LET fields == Evaluate(order, HeaderMap(conn), registered) IN
    IF \/ fields = Park
       \/ \E f \in {"subsidiary", "externalId", "tranId"} : fields[f] = None
       \/ order.lines = <<>>
       \/ DiscountParks(conn, order)
    THEN Park
    ELSE SetPath(fields, "discountRate", -order.discount)

(* LegacyTaxStrategy states the order's tax; SuiteTax leaves it to NetSuite. *)
TaxOf(conn, order) ==
    IF conn.taxEngine = "suitetax" \/ order.tax = 0 THEN None ELSE ToString(order.tax)

-----------------------------------------------------------------------------
(***************************************************************************)
(* applyBalancing.                                                         *)
(***************************************************************************)
Total(amounts) ==
    LET sum[i \in 0..Len(amounts)] == IF i = 0 THEN 0 ELSE sum[i - 1] + amounts[i]
    IN sum[Len(amounts)]

LineAmounts(order) == [i \in DOMAIN order.lines |-> order.lines[i].amount]

(* Fault: the discount on the header is forgotten.                         *)
NsTotalUndiscounted(order) == Total(LineAmounts(order)) + Total(order.shipping) + order.tax

NsTotal(order) == Total(LineAmounts(order)) + Total(order.shipping) + order.tax - order.discount

Difference(order) == order.total - NsTotal(order)

Unbalanced(order) == Difference(order) > Tolerance \/ -Difference(order) > Tolerance

-----------------------------------------------------------------------------
(***************************************************************************)
(* The lines whose items are to be resolved: [ref, resolved, amount].      *)
(***************************************************************************)
Ref(ref, resolved, amount) == [ref |-> ref, resolved |-> resolved, amount |-> amount]

(* shopifyLineToItemLine, whose defaultItemId the default map never sets.  *)
ItemLines(order) ==
    [i \in DOMAIN order.lines |->
        Ref(IF order.lines[i].sku = None THEN "UNMAPPED-ITEM" ELSE order.lines[i].sku,
            FALSE, order.lines[i].amount)]

(* The internal id of the variance item, DEFAULT_BALANCING.balancingItemId. *)
VarianceId == "6540"

(* The balancing line is appended without the `__resolved' mark.           *)
BalancedLines(order) ==
    ItemLines(order) \o
        (IF Difference(order) = 0 THEN <<>> ELSE << Ref(VarianceId, FALSE, Difference(order)) >>)

ShippingLines(conn, order) ==
    [i \in DOMAIN order.shipping |->
        IF conn.shipItem = None THEN Ref("SHIP-STANDARD", FALSE, order.shipping[i])
        ELSE Ref(conn.shipItem, TRUE, order.shipping[i])]

=============================================================================
