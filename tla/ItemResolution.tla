---------------------------- MODULE ItemResolution ----------------------------
(***************************************************************************)
(* Steps 3 to 9 of the order-import handler seen from the payload: an      *)
(* order is fetched, checked, mapped, taxed and balanced (OrderPayload),   *)
(* then the item of each of its lines is looked up in NetSuite, one await  *)
(* after the other, through a cache the process never expires.  Several    *)
(* orders are under way at once while operators create the items and       *)
(* register the rows the parked ones lack, and replay them.                *)
(***************************************************************************)
EXTENDS OrderPayload

CONSTANTS
    Orders,            \* deliveries handled by one process, one per order
    Shapes,            \* what each order may look like in Shopify
    Connections,       \* how the merchant's connection may be configured
    InitialItems,      \* the SKUs NetSuite knows at first
    LaterItems,        \* the SKUs an operator may yet create items for
    InitialRows,       \* the lookup rows registered at first
    LaterRows,         \* the rows an operator may yet register
    MaxRestarts        \* bound: restarts of the process

VARIABLES
    shape, connection, \* chosen once
    items, rows,       \* NetSuite's items, the lookup tables
    cache,             \* itemCache: SKU -> found or not
    stage,             \* where the handling of each order is
    header,            \* the payload's header
    built,             \* the payload's lines resolved so far, items then shipping
    answer,            \* what NetSuite answered, not yet cached
    restarts

vars == <<shape, connection, items, rows, cache, stage, header, built, answer, restarts>>

world == <<shape, connection, items, rows>>

AllShapes == UNION {Shapes[o] : o \in Orders}

ASSUME ItemResolutionAssumption == AllShapes \subseteq ShopifyOrder

(* Two things the code counts on and does not check.  No mapping of a      *)
(* connection's own sets the currency: they come last and win.             *)
ExtrasKeepCurrency ==
    \A c \in Connections :
        /\ c.extras \in Seq({c.extras[i] : i \in DOMAIN c.extras})
        /\ \A i \in DOMAIN c.extras : c.extras[i].to # "currency"

(* And an order that does not fit the pages that are fetched costs at      *)
(* least what Shopify lists for it.                                        *)
LongOrdersAddUp ==
    \A s \in AllShapes :
        Len(s.lines) > MaxLines \/ Len(s.shipping) > MaxShipping =>
            Total(LineAmounts(s)) + Total(s.shipping) + s.tax - s.discount <= s.total

(* What the handler makes of each order and connection, once evaluated.    *)
OrderOf == [s \in AllShapes |-> Fetched(s)]

LinesOf == [c \in Connections |-> [s \in AllShapes |->
               BalancedLines(OrderOf[s]) \o ShippingLines(c, OrderOf[s])]]

(* Steps 6 to 8: where the handling goes on, or parks, and what of the     *)
(* header is of consequence here.                                          *)
Draft(c, order, r) ==
    LET draft == Header(c, order, r) IN
    CASE draft = Park -> [stage |-> "mapping", header |-> Park]
      [] draft # Park /\ Unbalanced(order) -> [stage |-> "balancing", header |-> Park]
      [] draft # Park /\ ~Unbalanced(order) ->
            [stage |-> "lines",
             header |-> [currency |-> draft.currency, discountRate |-> draft.discountRate,
                         tax |-> TaxOf(c, order)]]

Drafts ==
    { [from |-> <<c, s, r>>, draft |-> Draft(c, OrderOf[s], r)] :
        c \in Connections, s \in AllShapes, r \in SUBSET (InitialRows \cup LaterRows) }

Order(o) == OrderOf[shape[o]]

Lines(o) == LinesOf[connection][shape[o]]

(* resolveSublist's line, and whether it is one of payload.item.           *)
Line(o) == Lines(o)[Len(built[o]) + 1]

OnItems(o) == Len(built[o]) < Len(BalancedLines(Order(o)))

NoHeader == Park

(* NetSuite items: the one a SKU names, and one named by its internal id.  *)
ItemOf(sku) == [sku |-> sku, id |-> None]

Internal(id) == [sku |-> None, id |-> id]

TypeOK ==
    /\ items \subseteq InitialItems \cup LaterItems
    /\ rows \subseteq InitialRows \cup LaterRows
    /\ \A sku \in DOMAIN cache : cache[sku] \in {"found", "missing"}
    /\ stage \in [Orders -> {"due", "fetched", "lines", "query", "built", "ignored",
                             "mapping", "balancing", "item_resolution"}]
    /\ \A o \in Orders :
         /\ Len(built[o]) <= Len(Lines(o))
         /\ answer[o] \in {None, "found", "missing"}
         /\ answer[o] # None => stage[o] = "query"
         /\ stage[o] \in {"lines", "query", "built"} <=> header[o] # NoHeader
         /\ built[o] # <<>> => header[o] # NoHeader
    /\ restarts \in 0..MaxRestarts

Init ==
    /\ shape \in [Orders -> AllShapes]
    /\ \A o \in Orders : shape[o] \in Shapes[o]
    /\ connection \in Connections
    /\ items = InitialItems
    /\ rows = InitialRows
    /\ cache = << >>
    /\ stage = [o \in Orders |-> "due"]
    /\ header = [o \in Orders |-> NoHeader]
    /\ built = [o \in Orders |-> <<>>]
    /\ answer = [o \in Orders |-> None]
    /\ restarts = 0

Parked(o) == stage[o] \in {"mapping", "balancing", "item_resolution"}

(* parkOutcome: the draft is dropped, the stage is what the record says.   *)
ParkAt(o, s) ==
    /\ stage' = [stage EXCEPT ![o] = s]
    /\ header' = [header EXCEPT ![o] = NoHeader]
    /\ built' = [built EXCEPT ![o] = <<>>]

-----------------------------------------------------------------------------
(* getOrder and checkEligibility.                                          *)
Fetch(o) ==
    /\ stage[o] = "due"
    /\ stage' = [stage EXCEPT ![o] = IF Eligible(Order(o)) THEN "fetched" ELSE "ignored"]
    /\ UNCHANGED <<world, cache, header, built, answer, restarts>>

(* buildOrderPayload with a resolver of this call's own, which reads the   *)
(* rows as they are; then the tax and the balancing line.                  *)
Evaluated(o) ==
    /\ stage[o] = "fetched"
    /\ \E d \in Drafts :
         /\ d.from = <<connection, shape[o], rows>>
         /\ stage' = [stage EXCEPT ![o] = d.draft.stage]
         /\ header' = [header EXCEPT ![o] = d.draft.header]
    /\ UNCHANGED <<world, cache, built, answer, restarts>>

(* Push the line with this item; the last one completes the payload.       *)
Push(o, item) ==
    /\ built' = [built EXCEPT ![o] = Append(@, [item |-> item, amount |-> Line(o).amount])]
    /\ stage' = [stage EXCEPT ![o] = IF Len(built[o]) + 1 = Len(Lines(o)) THEN "built" ELSE "lines"]
    /\ UNCHANGED header

(* Fault: a shipping line falls back on the connection's item, too.        *)
FallbackOfAll(o) == connection.defaultItem

(* fallbackInternalId, passed for the item sublist only.                   *)
Fallback(o) == IF OnItems(o) THEN connection.defaultItem ELSE None

(* What the loop makes of resolveItemId's result.                          *)
Resolved(o, found) ==
    \/ found = "found" /\ Push(o, ItemOf(Line(o).ref))
    \/ found = "missing" /\ Fallback(o) # None /\ Push(o, Internal(Fallback(o)))
    \/ found = "missing" /\ Fallback(o) = None /\ ParkAt(o, "item_resolution")

(* A line whose id is internal already, or in the cache, or to be asked.   *)
ResolveLine(o) ==
    /\ stage[o] = "lines"
    /\ \/ Line(o).resolved /\ Push(o, Internal(Line(o).ref))
       \/ ~Line(o).resolved /\ Line(o).ref \in DOMAIN cache /\ Resolved(o, cache[Line(o).ref])
       \/ /\ ~Line(o).resolved
          /\ Line(o).ref \notin DOMAIN cache
          /\ stage' = [stage EXCEPT ![o] = "query"]
          /\ UNCHANGED <<header, built>>
    /\ UNCHANGED <<world, cache, answer, restarts>>

(* NetSuite runs the query: whether the item exists at this moment.        *)
Query(o) ==
    /\ stage[o] = "query" /\ answer[o] = None
    /\ answer' = [answer EXCEPT ![o] = IF Line(o).ref \in items THEN "found" ELSE "missing"]
    /\ UNCHANGED <<world, cache, stage, header, built, restarts>>

(* resolveItemId after its await: cached whatever it is, over whatever     *)
(* another order cached meanwhile.                                         *)
Answered(o) ==
    /\ stage[o] = "query" /\ answer[o] # None
    /\ cache' = [sku \in DOMAIN cache \cup {Line(o).ref} |->
                    IF sku = Line(o).ref THEN answer[o] ELSE cache[sku]]
    /\ answer' = [answer EXCEPT ![o] = None]
    /\ Resolved(o, answer[o])
    /\ UNCHANGED <<world, restarts>>

-----------------------------------------------------------------------------
(* Operators: create an item, register a row, replay what is parked.       *)
CreateItem(sku) ==
    /\ sku \notin items
    /\ items' = items \cup {sku}
    /\ UNCHANGED <<shape, connection, rows, cache, stage, header, built, answer, restarts>>

RegisterRow(row) ==
    /\ row \notin rows
    /\ rows' = rows \cup {row}
    /\ UNCHANGED <<shape, connection, items, cache, stage, header, built, answer, restarts>>

Replay(o) ==
    /\ Parked(o)
    /\ stage' = [stage EXCEPT ![o] = "due"]
    /\ UNCHANGED <<world, cache, header, built, answer, restarts>>

(* The process restarts: its cache is empty, what it had in hand comes     *)
(* again (the redelivery itself is OrderPipeline's).                       *)
Restart ==
    /\ restarts < MaxRestarts
    /\ restarts' = restarts + 1
    /\ cache' = << >>
    /\ LET busy(o) == stage[o] \in {"fetched", "lines", "query"} IN
       /\ stage' = [o \in Orders |-> IF busy(o) THEN "due" ELSE stage[o]]
       /\ header' = [o \in Orders |-> IF busy(o) THEN NoHeader ELSE header[o]]
       /\ built' = [o \in Orders |-> IF busy(o) THEN <<>> ELSE built[o]]
       /\ answer' = [o \in Orders |-> None]
    /\ UNCHANGED world

-----------------------------------------------------------------------------
Handling(o) == Fetch(o) \/ Evaluated(o) \/ ResolveLine(o) \/ Query(o) \/ Answered(o)

Next ==
    \/ \E o \in Orders : Handling(o) \/ Replay(o)
    \/ \E sku \in LaterItems : CreateItem(sku)
    \/ \E row \in LaterRows : RegisterRow(row)
    \/ Restart

(* The handler's awaits end; operators replay what they see parked.        *)
Spec ==
    /\ Init /\ [][Next]_vars
    /\ \A o \in Orders : WF_vars(Handling(o)) /\ WF_vars(Replay(o))

-----------------------------------------------------------------------------
(* What NetSuite will make of the payload: the lines, the tax and the      *)
(* discount on the header.                                                 *)
Booked(o) ==
    Total([i \in DOMAIN built[o] |-> built[o][i].amount]) + shape[o].tax + header[o].discountRate

(* A complete payload comes to exactly the total Shopify states, whatever  *)
(* lines, shipping, tax, discount or rounding made it up, and an order of  *)
(* more lines than were fetched is among those that never are complete:    *)
(* what is neither on a line nor on the header is at most the tolerance.   *)
BuiltTotalsReconcile ==
    \A o \in Orders : stage[o] = "built" =>
        /\ Booked(o) = shape[o].total
        /\ LET Cut == Total(LineAmounts(shape[o])) + Total(shape[o].shipping)
                        - Total(LineAmounts(Order(o))) - Total(Order(o).shipping)
           IN Cut <= Tolerance

(* Only an order Shopify itself calls paid, authorized or partly paid,     *)
(* that is real and not held for fraud, gets past step 4; and it books its *)
(* lines against the currency row of its own currency.                     *)
NothingUnfitIsBuilt ==
    \A o \in Orders : header[o] # NoHeader =>
        /\ shape[o].status \in {"PAID", "AUTHORIZED", "PARTIALLY_PAID"}
        /\ ~shape[o].test /\ shape[o].risk \in {None, "ACCEPT"}
        /\ header[o].currency = shape[o].fields.currencyCode
        /\ <<"currency", header[o].currency>> \in rows

(* No line is booked on a guessed item: an item line is its own SKU's item *)
(* or the connection's catch-all, a shipping line its own item or the      *)
(* connection's, and an item that is named existed when it was looked up.  *)
NoGuessing ==
    \A o \in Orders : \A i \in DOMAIN built[o] :
        LET line == Lines(o)[i]
            item == built[o][i].item
        IN \/ item = ItemOf(line.ref) /\ line.ref \in items
           \/ i <= Len(BalancedLines(Order(o))) /\ item = Internal(connection.defaultItem) /\ item.id # None
           \/ i > Len(BalancedLines(Order(o))) /\ item = Internal(connection.shipItem) /\ item.id # None

(* What needs nobody's help but the items and the rows.                    *)
Fit == [c \in Connections, s \in AllShapes |->
           Eligible(OrderOf[s]) /\ ~Unbalanced(OrderOf[s]) /\ ~DiscountParks(c, OrderOf[s])]

(* What an operator has to provide before the order can be built.          *)
Resolvable(o) ==
    /\ Fit[connection, shape[o]]
    /\ <<"currency", shape[o].fields.currencyCode>> \in rows
    /\ \A i \in DOMAIN Lines(o) :
         LET ref == Lines(o)[i].ref IN
         \/ Lines(o)[i].resolved
         \/ ref \in items /\ (ref \in DOMAIN cache => cache[ref] = "found")
                          /\ \A p \in Orders : stage[p] = "query" /\ Line(p).ref = ref => answer[p] # "missing"

(* Once its items and its currency are there, and no `missing' answer of   *)
(* before is left in the process, an order is built: the optional lookups  *)
(* never hold it, nor does another order handled at the same time.         *)
ResolvableOrdersAreBuilt ==
    \A o \in Orders : <>[]Resolvable(o) => <>(stage[o] = "built")

(* balancing.ts on its default item '6540', the "Shopify Variance" item:   *)
(* the difference within tolerance is booked on that item.                 *)
VarianceBooksOnItsItem ==
    \A o \in Orders : stage[o] = "built" /\ Difference(Order(o)) # 0 =>
        built[o][Len(BalancedLines(Order(o)))].item = Internal(VarianceId)

=============================================================================
