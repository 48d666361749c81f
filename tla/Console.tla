------------------------------ MODULE Console ------------------------------
(***************************************************************************)
(* The admin console: a browser with one page mounted, the requests its    *)
(* pages have in flight, and the replays an operator starts from them.     *)
(*                                                                         *)
(* Every page loads alike.  An effect sends a request for what the page is *)
(* to show; when that changes, or the page is left, the effect's cleanup   *)
(* cancels the request, whose answer is then ignored.  After a replay the  *)
(* parked queue and the order page also set a timer that calls the `load'  *)
(* of the render the replay began in; nobody cancels that one.             *)
(*                                                                         *)
(* Meanwhile the handler of the pipeline imports or parks what is queued.  *)
(***************************************************************************)
EXTENDS AdminApi

CONSTANTS
    Orders,
    NoOrder,           \* the order of a page that is not about one
    PageSize,          \* PAGE_SIZE, the limit of each request
    Uris,              \* payloads: [origin, size], of every attempt
    NoUri,             \* the payload of a closed drawer
    Clicks,            \* bound: pages opened, filters and offsets changed
    ReplayClicks,      \* bound: replay buttons clicked
    Handlings,         \* bound: messages the handler settles
    RequestFailures    \* bound: requests that are answered with an error

ASSUME ConsoleAssumption ==
    /\ IsFiniteSet(Orders) /\ NoOrder \notin Orders
    /\ PageSize \in Nat \ {0}
    /\ Uris \subseteq [origin : {"blobs", "replay"}, size : {"small", "large", "huge"}]
    /\ NoUri \notin Uris
    /\ {Clicks, ReplayClicks, Handlings, RequestFailures} \subseteq Nat

VARIABLES
    ledger,            \* order_sync_log, newest first
    claim,             \* the entity_xref row of each order
    queued,            \* orders a replay has published
    query,             \* the page that is mounted, and what it is to show
    requests,          \* its requests in flight
    shown,             \* the answer it shows
    loading,           \* its loading indicator
    failed,            \* its error message
    timers,            \* the queries of the refreshes that are due
    selected,          \* the orders ticked on the parked queue
    bulkBusy,          \* its bulk button is disabled
    busy,              \* the order whose replay button is disabled
    replays,           \* the loops and calls that replay orders
    drawer,            \* the payload drawer of the order page
    fetches,           \* its requests in flight
    left               \* what is left of the bounds

backend == <<ledger, claim, queued>>
page == <<query, requests, shown, loading, failed, timers>>
buttons == <<selected, bulkBusy, busy, replays>>
payload == <<drawer, fetches>>
vars == <<backend, page, buttons, payload, left>>

LedgerRow == [order : Orders, status : {"imported", "parked"}]

(* What each page is keyed by: the parked queue by its offset, the orders  *)
(* page by its filter (a status, or the debounced search) and its offset,  *)
(* the order page by its order, and reconciliation by its filter and a     *)
(* refreshKey that a finished sweep bumps.                                 *)
ParkedQueue(i) == [page |-> "parked", filter |-> "parked", offset |-> i, order |-> NoOrder]
OrdersPage(f, i) == [page |-> "orders", filter |-> f, offset |-> i, order |-> NoOrder]
OrderPage(o) == [page |-> "order", filter |-> "all", offset |-> 0, order |-> o]
Snapshots(f, i) == [page |-> "reconciliation", filter |-> f, offset |-> i, order |-> NoOrder]

Sent(q, by) == [query |-> q, by |-> by, counted |-> Null]

Unanswered == [query |-> ParkedQueue(0), by |-> "nobody", rows |-> << >>, total |-> 0,
               next |-> Null, held |-> 0]

Closed == [uri |-> NoUri, step |-> "idle", body |-> NoUri]

StatusIs(status) == {ledger[i].order : i \in {j \in DOMAIN ledger : ledger[j].status = status}}

Init ==
    /\ \E status \in [Orders -> {"imported", "parked"}] :
          ledger = [i \in 1..Cardinality(Orders) |->
                       LET o == SetToSeq(Orders)[i] IN [order |-> o, status |-> status[o]]]
    /\ \E pending \in SUBSET StatusIs("parked") :
          /\ queued = pending \* somebody else's replays
          /\ claim = [o \in Orders |-> CASE o \in StatusIs("imported") -> "synced"
                                        [] o \in pending -> "absent"
                                        [] OTHER -> "error"]
    /\ query = ParkedQueue(0)
    /\ requests = {Sent(ParkedQueue(0), "effect")}
    /\ shown = Unanswered
    /\ loading = TRUE
    /\ failed = FALSE
    /\ timers = {}
    /\ selected = {}
    /\ bulkBusy = FALSE
    /\ busy = NoOrder
    /\ replays = {}
    /\ drawer = Closed
    /\ fetches = {}
    /\ left = [clicks |-> Clicks, replays |-> ReplayClicks, handlings |-> Handlings,
               failures |-> RequestFailures]

Spend(what) == left[what] > 0 /\ left' = [left EXCEPT ![what] = @ - 1]

-----------------------------------------------------------------------------
(* The row is the newest then, or keeps its place: an order that parks     *)
(* after it was imported once keeps its synced_at.                         *)
Newest(row) ==
    <<row>> \o RemoveAt(ledger, CHOOSE i \in DOMAIN ledger : ledger[i].order = row.order)

InPlace(row) == [i \in DOMAIN ledger |-> IF ledger[i].order = row.order THEN row ELSE ledger[i]]

(* The handler settles a replayed order.                                   *)
Handle(o, status) ==
    /\ o \in queued
    /\ Spend("handlings")
    /\ queued' = queued \ {o}
    /\ claim' = [claim EXCEPT ![o] = IF status = "imported" THEN "synced" ELSE "error"]
    /\ LET row == [order |-> o, status |-> status] IN
       \/ (status = "imported" \/ o \in StatusIs("parked")) /\ ledger' = Newest(row)
       \/ status = "parked" /\ ledger' = InPlace(row)
    /\ UNCHANGED <<page, buttons, payload>>

-----------------------------------------------------------------------------
(***************************************************************************)
(* The loading effect.                                                     *)
(***************************************************************************)
(* Fault: the effect has no cleanup.                                       *)
CleanupNothing(inFlight) == inFlight

(* The cleanup cancels the effect's request, but not a refresh.            *)
Cleanup(inFlight) == {r \in inFlight : r.by # "effect"}

(* The operator changes what the mounted page is to show.                  *)
Show(q) ==
    /\ query' = q
    /\ requests' = Cleanup(requests) \cup {Sent(q, "effect")}
    /\ loading' = TRUE
    /\ UNCHANGED <<shown, failed, timers>>

(* Another page is mounted in its place: nothing in the browser remembers  *)
(* this one, but a loop that replays goes on.                              *)
Mount(q) ==
    /\ query' = q
    /\ requests' = {Sent(q, "effect")}
    /\ shown' = Unanswered
    /\ loading' = TRUE
    /\ failed' = FALSE
    /\ timers' = {}
    /\ selected' = {}
    /\ bulkBusy' = FALSE
    /\ busy' = NoOrder
    /\ replays' = {[r EXCEPT !.mounted = FALSE] : r \in replays}
    /\ drawer' = Closed
    /\ fetches' = {}

(* The navigation bar, and the links of the rows.                          *)
Open(q) ==
    /\ q.page # query.page
    /\ q.page = "order" => \E i \in DOMAIN shown.rows : shown.rows[i].order = q.order
    /\ Spend("clicks")
    /\ Mount(q)
    /\ UNCHANGED backend

(* The browser's history leads from one order page to another.             *)
OtherOrder(o) ==
    /\ query.page = "order" /\ query.order # o
    /\ Spend("clicks")
    /\ Show(OrderPage(o))
    /\ UNCHANGED <<backend, buttons, payload>>

(* A status button or a search: the offset goes back to 0.                 *)
Filter(f) ==
    /\ query.page \in {"orders", "reconciliation"}
    /\ query.filter # f \/ (query.page = "orders" /\ query.offset # 0)
    /\ Spend("clicks")
    /\ Show([query EXCEPT !.filter = f, !.offset = IF query.page = "orders" THEN 0 ELSE @])
    /\ UNCHANGED <<backend, buttons, payload>>

(* Next is what the answer that is shown says, Prev counts from the page.  *)
Turn(offset) ==
    /\ query.page \in {"orders", "parked"}
    /\ \/ offset = shown.next /\ offset # Null
       \/ /\ query.offset > 0
          /\ offset = IF query.offset > PageSize THEN query.offset - PageSize ELSE 0
    /\ offset # query.offset
    /\ Spend("clicks")
    /\ Show([query EXCEPT !.offset = offset])
    /\ UNCHANGED <<backend, buttons, payload>>

(* handleRun of the reconciliation page: the sweep is done.                *)
SweepDone ==
    /\ query.page = "reconciliation"
    /\ Spend("clicks")
    /\ Show([query EXCEPT !.offset = @ + 1])
    /\ UNCHANGED <<backend, buttons, payload>>

(* The closure of setTimeout(() => load()).                                *)
Refresh(q) ==
    /\ q \in timers
    /\ timers' = timers \ {q}
    /\ requests' = requests \cup {Sent(q, "refresh")}
    /\ loading' = TRUE
    /\ UNCHANGED <<query, shown, failed, backend, buttons, payload, left>>

(* The first of the two queries of a list.                                 *)
Count(r) ==
    /\ r \in requests
    /\ r.query.page \in {"orders", "parked"} /\ r.counted = Null
    /\ requests' = (requests \ {r})
                   \cup {[r EXCEPT !.counted = CountOrders(ledger, r.query.filter)]}
    /\ UNCHANGED <<query, shown, loading, failed, timers, backend, buttons, payload, left>>

Received(r) ==
    LET q == r.query
        rows == CASE q.page = "order" -> OrderDetail(ledger, q.order)
                  [] q.page \in {"orders", "parked"}
                        -> PageOfOrders(ledger, q.filter, q.offset, PageSize)
                  [] OTHER -> << >>
    IN  [query |-> q, by |-> r.by, rows |-> rows, total |-> r.counted,
         next |-> NextOffset(q.offset, Len(rows), r.counted, PageSize),
         held |-> CountOrders(ledger, q.filter)]

(* ... and the second, whose answer the page shows.                        *)
Answer(r) ==
    /\ r \in requests
    /\ r.query.page \in {"orders", "parked"} => r.counted # Null
    /\ requests' = requests \ {r}
    /\ shown' = Received(r)
    /\ failed' = FALSE
    /\ loading' = FALSE
    /\ UNCHANGED <<query, timers, backend, buttons, payload, left>>

(* An error is shown beside the answer there was.                          *)
RequestFails(r) ==
    /\ r \in requests
    /\ Spend("failures")
    /\ requests' = requests \ {r}
    /\ failed' = TRUE
    /\ loading' = FALSE
    /\ UNCHANGED <<query, shown, timers, backend, buttons, payload>>

-----------------------------------------------------------------------------
(***************************************************************************)
(* The parked queue's checkboxes, and the replay buttons.                  *)
(***************************************************************************)
ShownOrders == {shown.rows[i].order : i \in DOMAIN shown.rows}

toggleRow(o) ==
    /\ query.page = "parked" /\ o \in ShownOrders
    /\ selected' = IF o \in selected THEN selected \ {o} ELSE selected \cup {o}
    /\ UNCHANGED <<backend, page, bulkBusy, busy, replays, payload, left>>

(* It compares how many are ticked, on whatever page, with how many rows   *)
(* there are.                                                              *)
toggleAll ==
    /\ query.page = "parked"
    /\ selected' = IF Cardinality(selected) = Len(shown.rows) THEN {} ELSE ShownOrders
    /\ UNCHANGED <<backend, page, bulkBusy, busy, replays, payload, left>>

Replay(kind, targets, force) ==
    [kind |-> kind, targets |-> targets, force |-> force, query |-> query, mounted |-> TRUE]

handleBulkReplay ==
    /\ query.page = "parked" /\ selected # {} /\ ~bulkBusy
    /\ Spend("replays")
    /\ bulkBusy' = TRUE
    /\ LET targets == SelectSeq(shown.rows, LAMBDA r : r.order \in selected)
       IN  replays' = replays \cup {Replay("bulk", [i \in DOMAIN targets |-> targets[i].order], FALSE)}
    /\ UNCHANGED <<backend, page, selected, busy, payload>>

(* Force is a button of the order page, of an order it shows as imported.  *)
ForceOffered ==
    /\ query.page = "order"
    /\ \E i \in DOMAIN shown.rows : shown.rows[i].status = "imported"

handleReplay(o, force) ==
    /\ \/ query.page = "parked" /\ busy # o
       \/ query.page = "order" /\ busy = NoOrder
    /\ force => ForceOffered
    /\ o \in ShownOrders
    /\ Spend("replays")
    /\ busy' = o
    /\ replays' = replays \cup {Replay("single", <<o>>, force)}
    /\ UNCHANGED <<backend, page, selected, bulkBusy, payload>>

(* The function app replays the order at the head, or refuses to ...       *)
Serve(r, o) ==
    \/ Refuses(claim[o], r.force) /\ UNCHANGED backend
    \/ /\ ~Refuses(claim[o], r.force)
       /\ claim' = [claim EXCEPT ![o] = "absent"]
       /\ queued' = queued \cup {o}
       /\ UNCHANGED ledger

(* Fault: the loop is left at the first order that is not replayed.        *)
NextTargetUnlessRefused(r) ==
    [r EXCEPT !.targets = IF Refuses(claim[Head(@)], r.force) THEN << >> ELSE Tail(@)]

(* ... and the loop goes on to the next order.                             *)
NextTarget(r) == [r EXCEPT !.targets = Tail(@)]

(* A call of a single replay is over: its button comes back, and the page  *)
(* is refreshed if the order was replayed.                                 *)
SingleDone(r, replayed) ==
    /\ replays' = replays \ {r}
    /\ busy' = IF r.mounted THEN NoOrder ELSE busy
    /\ timers' = IF r.mounted /\ replayed THEN timers \cup {r.query} ELSE timers
    /\ UNCHANGED <<selected, bulkBusy>>

GoOn(r) ==
    /\ replays' = (replays \ {r}) \cup {NextTarget(r)}
    /\ UNCHANGED <<timers, selected, bulkBusy, busy>>

ReplayAnswered(r) ==
    /\ r \in replays /\ r.targets # << >>
    /\ Serve(r, Head(r.targets))
    /\ IF r.kind = "bulk" THEN GoOn(r)
       ELSE SingleDone(r, ~Refuses(claim[Head(r.targets)], r.force))
    /\ UNCHANGED <<query, requests, shown, loading, failed, payload, left>>

(* Fault: the loop is left by the exception, past setBulkBusy(false).      *)
ReplayFailsLoop(r) ==
    /\ r \in replays /\ r.targets # << >>
    /\ Spend("failures")
    /\ Serve(r, Head(r.targets)) \/ UNCHANGED backend
    /\ IF r.kind = "bulk" THEN replays' = replays \ {r} /\ UNCHANGED <<timers, selected, bulkBusy, busy>>
       ELSE SingleDone(r, FALSE)
    /\ UNCHANGED <<query, requests, shown, loading, failed, payload>>

(* The call fails, before or after the function app has done it.           *)
ReplayFails(r) ==
    /\ r \in replays /\ r.targets # << >>
    /\ Spend("failures")
    /\ Serve(r, Head(r.targets)) \/ UNCHANGED backend
    /\ IF r.kind = "bulk" THEN GoOn(r) ELSE SingleDone(r, FALSE)
    /\ UNCHANGED <<query, requests, shown, loading, failed, payload>>

(* The loop has come to its end, on the page it began on or after it.      *)
BulkDone(r) ==
    /\ r \in replays /\ r.kind = "bulk" /\ r.targets = << >>
    /\ replays' = replays \ {r}
    /\ \/ /\ r.mounted
          /\ bulkBusy' = FALSE
          /\ selected' = {}
          /\ timers' = timers \cup {r.query}
       \/ ~r.mounted /\ UNCHANGED <<bulkBusy, selected, timers>>
    /\ UNCHANGED <<query, requests, shown, loading, failed, backend, busy, payload, left>>

-----------------------------------------------------------------------------
(***************************************************************************)
(* The payload drawer asks for the size first, and for the body if it is   *)
(* not too large to render.                                                *)
(***************************************************************************)
(* Fault: every payload has a button.                                      *)
OfferedAny(uri) == query.page = "order" /\ shown.rows # << >>

(* PayloadButtons: a replay has no envelope to look at.                    *)
Offered(uri) == query.page = "order" /\ shown.rows # << >> /\ uri.origin = "blobs"

openPayload(uri) ==
    /\ Offered(uri)
    /\ drawer.uri # uri
    /\ Spend("clicks")
    /\ drawer' = [uri |-> uri, step |-> "loading", body |-> NoUri]
    /\ fetches' = {[uri |-> uri, step |-> "head"]}
    /\ UNCHANGED <<backend, page, buttons>>

closePayload ==
    /\ drawer.uri # NoUri
    /\ drawer' = Closed
    /\ fetches' = {}
    /\ UNCHANGED <<backend, page, buttons, left>>

Settle(f, step, body) ==
    /\ fetches' = fetches \ {f}
    /\ drawer' = [drawer EXCEPT !.step = step, !.body = body]
    /\ UNCHANGED <<backend, page, buttons>>

FetchHead(f) ==
    /\ f \in fetches /\ f.step = "head"
    /\ \/ Servable(f.uri, Uris) /\ f.uri.size # "small" /\ Settle(f, "too_large", NoUri)
       \/ /\ Servable(f.uri, Uris) /\ f.uri.size = "small"
          /\ fetches' = (fetches \ {f}) \cup {[f EXCEPT !.step = "get"]}
          /\ UNCHANGED <<drawer, backend, page, buttons>>
       \/ ~Servable(f.uri, Uris) /\ Settle(f, "error", NoUri)
    /\ UNCHANGED left

FetchBody(f) ==
    /\ f \in fetches /\ f.step = "get"
    /\ Settle(f, "ready", f.uri)
    /\ UNCHANGED left

FetchFails(f) ==
    /\ f \in fetches
    /\ Spend("failures")
    /\ Settle(f, "error", NoUri)

-----------------------------------------------------------------------------
Operator ==
    \/ \E q \in {ParkedQueue(0), OrdersPage("all", 0), Snapshots("all", 0)}
                \cup {OrderPage(o) : o \in Orders} : Open(q)
    \/ \E o \in Orders : OtherOrder(o) \/ toggleRow(o)
    \/ \E f \in {"all", "parked"} : Filter(f)
    \/ \E offset \in 0..Cardinality(Orders) : Turn(offset)
    \/ toggleAll
    \/ handleBulkReplay
    \/ \E o \in Orders, force \in BOOLEAN : handleReplay(o, force)
    \/ \E uri \in Uris : openPayload(uri)
    \/ closePayload

Loader == \E r \in requests : Count(r) \/ Answer(r) \/ RequestFails(r)

Replayer == \E r \in replays : ReplayAnswered(r) \/ ReplayFails(r) \/ BulkDone(r)

Drawer == \E f \in fetches : FetchHead(f) \/ FetchBody(f) \/ FetchFails(f)

Next ==
    \/ Operator
    \/ SweepDone
    \/ \E q \in timers : Refresh(q)
    \/ Loader \/ Replayer \/ Drawer
    \/ \E o \in Orders, status \in {"imported", "parked"} : Handle(o, status)

(* Every call of the browser is answered or times out.                     *)
Spec == Init /\ [][Next]_vars /\ WF_vars(Loader) /\ WF_vars(Replayer) /\ WF_vars(Drawer)

-----------------------------------------------------------------------------
(***************************************************************************)
(* A page that is not loading shows the answer to what it is to show, in   *)
(* whatever order the answers to earlier filters, offsets and orders come, *)
(* unless it says that its request failed, or a refresh that was set       *)
(* before the page was changed has overwritten it.                         *)
(***************************************************************************)
OnlyRefreshesAreStale ==
    ~loading /\ ~failed => shown.query = query \/ shown.by = "refresh"

(***************************************************************************)
(* Whatever is opened and closed in whatever order, the drawer shows the   *)
(* payload whose button was clicked, and every button leads to a payload:  *)
(* the page offers none that the proxy refuses.                            *)
(***************************************************************************)
DrawerIsRight ==
    /\ drawer.step = "ready" => drawer.body = drawer.uri
    /\ drawer.step = "error" => left.failures < RequestFailures

(***************************************************************************)
(* Next is offered while there are more rows to see, and no longer, when   *)
(* the ledger did not change between the two queries.                      *)
(***************************************************************************)
NoOrderIsHidden ==
    shown.query.page \in {"orders", "parked"} /\ shown.total = shown.held
    => (shown.next # Null <=> shown.query.offset + PageSize < shown.held)

(***************************************************************************)
(* A bulk replay reaches every order that was ticked and shown when it was *)
(* started, also when others of them were imported meanwhile and are       *)
(* refused, and when the operator has left the page.                       *)
(***************************************************************************)
BulkReachesAll ==
    \A o \in Orders :
        (\E r \in replays : r.kind = "bulk" /\ o \in ToSet(r.targets))
        ~> o \in queued \/ claim[o] = "synced" \/ left.failures < RequestFailures

(***************************************************************************)
(* The replay buttons come back, whichever calls fail.                     *)
(***************************************************************************)
ButtonsComeBack == []<>(~bulkBusy) /\ []<>(busy = NoOrder)

=============================================================================
