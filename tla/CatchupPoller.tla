---------------------------- MODULE CatchupPoller ----------------------------
(***************************************************************************)
(* pollCatchup, the timer function that looks for orders Shopify changed   *)
(* and no webhook brought in.  It takes the enabled connections one after  *)
(* the other; for each it reads the watermark, lists one page of orders    *)
(* updated since, oldest first, publishes those whose entity_xref row is   *)
(* not terminal, and moves the watermark to the last of the page.  An      *)
(* exception anywhere ends the whole invocation.                           *)
(*                                                                         *)
(* pollStep names the call the invocation awaits.  `covered' and `window'  *)
(* are history variables: the orders that a poll has published or found    *)
(* terminal since they last changed, and where the first poll began.       *)
(***************************************************************************)
EXTENDS Integers, FiniteSets

CONSTANTS
    Orders,
    NoOrder,           \* what the poll looks at between two orders
    Connections,       \* how many connections are enabled, in seed order
    ConnectionOf,      \* the connection of each order
    Broken,            \* connections whose calls to Shopify never succeed
    PageSize,          \* pageSize of CatchupConfig
    Lookback,          \* bootstrapLookbackHours, in ticks
    Overlap,           \* overlapSecondsOnEmpty, in ticks
    MaxTime,           \* bound: the clock stops there
    MaxChanges,        \* bound: changes of orders in Shopify
    PollFailures       \* bound: invocations that throw or die

ASSUME PollerAssumption ==
    /\ IsFiniteSet(Orders) /\ NoOrder \notin Orders
    /\ Connections \in Nat \ {0}
    /\ ConnectionOf \in [Orders -> 1..Connections]
    /\ Broken \subseteq 1..Connections
    /\ PageSize \in Nat \ {0}
    /\ Lookback \in Nat /\ Overlap \in Nat
    /\ MaxTime \in Nat /\ Lookback <= MaxTime /\ Overlap <= MaxTime
    /\ MaxChanges \in Nat /\ PollFailures \in Nat

VARIABLES
    now,               \* the time
    updatedAt,         \* Shopify's updatedAt of each order, Never before it exists
    row,               \* what the poller's messages have made of each order
    watermark,         \* last_cursor of each connection, Never before the first
    window,            \* the cursor its first complete poll began with
    polled,            \* the connection being polled, 0 between two timers
    pollStep,          \* what its poll awaits
    started,           \* `now' of its poll
    since,             \* fromCursor
    page,              \* the listed orders not dealt with yet
    current,           \* the order whose row the poll has looked up
    newCursor,         \* the updatedAt of the page's last order
    covered,           \* orders dealt with since their last change
    changes,           \* what is left of MaxChanges
    pollFailures       \* what is left of PollFailures

shopOrders == <<updatedAt, changes>>
poll == <<polled, pollStep, started, since, page, current, newCursor>>
cursors == <<watermark, window>>
vars == <<now, shopOrders, row, cursors, poll, covered, pollFailures>>

Never == -1

(* The clock starts where every bootstrap window lies in the past.         *)
Start == IF Lookback > Overlap THEN Lookback ELSE Overlap

Times == 0..MaxTime

(* A row is `terminal' when it is synced or ignored.  Until then it is     *)
(* absent, pending or in error, and `published' if a message waits or has  *)
(* been handled without settling it.                                       *)
Rows == {"unpublished", "published", "terminal"}

TypeOK ==
    /\ now \in Start..MaxTime
    /\ updatedAt \in [Orders -> Times \cup {Never}]
    /\ row \in [Orders -> Rows]
    /\ watermark \in [1..Connections -> Times \cup {Never}]
    /\ window \in [1..Connections -> Times]
    /\ polled \in 0..Connections
    /\ pollStep \in {"idle", "get", "list", "lookup", "enqueue", "set"}
    /\ polled = 0 <=> pollStep = "idle"
    /\ started \in Times
    /\ since \in Times
    /\ page \subseteq Orders
    /\ current \in Orders \cup {NoOrder}
    /\ pollStep = "enqueue" => current \in Orders
    /\ newCursor \in Times
    /\ covered \subseteq Orders
    /\ changes \in 0..MaxChanges
    /\ pollFailures \in 0..PollFailures

Init ==
    /\ now = Start
    /\ updatedAt = [o \in Orders |-> Never]
    /\ row = [o \in Orders |-> "unpublished"]
    /\ watermark = [c \in 1..Connections |-> Never]
    /\ window = [c \in 1..Connections |-> 0]
    /\ polled = 0
    /\ pollStep = "idle"
    /\ started = 0
    /\ since = 0
    /\ page = {}
    /\ current = NoOrder
    /\ newCursor = 0
    /\ covered = {}
    /\ changes = MaxChanges
    /\ pollFailures = PollFailures

-----------------------------------------------------------------------------
(***************************************************************************)
(* What happens in Shopify, and the list query on it.                      *)
(***************************************************************************)
Change(o) ==
    /\ changes > 0
    /\ changes' = changes - 1
    /\ updatedAt' = [updatedAt EXCEPT ![o] = now]
    /\ covered' = covered \ {o}
    /\ UNCHANGED <<now, row, cursors, poll, pollFailures>>

Tick ==
    /\ now < MaxTime
    /\ now' = now + 1
    /\ UNCHANGED <<shopOrders, row, cursors, poll, covered, pollFailures>>

(* The order-import handler settles the row of an order that was published *)
(* by the poller, or by anybody else.                                      *)
Handle(o) ==
    /\ updatedAt[o] # Never
    /\ row' = [row EXCEPT ![o] = "terminal"]
    /\ UNCHANGED <<now, shopOrders, cursors, poll, covered, pollFailures>>

OrdersOf(c) == {o \in Orders : ConnectionOf[o] = c /\ updatedAt[o] # Never}

Matches(c, cursor) == {o \in OrdersOf(c) : updatedAt[o] >= cursor}

(* The first PageSize of the matching orders; Shopify settles ties.        *)
Pages(c, cursor) ==
    {listing \in SUBSET Matches(c, cursor) :
        /\ \/ listing = Matches(c, cursor)
           \/ Cardinality(listing) = PageSize
        /\ Cardinality(listing) <= PageSize
        /\ \A o \in listing, rest \in Matches(c, cursor) \ listing : updatedAt[o] <= updatedAt[rest]}

-----------------------------------------------------------------------------
(***************************************************************************)
(* The steps of a poll.                                                    *)
(***************************************************************************)
(* pollOneConnection begins: it takes the time and awaits the watermark.   *)
Enter(c) ==
    /\ polled' = c
    /\ pollStep' = "get"
    /\ started' = now
    /\ newCursor' = 0
    /\ UNCHANGED <<since, page, current>>

(* A local the invocation has no more use for is 0 (NoOrder, {}).          *)
Leave ==
    /\ polled' = 0
    /\ pollStep' = "idle"
    /\ page' = {}
    /\ current' = NoOrder
    /\ started' = 0 /\ since' = 0 /\ newCursor' = 0

TimerFires ==
    /\ polled = 0
    /\ Enter(1)
    /\ UNCHANGED <<now, shopOrders, row, cursors, covered, pollFailures>>

PollGet ==
    /\ pollStep = "get"
    /\ since' = IF watermark[polled] = Never THEN started - Lookback ELSE watermark[polled]
    /\ pollStep' = "list"
    /\ UNCHANGED <<polled, started, page, current, newCursor>>
    /\ UNCHANGED <<now, shopOrders, row, cursors, covered, pollFailures>>

PollList ==
    /\ pollStep = "list"
    /\ polled \notin Broken
    /\ page' \in Pages(polled, since)
    /\ window' = IF watermark[polled] = Never THEN [window EXCEPT ![polled] = since] ELSE window
    /\ \/ /\ page' = {}
          /\ newCursor' = started - Overlap
          /\ pollStep' = "set"
       \/ /\ \E last \in page' :
                /\ \A o \in page' : updatedAt[o] <= updatedAt[last]
                /\ newCursor' = updatedAt[last]
          /\ pollStep' = "lookup"
    /\ started' = 0 /\ since' = 0
    /\ UNCHANGED <<polled, current>>
    /\ UNCHANGED <<now, shopOrders, row, watermark, covered, pollFailures>>

(* Fault: `continue' became `break'.                                       *)
DealtWithAndStop(o) ==
    /\ covered' = covered \cup {o}
    /\ page' = {}
    /\ pollStep' = "set"
    /\ current' = NoOrder
    /\ UNCHANGED <<polled, started, since, newCursor>>

(* The order is dealt with: the loop goes on with what is left of the page. *)
DealtWith(o) ==
    /\ covered' = covered \cup {o}
    /\ page' = page \ {o}
    /\ pollStep' = IF page \ {o} = {} THEN "set" ELSE "lookup"
    /\ current' = NoOrder
    /\ UNCHANGED <<polled, started, since, newCursor>>

(* The order the poll takes next, by its row at this moment.  In which     *)
(* order it takes the page matters to nothing.                             *)
PollLookup(o) ==
    /\ pollStep = "lookup"
    /\ o \in page
    /\ \/ row[o] = "terminal" /\ DealtWith(o)
       \/ /\ row[o] # "terminal"
          /\ current' = o
          /\ pollStep' = "enqueue"
          /\ UNCHANGED <<polled, started, since, page, newCursor, covered>>
    /\ UNCHANGED <<now, shopOrders, row, cursors, pollFailures>>

Publish(o) == [row EXCEPT ![o] = IF @ = "unpublished" THEN "published" ELSE @]

PollEnqueue ==
    /\ pollStep = "enqueue"
    /\ row' = Publish(current)
    /\ DealtWith(current)
    /\ UNCHANGED <<now, shopOrders, cursors, pollFailures>>

(* Fault: the watermark moves to the time of the poll.                     *)
PollSetNow ==
    /\ pollStep = "set"
    /\ watermark' = [watermark EXCEPT ![polled] = now]
    /\ IF polled < Connections THEN Enter(polled + 1) ELSE Leave
    /\ UNCHANGED <<now, shopOrders, row, window, covered, pollFailures>>

PollSet ==
    /\ pollStep = "set"
    /\ watermark' = [watermark EXCEPT ![polled] = newCursor]
    /\ IF polled < Connections THEN Enter(polled + 1) ELSE Leave
    /\ UNCHANGED <<now, shopOrders, row, window, covered, pollFailures>>

(* Any call may throw, or the host die: the invocation is over, and the    *)
(* connections that were still to come wait for the next timer.  A publish *)
(* that fails may have been accepted all the same.                         *)
PollThrows ==
    /\ polled # 0
    /\ \/ pollFailures > 0 /\ pollFailures' = pollFailures - 1
       \/ pollStep = "list" /\ polled \in Broken /\ UNCHANGED pollFailures
    /\ row' \in {row} \cup (IF pollStep = "enqueue" THEN {Publish(current)} ELSE {})
    /\ Leave
    /\ UNCHANGED <<now, shopOrders, cursors, covered>>

Poll ==
    \/ PollGet \/ PollList \/ (\E o \in Orders : PollLookup(o))
    \/ PollEnqueue \/ PollSet \/ PollThrows

Next ==
    \/ TimerFires \/ Poll \/ Tick
    \/ \E o \in Orders : Change(o) \/ Handle(o)

(* The timer fires, a call of the poll returns or throws.                  *)
Spec == Init /\ [][Next]_vars

FairSpec == Spec /\ WF_vars(TimerFires \/ Poll)

-----------------------------------------------------------------------------
(***************************************************************************)
(* The watermark hides no order: what the next list query will not return, *)
(* because it changed before the watermark, has been published or found    *)
(* terminal since it changed, whenever polls fail, orders change under     *)
(* them or the page is too small.  (Orders from before the first poll's    *)
(* bootstrap window are out of reach.)                                     *)
(***************************************************************************)
WatermarkIsHonest ==
    \A o \in Orders : LET c == ConnectionOf[o] IN
        /\ watermark[c] # Never
        /\ updatedAt[o] >= window[c]
        => o \in Matches(c, watermark[c]) \cup covered

(***************************************************************************)
(* Liveness: every change is dealt with by some poll, unless PageSize or   *)
(* more orders of the connection carry one updatedAt, which the cursor     *)
(* cannot pass, a connection polled before it always throws, or the change *)
(* is older than the bootstrap window.                                     *)
(***************************************************************************)
Crowded(c) ==
    \E t \in Times : Cardinality({o \in OrdersOf(c) : updatedAt[o] = t}) >= PageSize

Blocked(c) == \E b \in Broken : b <= c

ChangesAreSeen ==
    \A o \in Orders : LET c == ConnectionOf[o] IN
        updatedAt[o] # Never
        ~> o \in covered \/ Crowded(c) \/ Blocked(c) \/ updatedAt[o] < window[c]

=============================================================================
