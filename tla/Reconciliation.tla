--------------------------- MODULE Reconciliation ---------------------------
(***************************************************************************)
(* runReconciliation, the daily sweep that compares what Shopify sold on a *)
(* day with what the ledger, order_sync_log, says was imported that day.   *)
(* Shopify counts the orders by processed_at; the ledger counts its rows   *)
(* by synced_at.  A sweep takes the connections one after the other, and   *)
(* the days back from yesterday; for each pair it reads Shopify, reads the *)
(* ledger and upserts a snapshot, three calls that orders, imports and     *)
(* other sweeps interleave with.  An exception ends the sweep.             *)
(*                                                                         *)
(* The timer's sweep and those that operators start from the console run   *)
(* the same code.  `everSynced' is a history variable.                     *)
(***************************************************************************)
EXTENDS Integers, Sequences, FiniteSetsExt

CONSTANTS
    Orders,            \* orders that are no tests: neither side counts those
    Connections,       \* how many connections are enabled, in seed order
    ConnectionOf,      \* the connection of each order
    LastDay,           \* bound: the calendar has days 1..LastDay
    DaysBack,          \* daysBack of the timer's ReconciliationConfig
    ManualDaysBack,    \* the values of daysBack operators ask for
    MaxDaysBack,       \* handleAdminReconcileRun clamps daysBack to 1..MaxDaysBack
    AggregatePage,     \* the most orders getDailyOrderAggregate counts
    LedgerPage,        \* the most rows the sweep lists from the ledger
    ManualSweeps,      \* bound: sweeps that operators start
    SweepFailures,     \* bound: sweeps that throw or die
    Amendments         \* bound: orders whose total changes after the sale

ASSUME ReconciliationAssumption ==
    /\ IsFiniteSet(Orders)
    /\ Connections \in Nat \ {0}
    /\ ConnectionOf \in [Orders -> 1..Connections]
    /\ {LastDay, DaysBack, MaxDaysBack, AggregatePage, LedgerPage} \subseteq Nat \ {0}
    /\ ManualDaysBack \subseteq Int
    /\ {ManualSweeps, SweepFailures, Amendments} \subseteq Nat

VARIABLES
    today,
    processed,         \* the day of processed_at of each order, NoDay before it exists
    price,             \* its total in Shopify
    ledger,            \* its row of order_sync_log
    snapshots,         \* reconciliation_snapshots, by connection and day
    sweep,             \* what each sweep is at
    fired,             \* the day the timer fired last
    everSynced,        \* the days on which each order was ever imported
    left               \* what is left of the bounds

orders == <<processed, price, ledger, everSynced>>
vars == <<today, orders, snapshots, sweep, fired, left>>

Days == 1..LastDay

NoDay == 0

Sweepers == {"timer", "operator"}

Prices == {1, 2}

(* A row keeps the total of the order it was written with; that of a row   *)
(* that is not `imported' is never read, and left out.                     *)
LedgerRow == [status : {"absent", "parked", "imported"}, synced : Days \cup {NoDay},
              total : Prices \cup {0}]

Reading == [count : 0..Cardinality(Orders), total : 0..2 * Cardinality(Orders)]

Nothing == [count |-> 0, total |-> 0]

(* A sweep is on `connection', `back' days before the day it began.        *)
SweepState == [step : {"idle", "aggregate", "list", "upsert"}, began : Days \cup {NoDay},
               daysBack : 0..MaxDaysBack, connection : 1..Connections, back : 1..MaxDaysBack,
               shopify : Reading, ns : Reading]

Idle == [step |-> "idle", began |-> NoDay, daysBack |-> 0, connection |-> 1, back |-> 1,
         shopify |-> Nothing, ns |-> Nothing]

Verdicts == {"none", "agrees", "drift"}

TypeOK ==
    /\ today \in Days
    /\ processed \in [Orders -> Days \cup {NoDay}]
    /\ price \in [Orders -> Prices]
    /\ ledger \in [Orders -> LedgerRow]
    /\ snapshots \in [1..Connections -> [Days -> Verdicts]]
    /\ sweep \in [Sweepers -> SweepState]
    /\ \A s \in Sweepers : sweep[s].back <= sweep[s].daysBack \/ sweep[s].step = "idle"
    /\ fired \in Days \cup {NoDay}
    /\ everSynced \in [Orders -> SUBSET Days]
    /\ left \in [sweeps : 0..ManualSweeps, failures : 0..SweepFailures, amendments : 0..Amendments]

Init ==
    /\ today = 1
    /\ processed = [o \in Orders |-> NoDay]
    /\ price = [o \in Orders |-> 1]
    /\ ledger = [o \in Orders |-> [status |-> "absent", synced |-> NoDay, total |-> 0]]
    /\ snapshots = [c \in 1..Connections |-> [d \in Days |-> "none"]]
    /\ sweep = [s \in Sweepers |-> Idle]
    /\ fired = NoDay
    /\ everSynced = [o \in Orders |-> {}]
    /\ left = [sweeps |-> ManualSweeps, failures |-> SweepFailures, amendments |-> Amendments]

Spend(what) == left[what] > 0 /\ left' = [left EXCEPT ![what] = @ - 1]

-----------------------------------------------------------------------------
(* Shopify sells an order, and may amend it later.                         *)
Sell(o) ==
    /\ processed[o] = NoDay
    /\ processed' = [processed EXCEPT ![o] = today]
    /\ UNCHANGED <<today, price, ledger, everSynced, snapshots, sweep, fired, left>>

Amend(o) ==
    /\ processed[o] # NoDay /\ price[o] = 1
    /\ Spend("amendments")
    /\ price' = [price EXCEPT ![o] = 2]
    /\ UNCHANGED <<today, processed, ledger, everSynced, snapshots, sweep, fired>>

(* The timer has fired by the time a day ends.                             *)
Midnight ==
    /\ today < LastDay
    /\ fired = today
    /\ today' = today + 1
    /\ UNCHANGED <<orders, snapshots, sweep, fired, left>>

(***************************************************************************)
(* PostgresOrderSyncLogStore.upsert overwrites the row, but keeps the      *)
(* synced_at it has when it is given none.                                 *)
(***************************************************************************)
LedgerUpsert(o, status, syncedAt) ==
    ledger' = [ledger EXCEPT ![o] =
        [status |-> status, synced |-> IF syncedAt = NoDay THEN @.synced ELSE syncedAt,
         total |-> IF status = "imported" THEN price[o] ELSE 0]]

(* The handler imports an order, for the first time or after a replay ...  *)
Import(o) ==
    /\ processed[o] # NoDay
    /\ LedgerUpsert(o, "imported", today)
    /\ everSynced' = [everSynced EXCEPT ![o] = @ \cup {today}]
    /\ UNCHANGED <<today, processed, price, snapshots, sweep, fired, left>>

(* ... or a replay of it parks, which names no synced_at.  An order parked *)
(* before it was ever imported is no different from one without a row.     *)
Park(o) ==
    /\ processed[o] # NoDay
    /\ ledger[o].status = "imported"
    /\ LedgerUpsert(o, "parked", NoDay)
    /\ UNCHANGED <<today, processed, price, everSynced, snapshots, sweep, fired, left>>

-----------------------------------------------------------------------------
(***************************************************************************)
(* The sweep.  Its days are counted from the one it begins on.             *)
(***************************************************************************)
Sum(S, amount) == [count |-> Cardinality(S), total |-> SumFunction([o \in S |-> amount[o]])]

BusinessDate(s) == sweep[s].began - sweep[s].back

(* What the aggregate query matches: processed_at in the day.              *)
Sold(c, d) == {o \in Orders : ConnectionOf[o] = c /\ processed[o] = d}

(* getDailyOrderAggregate stops after maxPages pages.                      *)
Aggregates(c, d) ==
    {Sum(S, price) :
        S \in kSubset(Min({AggregatePage, Cardinality(Sold(c, d))}), Sold(c, d))}

Imported(c) == {o \in Orders : ConnectionOf[o] = c /\ ledger[o].status = "imported"}

(* Fault: LIMIT without the ORDER BY.                                      *)
NewestInAnyOrder(rows) == kSubset(Min({LedgerPage, Cardinality(rows)}), rows)

(* ORDER BY synced_at DESC LIMIT: what may be returned of these rows.      *)
Newest(rows) ==
    {S \in kSubset(Min({LedgerPage, Cardinality(rows)}), rows) :
        \A o \in S, cut \in rows \ S : ledger[o].synced >= ledger[cut].synced}

(* ... of which the sweep keeps the rows synced on the day.                *)
LedgerTotals(c, d) ==
    {Sum({o \in S : ledger[o].synced = d}, [o \in S |-> ledger[o].total]) : S \in Newest(Imported(c))}

(* Fault: the counts are not compared, and a unit of money is tolerated.   *)
DriftsInTotal(shopify, ns) == shopify.total \notin (ns.total - 1)..(ns.total + 1)

(* The totals of the model are further apart than totalToleranceAmount     *)
(* whenever they differ.                                                   *)
Drifts(shopify, ns) == shopify.count # ns.count \/ shopify.total # ns.total

Begin(s, daysBack) ==
    /\ sweep[s].step = "idle"
    /\ today > 1
    /\ sweep' = [sweep EXCEPT ![s].step = "aggregate", ![s].began = today,
                              ![s].daysBack = daysBack]
    /\ UNCHANGED <<today, orders, snapshots>>

TimerFires ==
    /\ fired < today
    /\ fired' = today
    /\ \/ Begin("timer", DaysBack) /\ UNCHANGED left
       \/ today = 1 /\ UNCHANGED <<today, orders, snapshots, sweep, left>>

(* handleAdminReconcileRun.                                                *)
OperatorRuns(asked) ==
    /\ Spend("sweeps")
    /\ Begin("operator", Max({1, Min({MaxDaysBack, asked})}))
    /\ UNCHANGED fired

Aggregate(s) ==
    /\ sweep[s].step = "aggregate"
    /\ \E reading \in Aggregates(sweep[s].connection, BusinessDate(s)) :
          sweep' = [sweep EXCEPT ![s].step = "list", ![s].shopify = reading]
    /\ UNCHANGED <<today, orders, snapshots, fired, left>>

ListLedger(s) ==
    /\ sweep[s].step = "list"
    /\ \E reading \in LedgerTotals(sweep[s].connection, BusinessDate(s)) :
          sweep' = [sweep EXCEPT ![s].step = "upsert", ![s].ns = reading]
    /\ UNCHANGED <<today, orders, snapshots, fired, left>>

(* Fault: the loop stops a day early.                                      *)
AfterOneDayLess(s) ==
    LET at == sweep[s] IN
    CASE at.back < at.daysBack - 1  -> [at EXCEPT !.back = @ + 1]
      [] at.back >= at.daysBack - 1 /\ at.connection < Connections
                                    -> [at EXCEPT !.connection = @ + 1, !.back = 1]
      [] OTHER                      -> Idle

(* The day before, else the next connection, else the end.  There is       *)
(* nothing to see before the first day of the model.                       *)
After(s) ==
    LET at == sweep[s] IN
    CASE at.back < at.daysBack /\ at.back + 1 < at.began -> [at EXCEPT !.back = @ + 1]
      [] (at.back = at.daysBack \/ at.back + 1 = at.began) /\ at.connection < Connections
                 -> [at EXCEPT !.connection = @ + 1, !.back = 1]
      [] OTHER   -> Idle

(* The snapshot of the pair is overwritten, whoever wrote it.              *)
UpsertSnapshot(s) ==
    /\ sweep[s].step = "upsert"
    /\ snapshots' = [snapshots EXCEPT ![sweep[s].connection][BusinessDate(s)] =
                        IF Drifts(sweep[s].shopify, sweep[s].ns) THEN "drift" ELSE "agrees"]
    /\ sweep' = [sweep EXCEPT ![s] =
                    IF After(s) = Idle THEN Idle
                    ELSE [After(s) EXCEPT !.step = "aggregate", !.shopify = Nothing, !.ns = Nothing]]
    /\ UNCHANGED <<today, orders, fired, left>>

(* Any of the calls throws, or the host dies: the other days and the other *)
(* connections are not looked at, and nothing runs the sweep again.        *)
SweepThrows(s) ==
    /\ sweep[s].step # "idle"
    /\ Spend("failures")
    /\ sweep' = [sweep EXCEPT ![s] = Idle]
    /\ UNCHANGED <<today, orders, snapshots, fired>>

-----------------------------------------------------------------------------
Sweep(s) == Aggregate(s) \/ ListLedger(s) \/ UpsertSnapshot(s) \/ SweepThrows(s)

Next ==
    \/ \E o \in Orders : Sell(o) \/ Amend(o) \/ Import(o) \/ Park(o)
    \/ Midnight
    \/ TimerFires
    \/ \E asked \in ManualDaysBack : OperatorRuns(asked)
    \/ \E s \in Sweepers : Sweep(s)

Spec == Init /\ [][Next]_vars

-----------------------------------------------------------------------------
(* The two pages are large enough for a day.  Rows are listed newest       *)
(* first, so what was synced before the day does not matter.               *)
PagesSuffice(c, d) ==
    /\ Cardinality(Sold(c, d)) <= AggregatePage
    /\ Cardinality({o \in Orders : ConnectionOf[o] = c /\ ledger[o].synced >= d}) <= LedgerPage

SyncedOn(c, d) == {o \in Orders : ConnectionOf[o] = c /\ d \in everSynced[o]}

(***************************************************************************)
(* No false alarm: when every order sold on a day was imported that day,   *)
(* was not imported again since and has the total it had, and nothing else *)
(* was imported then, no sweep ever wrote a drift for it, whatever was     *)
(* sold, imported or swept while it ran.                                   *)
(***************************************************************************)
CompleteDaysAgree ==
    \A c \in 1..Connections, d \in Days :
        /\ SyncedOn(c, d) = Sold(c, d)
        /\ \A o \in Sold(c, d) :
              o \in Imported(c) /\ ledger[o].synced = d /\ ledger[o].total = price[o]
        /\ PagesSuffice(c, d)
        => snapshots[c][d] # "drift"

(***************************************************************************)
(* No missed loss: a swept day on which an order was sold but not imported *)
(* is a drift, unless an order of another day was imported on it and made  *)
(* up the number, or a page was too small to tell.                         *)
(***************************************************************************)
LossesAreDrift ==
    \A c \in 1..Connections, d \in Days :
        /\ SyncedOn(c, d) \subseteq Sold(c, d)
        /\ SyncedOn(c, d) # Sold(c, d)
        /\ PagesSuffice(c, d)
        => snapshots[c][d] # "agrees"

(***************************************************************************)
(* Every day gets a row: a sweep that throws is not run again, but the day *)
(* is in the window of DaysBack sweeps, and they are done when no more of  *)
(* them than DaysBack - 1 have thrown.                                     *)
(***************************************************************************)
EveryDayIsSwept ==
    \A c \in 1..Connections, d \in Days :
        /\ fired >= d + DaysBack
        /\ sweep["timer"].step = "idle"
        /\ SweepFailures - left.failures < DaysBack
        => snapshots[c][d] # "none"

=============================================================================
