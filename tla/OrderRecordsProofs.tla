------------------------- MODULE OrderRecordsProofs -------------------------
(***************************************************************************)
(* What the claim is worth, for any orders, any workers, any delivery      *)
(* limit and any budget of events: without a replay an order is written to *)
(* NetSuite once, and the replays bound the invocations that hold one      *)
(* order.  And what an operator may conclude from the tables the pipeline  *)
(* leaves: an entity_xref row, an order_sync_log row, an open error and a  *)
(* message in a queue.                                                     *)
(***************************************************************************)
EXTENDS OrderPipelineProofs, FiniteSetTheorems

(***************************************************************************)
(* How a step of an invocation crosses the claim: only by inserting a row  *)
(* that was not there.  Rows do not vanish, and only the upsert writes.    *)
(***************************************************************************)
PreWrite == {"get_order", "ignore", "customer", "resolve", "upsert"}

Crosses(w) ==
    /\ pc[w] \notin Guarded
    /\ ~Xref!Exists(job[w])
    /\ Xref!Exists(job[w])'

(* The worker stays on its side of the claim, and of the upsert.           *)
KeepsSide(w) ==
    /\ pc'[w] \in Guarded => pc[w] \in Guarded
    /\ pc'[w] \in PreWrite => pc[w] \in PreWrite

RowsStay == \A o \in Orders : Xref!Exists(o) => Xref!Exists(o)'

LEMMA ThrowSide ==
  ASSUME WorkerTypeOK, NEW w \in Workers, NEW errorClass, Throw(w, errorClass)
  PROVE  KeepsSide(w) /\ pc'[w] \notin PreWrite
BY DEF WorkerTypeOK, Throw, Escape, Catch, Rethrow, KeepsSide, Guarded, InTry, Parking,
       BeforeClaim, PreWrite

LEMMA FailsSide ==
  ASSUME WorkerTypeOK, NEW w \in Workers, Fails(w)
  PROVE  KeepsSide(w) /\ pc'[w] \notin PreWrite
BY ThrowSide DEF Fails

(* The statements of the handler leave every row where there was one.      *)
LEMMA StatementsKeepRows ==
  ASSUME Xref!XrefTypeOK, NEW o \in Orders,
         \/ Xref!InsertPending(o) \/ Xref!recordSuccess(o) \/ Xref!recordFailure(o)
         \/ Xref!markIgnored(o) \/ UNCHANGED xref
  PROVE  RowsStay
<1>1. PICK status \in {"pending", "synced", "error", "ignored"} :
         Rows' = [Rows EXCEPT ![o] = status] \/ Rows' = Rows
  BY RowsMove DEF Rows, Xref!lookup
<1>. QED  BY <1>1 DEF RowsStay, Rows, Xref!Exists

LEMMA WorkersKeepRows ==
  ASSUME TypeInv, NEW w \in Workers, WorkerStep(w)
  PROVE  RowsStay
<1>1. \/ Xref!InsertPending(job[w]) \/ Xref!recordSuccess(job[w])
      \/ Xref!recordFailure(job[w]) \/ Xref!markIgnored(job[w]) \/ UNCHANGED xref
  BY DEF WorkerStep, GateLookup, MarkIgnored, LogIgnored, Claim, ClaimRead, GetOrder,
         ResolveCustomer, BuildPayload, Upsert, RecordSuccess, LogImport, Tag,
         RecordTagError, RecordFailure, RecordError, LogPark, RecordAuthError,
         RecordAttempt, CallFails
<1>. QED  BY <1>1, StepIsAtWork, StatementsKeepRows DEF TypeInv

(* Every step but the upsert leaves NetSuite's transactions alone; the     *)
(* only one that changes sides is the claim.                               *)
LEMMA ClaimMoves ==
  ASSUME TypeInv, NEW w \in Workers, WorkerStep(w)
  PROVE  /\ KeepsSide(w) \/ Crosses(w)
         /\ \/ UNCHANGED nsTransactions
            \/ /\ pc[w] = "upsert" /\ pc'[w] \notin PreWrite
               /\ nsTransactions' = nsTransactions \cup {job[w]}
<1>. job[w] \in Orders /\ Xref!XrefTypeOK /\ WorkerTypeOK
  BY StepIsAtWork DEF TypeInv
<1>. USE DEF WorkerTypeOK, Await, Finish, netsuite, PreWrite, Guarded, KeepsSide, InTry, Parking
<1>1. CASE GateLookup(w)
  BY <1>1 DEF GateLookup
<1>2. CASE MarkIgnored(w)
  BY <1>2, FailsSide DEF MarkIgnored
<1>3. CASE LogIgnored(w)
  BY <1>3, FailsSide DEF LogIgnored
<1>4. CASE Claim(w)
  <2>1. CASE Xref!InsertPending(job[w]) /\ Await(w, "get_order")
    <3>1. Crosses(w)
      BY <1>4, <2>1, RowsMove DEF Claim, Crosses, Rows, Xref!Exists
    <3>. QED  BY <1>4, <3>1 DEF Claim
  <2>2. CASE Fails(w)
    BY <1>4, <2>2, FailsSide DEF Claim
  <2>3. CASE Await(w, "claim_read")
    BY <1>4, <2>3 DEF Claim
  <2>. QED  BY <1>4, <2>1, <2>2, <2>3 DEF Claim
<1>5. CASE ClaimRead(w)
  BY <1>5, ThrowSide DEF ClaimRead
<1>6. CASE GetOrder(w)
  BY <1>6, ThrowSide DEF GetOrder
<1>7. CASE ResolveCustomer(w)
  BY <1>7, FailsSide DEF ResolveCustomer
<1>8. CASE BuildPayload(w)
  BY <1>8 DEF BuildPayload
<1>9. CASE Upsert(w)
  BY <1>9, FailsSide DEF Upsert
<1>10. CASE RecordSuccess(w)
  BY <1>10, ThrowSide, FailsSide DEF RecordSuccess
<1>11. CASE LogImport(w)
  BY <1>11, FailsSide DEF LogImport
<1>12. CASE Tag(w)
  BY <1>12 DEF Tag
<1>13. CASE RecordTagError(w)
  BY <1>13, FailsSide DEF RecordTagError
<1>14. CASE RecordFailure(w)
  BY <1>14, ThrowSide, FailsSide DEF RecordFailure
<1>15. CASE RecordError(w)
  BY <1>15, FailsSide DEF RecordError
<1>16. CASE LogPark(w)
  BY <1>16, FailsSide DEF LogPark
<1>17. CASE RecordAuthError(w)
  BY <1>17, FailsSide DEF RecordAuthError
<1>18. CASE RecordAttempt(w)
  BY <1>18 DEF RecordAttempt
<1>19. CASE CallFails(w)
  BY <1>19, FailsSide DEF CallFails
<1>. QED  BY <1>1, <1>2, <1>3, <1>4, <1>5, <1>6, <1>7, <1>8, <1>9, <1>10, <1>11, <1>12, <1>13,
             <1>14, <1>15, <1>16, <1>17, <1>18, <1>19 DEF WorkerStep

(* What the host does to an invocation leaves it before the claim.         *)
LEMMA HostMoves ==
  ASSUME TypeInv, NEW w \in Workers,
         (\E o \in Orders : Deliver(w, o)) \/ Settle(w) \/ Crash(w)
  PROVE  /\ pc'[w] \notin Guarded
         /\ \A v \in Workers \ {w} : pc'[v] = pc[v] /\ job'[v] = job[v]
         /\ UNCHANGED <<xref, nsTransactions>>
<1>. {"idle", "settle", "gate_lookup", "claim"} \cap Guarded = {}
  BY DEF Guarded, InTry, Parking
<1>1. CASE \E o \in Orders : Deliver(w, o)
  BY <1>1 DEF Deliver, TypeInv, WorkerTypeOK, netsuite
<1>2. CASE Settle(w) \/ Crash(w)
  BY <1>2 DEF Settle, Crash, Rest, TypeInv, WorkerTypeOK, netsuite
<1>. QED  BY <1>1, <1>2

(* An order's row is deleted by a replay of it, one that was begun.        *)
LEMMA ClientMoves ==
  ASSUME TypeInv, NEW o \in Orders, ClientStep(o)
  PROVE  /\ UNCHANGED <<worker, nsTransactions>>
         /\ \/ /\ UNCHANGED xref /\ ~Spend("replay")
               /\ \/ UNCHANGED replay
                  \/ \E step \in {"idle", "enqueue"} : replay' = [replay EXCEPT ![o] = step]
            \/ \E force \in BOOLEAN : ReplayLookup(o, force)
            \/ ReplayDelete(o)
<1>0. UNCHANGED <<worker, nsTransactions>>
  BY ClientsKeepWorkers DEF TypeInv, ClientStep, Shopify, Webhook, Edit, Poller, PollLookup,
     PollEnqueue, PollFails, Operator, ReplayLookup, ReplayDelete, ReplayEnqueue, ReplayFails,
     FixDefect, DlqHandler, DlqRecord, DlqQuarantine, DlqAttempt, DlqFind, DlqUpsert, DlqFails,
     netsuite
<1>. USE DEF TypeInv, WorkerTypeOK, Spend, Events, producers
<1>1. CASE Shopify(o)
  BY <1>0, <1>1 DEF Shopify, Webhook, Edit
<1>2. CASE Poller(o)
  BY <1>0, <1>2 DEF Poller, PollLookup, PollEnqueue, PollFails
<1>3. CASE Operator(o)
  BY <1>0, <1>3 DEF Operator, ReplayEnqueue, ReplayFails, FixDefect
<1>4. CASE DlqHandler(o)
  <2>1. UNCHANGED <<xref, replay>>
    BY <1>4 DEF DlqHandler, DlqRecord, DlqQuarantine, DlqAttempt, DlqFind, DlqUpsert, DlqFails
  <2>2. UNCHANGED budget \/ budget' = [budget EXCEPT !["failure"] = @ - 1]
    BY <1>4 DEF DlqHandler, DlqRecord, DlqQuarantine, DlqAttempt, DlqFind, DlqUpsert, DlqFails
  <2>3. ~Spend("replay")
    BY <2>2
  <2>. QED  BY <1>0, <2>1, <2>3
<1>. QED  BY <1>1, <1>2, <1>3, <1>4 DEF ClientStep

-----------------------------------------------------------------------------
(***************************************************************************)
(* WritesOnce.  Without a replay rows are for good, so that an order that  *)
(* was written still has the row its writer inserted, and no one can get   *)
(* behind the claim after it.                                              *)
(***************************************************************************)
HoldersAreAlone ==
    \A w \in Workers :
        pc[w] \in Guarded =>
            /\ Xref!Exists(job[w])
            /\ \A v \in Workers \ {w} : pc[v] \in Guarded => job[v] # job[w]

WrittenHaveRows == \A o \in nsTransactions : Xref!Exists(o)

UnwrittenBefore == \A w \in Workers : pc[w] \in PreWrite => job[w] \notin nsTransactions

NoReplay == \A o \in Orders : replay[o] = "idle"

WriteInv ==
    Unseen("replay") => NoReplay /\ HoldersAreAlone /\ WrittenHaveRows /\ UnwrittenBefore

LEMMA PreWriteIsGuarded == PreWrite \subseteq Guarded /\ "upsert" \in PreWrite
BY DEF PreWrite, Guarded, InTry

LEMMA WriteWorkerStep ==
  ASSUME TypeInv, HoldersAreAlone, WrittenHaveRows, UnwrittenBefore,
         NEW w \in Workers, WorkerStep(w)
  PROVE  HoldersAreAlone' /\ WrittenHaveRows' /\ UnwrittenBefore'
<1>. job[w] \in Orders /\ RowsStay
  BY StepIsAtWork, WorkersKeepRows
<1>. job' = job /\ \A v \in Workers \ {w} : pc'[v] = pc[v]
  BY WorkerMoves DEF TypeInv, WorkerTypeOK
<1>t. /\ \A v \in Workers : pc[v] \in Guarded => job[v] \in Orders
      /\ nsTransactions \subseteq Orders
  BY DEF TypeInv, WorkerTypeOK, OutsideTypeOK, Guarded, InTry, Parking
<1>m. /\ KeepsSide(w) \/ Crosses(w)
      /\ \/ UNCHANGED nsTransactions
         \/ /\ pc[w] = "upsert" /\ pc'[w] \notin PreWrite
            /\ nsTransactions' = nsTransactions \cup {job[w]}
  BY ClaimMoves
<1>1. HoldersAreAlone'
  <2>1. CASE KeepsSide(w)
    BY <1>t, <2>1 DEF HoldersAreAlone, RowsStay, KeepsSide
  <2>2. CASE Crosses(w)
    <3>1. \A v \in Workers \ {w} : pc[v] \in Guarded => job[v] # job[w]
      BY <2>2 DEF HoldersAreAlone, Crosses
    <3>. QED  BY <1>t, <2>2, <3>1 DEF HoldersAreAlone, RowsStay, Crosses
  <2>. QED  BY <1>m, <2>1, <2>2
<1>2. WrittenHaveRows'
  <2>1. pc[w] = "upsert" => Xref!Exists(job[w])
    BY PreWriteIsGuarded DEF HoldersAreAlone
  <2>. QED  BY <1>m, <1>t, <2>1 DEF WrittenHaveRows, RowsStay
<1>3. UnwrittenBefore'
  <2>1. CASE UNCHANGED nsTransactions
    <3>1. CASE KeepsSide(w)
      BY <2>1, <3>1 DEF UnwrittenBefore, KeepsSide
    <3>2. CASE Crosses(w)
      BY <2>1, <3>2 DEF UnwrittenBefore, WrittenHaveRows, Crosses
    <3>. QED  BY <1>m, <3>1, <3>2
  <2>2. CASE /\ pc[w] = "upsert" /\ pc'[w] \notin PreWrite
             /\ nsTransactions' = nsTransactions \cup {job[w]}
    <3>1. \A v \in Workers \ {w} : pc[v] \in PreWrite => job[v] # job[w]
      BY <2>2, PreWriteIsGuarded DEF HoldersAreAlone
    <3>. QED  BY <2>2, <3>1 DEF UnwrittenBefore
  <2>. QED  BY <1>m, <2>1, <2>2
<1>. QED  BY <1>1, <1>2, <1>3

LEMMA WriteStep ==
  ASSUME TypeInv, BudgetInv, WriteInv, [Next]_vars
  PROVE  WriteInv'
<1>. SUFFICES ASSUME Unseen("replay")'
              PROVE  NoReplay' /\ HoldersAreAlone' /\ WrittenHaveRows' /\ UnwrittenBefore'
  BY DEF WriteInv
<1>u. ~Spend("replay") /\ NoReplay /\ HoldersAreAlone /\ WrittenHaveRows /\ UnwrittenBefore
  BY UnseenStep DEF WriteInv, Events
<1>0. ASSUME UNCHANGED <<xref, worker, nsTransactions>>
      PROVE  HoldersAreAlone' /\ WrittenHaveRows' /\ UnwrittenBefore'
  BY <1>0, <1>u DEF HoldersAreAlone, WrittenHaveRows, UnwrittenBefore, Xref!Exists, Xref!lookup,
                    worker
<1>1. CASE Handler
  <2>1. NoReplay'
    BY <1>1, <1>u DEF Handler, producers, NoReplay
  <2>2. ASSUME NEW w \in Workers,
               (\E o \in Orders : Deliver(w, o)) \/ Settle(w) \/ Crash(w)
        PROVE  HoldersAreAlone' /\ WrittenHaveRows' /\ UnwrittenBefore'
    <3>1. /\ pc'[w] \notin Guarded
          /\ \A v \in Workers \ {w} : pc'[v] = pc[v] /\ job'[v] = job[v]
          /\ UNCHANGED <<xref, nsTransactions>>
      BY <2>2, HostMoves
    <3>2. \A o : Xref!Exists(o)' <=> Xref!Exists(o)
      BY <3>1 DEF Xref!Exists, Xref!lookup
    <3>3. HoldersAreAlone'
      BY <1>u, <3>1, <3>2 DEF HoldersAreAlone, Xref!Exists, Xref!lookup
    <3>4. UnwrittenBefore'
      BY <1>u, <3>1, PreWriteIsGuarded DEF UnwrittenBefore
    <3>. QED  BY <1>u, <3>1, <3>2, <3>3, <3>4 DEF WrittenHaveRows
  <2>3. CASE \E o \in Orders : Overrun(o)
    BY <1>0, <2>1, <2>3 DEF Overrun, netsuite
  <2>4. CASE \E w \in Workers : WorkerStep(w)
    BY <1>u, <2>1, <2>4, WriteWorkerStep
  <2>. QED  BY <1>1, <2>1, <2>2, <2>3, <2>4 DEF Handler, HandlerNext, Progress, WorkerStep
<1>2. CASE SwitchConnection \/ UNCHANGED vars
  BY <1>0, <1>2, <1>u DEF SwitchConnection, vars, handlerVars, producers, netsuite, NoReplay
<1>3. ASSUME NEW o \in Orders, ClientStep(o)
      PROVE  NoReplay' /\ HoldersAreAlone' /\ WrittenHaveRows' /\ UnwrittenBefore'
  <2>1. ~ReplayDelete(o) /\ \A force \in BOOLEAN : ~ReplayLookup(o, force)
    BY <1>u DEF NoReplay, ReplayDelete, ReplayLookup
  <2>2. /\ UNCHANGED <<xref, worker, nsTransactions>>
        /\ UNCHANGED replay \/ replay[o] # "idle"
    BY <1>3, <2>1, ClientMoves
       DEF ClientStep, Shopify, Webhook, Edit, Poller, PollLookup, PollEnqueue, PollFails,
           Operator, ReplayEnqueue, ReplayFails, FixDefect, DlqHandler, DlqRecord, DlqQuarantine,
           DlqAttempt, DlqFind, DlqUpsert, DlqFails, producers
  <2>. QED  BY <1>0, <1>u, <2>2 DEF NoReplay
<1>. QED  BY <1>1, <1>2, <1>3 DEF Next, ClientStep

(***************************************************************************)
(* As long as nobody replays an order, its NetSuite upsert is attempted    *)
(* once: no second delivery, poll, redelivery after a crash, overrun lock  *)
(* or lost answer of NetSuite brings another invocation to upsertOrder.    *)
(***************************************************************************)
THEOREM OrdersAreWrittenOnce == Spec => []WritesOnce
<1>1. Init => WriteInv /\ BudgetInv
  BY HandlerAssumption DEF Init, HandlerInit, BudgetInv, WriteInv, NoReplay, HoldersAreAlone,
     WrittenHaveRows, UnwrittenBefore, Guarded, InTry, Parking, PreWrite
<1>2. TypeInv /\ BudgetInv /\ WriteInv /\ [Next]_vars => BudgetInv' /\ WriteInv'
  BY UnseenStep, WriteStep
<1>3. Spec => []TypeInv
  BY TypeInvInit, TypeInvStep, PTL DEF Spec
<1>4. WriteInv => WritesOnce
  BY DEF WriteInv, UnwrittenBefore, WritesOnce, PreWrite
<1>. QED  BY <1>1, <1>2, <1>3, <1>4, PTL DEF Spec

-----------------------------------------------------------------------------
(***************************************************************************)
(* ClaimsBounded.  What lets one more invocation behind the claim is the   *)
(* missing row, or a replay that is about to delete it: with the claimants *)
(* they number one, and one more for each replay that was begun.  A worker *)
(* that inserts the row trades the missing row for a claimant, the replay  *)
(* that deletes it trades its turn for the missing row.                    *)
(***************************************************************************)
Openings(o) ==
    (IF replay[o] = "delete" THEN 1 ELSE 0) + (IF Xref!Exists(o) THEN 0 ELSE 1)

Replays == Budget["replay"] - budget["replay"]

BoundInv ==
    \A o \in Orders :
        /\ IsFiniteSet(Claimants(o))
        /\ Cardinality(Claimants(o)) + Openings(o) <= 1 + Replays

LEMMA ClaimantsAreGuarded ==
  \A o \in Orders : Claimants(o) = {w \in Workers : job[w] = o /\ pc[w] \in Guarded}
BY DEF Claimants, Guarded

LEMMA CountsAreNumbers ==
  ASSUME TypeInv, BoundInv, NEW o \in Orders
  PROVE  /\ Cardinality(Claimants(o)) \in Nat
         /\ Openings(o) \in 0..2
         /\ Replays \in Int
<1>1. Cardinality(Claimants(o)) \in Nat
  BY FS_CardinalityType DEF BoundInv
<1>2. Replays \in Int
  BY HandlerAssumption DEF TypeInv, WorkerTypeOK, Events, Replays
<1>. QED  BY <1>1, <1>2 DEF Openings

(* No more claimants, no more openings, and no fewer replays.              *)
LEMMA BoundKept ==
  ASSUME TypeInv, BoundInv, NEW o \in Orders,
         Claimants(o)' \subseteq Claimants(o),
         Openings(o)' \in 0..Openings(o),
         Replays' \in Int, Replays <= Replays'
  PROVE  /\ IsFiniteSet(Claimants(o)')
         /\ Cardinality(Claimants(o)') + Openings(o)' <= 1 + Replays'
<1>1. IsFiniteSet(Claimants(o)') /\ Cardinality(Claimants(o)') <= Cardinality(Claimants(o))
  BY FS_Subset DEF BoundInv
<1>2. Cardinality(Claimants(o)') \in Nat
  BY <1>1, FS_CardinalityType
<1>3. Cardinality(Claimants(o)) + Openings(o) <= 1 + Replays
  BY DEF BoundInv
<1>. QED  BY <1>1, <1>2, <1>3, CountsAreNumbers

LEMMA BoundWorkerStep ==
  ASSUME TypeInv, BoundInv, NEW w \in Workers, WorkerStep(w), UNCHANGED replay
  PROVE  BoundInv'
<1>. job[w] \in Orders /\ RowsStay
  BY StepIsAtWork, WorkersKeepRows
<1>j. job' = job /\ \A v \in Workers \ {w} : pc'[v] = pc[v]
  BY WorkerMoves DEF TypeInv, WorkerTypeOK
<1>r. Replays' = Replays /\ Replays \in Int
  <2>1. budget'["replay"] = budget["replay"]
    BY WorkerMoves DEF TypeInv, WorkerTypeOK, Spend, Events
  <2>2. Replays \in Int
    BY HandlerAssumption DEF TypeInv, WorkerTypeOK, Events, Replays
  <2>. QED  BY <2>1, <2>2 DEF Replays
<1>o. ASSUME NEW o \in Orders
      PROVE  Openings(o)' \in 0..Openings(o)
  BY DEF Openings, RowsStay
<1>. SUFFICES ASSUME NEW o \in Orders
              PROVE  /\ IsFiniteSet(Claimants(o)')
                     /\ Cardinality(Claimants(o)') + Openings(o)' <= 1 + Replays'
  BY DEF BoundInv
<1>c. /\ Claimants(o) = {v \in Workers : job[v] = o /\ pc[v] \in Guarded}
      /\ Claimants(o)' = {v \in Workers : job'[v] = o /\ pc'[v] \in Guarded}
  BY ClaimantsAreGuarded DEF Claimants, Guarded
<1>1. CASE KeepsSide(w) \/ job[w] # o
  <2>1. Claimants(o)' \subseteq Claimants(o)
    BY <1>j, <1>c, <1>1 DEF KeepsSide
  <2>. QED  BY <1>r, <1>o, <2>1, BoundKept
<1>2. CASE Crosses(w) /\ job[w] = o /\ ~KeepsSide(w)
  <2>1. Claimants(o)' \subseteq Claimants(o) \cup {w} /\ w \notin Claimants(o)
    BY <1>j, <1>c, <1>2 DEF Crosses
  <2>2. /\ IsFiniteSet(Claimants(o) \cup {w})
        /\ Cardinality(Claimants(o) \cup {w}) = Cardinality(Claimants(o)) + 1
    BY <2>1, FS_AddElement DEF BoundInv
  <2>3. IsFiniteSet(Claimants(o)')
        /\ Cardinality(Claimants(o)') <= Cardinality(Claimants(o)) + 1
    BY <2>1, <2>2, FS_Subset
  <2>4. Cardinality(Claimants(o)') \in Nat
    BY <2>3, FS_CardinalityType
  <2>5. Openings(o)' = Openings(o) - 1
    BY <1>2, <1>j DEF Openings, Crosses, Xref!Exists, Xref!lookup
  <2>6. Cardinality(Claimants(o)) + Openings(o) <= 1 + Replays
    BY DEF BoundInv
  <2>. QED  BY <1>r, <2>3, <2>4, <2>5, <2>6, CountsAreNumbers
<1>. QED  BY <1>1, <1>2, ClaimMoves

LEMMA BoundStep ==
  ASSUME TypeInv, BudgetInv, BoundInv, [Next]_vars
  PROVE  BoundInv'
<1>r. Replays \in Int /\ Replays' \in Int /\ Replays <= Replays'
  <2>. USE HandlerAssumption DEF TypeInv, WorkerTypeOK, Events, Replays
  <2>1. budget' \in [Events -> Nat] /\ budget'["replay"] <= budget["replay"]
    BY BudgetStep DEF Spend
  <2>. QED  BY <2>1
<1>1. ASSUME \A o \in Orders : /\ Claimants(o)' \subseteq Claimants(o)
                               /\ Openings(o)' \in 0..Openings(o)
      PROVE  BoundInv'
  BY <1>r, <1>1, BoundKept DEF BoundInv
<1>2. ASSUME UNCHANGED <<xref, worker, replay>>
      PROVE  BoundInv'
  <2>1. \A o \in Orders : Openings(o)' = Openings(o) /\ Claimants(o)' = Claimants(o)
    BY <1>2 DEF Openings, Claimants, worker, Xref!Exists, Xref!lookup
  <2>. QED  BY <1>1, <2>1, CountsAreNumbers
<1>3. CASE Handler
  <2>1. ASSUME NEW w \in Workers, (\E o \in Orders : Deliver(w, o)) \/ Settle(w) \/ Crash(w)
        PROVE  BoundInv'
    <3>1. \A o \in Orders : Claimants(o)' \subseteq Claimants(o)
      BY <2>1, HostMoves DEF Claimants, Guarded
    <3>2. \A o \in Orders : Openings(o)' = Openings(o)
      BY <1>3, <2>1, HostMoves DEF Handler, producers, Openings, Xref!Exists, Xref!lookup
    <3>. QED  BY <1>1, <3>1, <3>2, CountsAreNumbers
  <2>2. CASE \E o \in Orders : Overrun(o)
    BY <1>2, <1>3, <2>2 DEF Overrun, Handler, producers
  <2>3. CASE \E w \in Workers : WorkerStep(w)
    BY <1>3, <2>3, BoundWorkerStep DEF Handler, producers
  <2>. QED  BY <1>3, <2>1, <2>2, <2>3 DEF Handler, HandlerNext, Progress, WorkerStep
<1>4. CASE SwitchConnection \/ UNCHANGED vars
  BY <1>2, <1>4 DEF SwitchConnection, vars, handlerVars, producers
<1>5. ASSUME NEW o \in Orders, ClientStep(o)
      PROVE  BoundInv'
  <2>. UNCHANGED worker
    BY <1>5, ClientMoves
  <2>c. \A p \in Orders : Claimants(p)' = Claimants(p)
    BY DEF Claimants, worker
  <2>. USE DEF TypeInv, ClientsTypeOK
  <2>1. CASE /\ UNCHANGED xref
             /\ \/ UNCHANGED replay
                \/ \E step \in {"idle", "enqueue"} : replay' = [replay EXCEPT ![o] = step]
    <3>1. \A p \in Orders : Openings(p)' \in 0..Openings(p)
      BY <2>1 DEF Openings, Xref!Exists, Xref!lookup
    <3>. QED  BY <1>1, <2>c, <3>1
  <2>2. ASSUME NEW force \in BOOLEAN, ReplayLookup(o, force)
        PROVE  BoundInv'
    <3>1. Replays' = Replays + 1
      BY <2>2, HandlerAssumption DEF ReplayLookup, Spend, Replays, WorkerTypeOK, Events
    <3>2. \A p \in Orders : Openings(p)' \in 0..(Openings(p) + 1)
      BY <2>2 DEF ReplayLookup, Openings, Xref!Exists, Xref!lookup
    <3>3. ASSUME NEW p \in Orders
          PROVE  Cardinality(Claimants(p)) + Openings(p)' <= 1 + Replays'
      BY <3>1, <3>2, CountsAreNumbers DEF BoundInv
    <3>. QED  BY <2>c, <3>3 DEF BoundInv
  <2>3. CASE ReplayDelete(o)
    <3>1. \A p \in Orders : Openings(p)' \in 0..Openings(p)
      BY <2>3 DEF ReplayDelete, Xref!delete, Xref!NoRow, Xref!XrefTypeOK, Openings, Xref!Exists,
                  Xref!lookup
    <3>. QED  BY <1>1, <2>c, <3>1
  <2>. QED  BY <1>5, <2>1, <2>2, <2>3, ClientMoves
<1>. QED  BY <1>3, <1>4, <1>5 DEF Next, ClientStep

(***************************************************************************)
(* However many workers there are, an order has at most one invocation     *)
(* behind its claim, and one more for each replay of it or of another      *)
(* order: the only code that takes the claim from under its holder is      *)
(* requestReplay, which deletes the row.                                   *)
(***************************************************************************)
THEOREM ReplaysBoundClaims == Spec => []ClaimsBounded
<1>1. Init => BoundInv /\ BudgetInv
  <2>. SUFFICES ASSUME Init
                PROVE  BoundInv /\ BudgetInv
    OBVIOUS
  <2>1. \A o \in Orders : Claimants(o) = {}
    BY DEF Init, HandlerInit, Claimants, InTry, Parking
  <2>2. ASSUME NEW o \in Orders
        PROVE  Openings(o) = 1
    <3>1. replay[o] = "idle" /\ xref[o].status = "absent"
      BY DEF Init, HandlerInit, Xref!XrefInit, Xref!NoRow
    <3>. QED  BY <3>1 DEF Openings, Xref!Exists, Xref!lookup
  <2>3. Replays = 0 /\ BudgetInv
    BY HandlerAssumption DEF Init, HandlerInit, Replays, BudgetInv, Events
  <2>. QED  BY <2>1, <2>2, <2>3, FS_EmptySet DEF BoundInv
<1>2. TypeInv /\ BudgetInv /\ BoundInv /\ [Next]_vars => BudgetInv' /\ BoundInv'
  BY UnseenStep, BoundStep
<1>3. Spec => []TypeInv
  BY TypeInvInit, TypeInvStep, PTL DEF Spec
<1>4. TypeInv /\ BoundInv => ClaimsBounded
  <2>. SUFFICES ASSUME TypeInv, BoundInv, NEW o \in Orders
                PROVE  Cardinality(Claimants(o)) <= 1 + Replays
    BY DEF ClaimsBounded, Replays
  <2>. QED  BY CountsAreNumbers DEF BoundInv
<1>. QED  BY <1>1, <1>2, <1>3, <1>4, PTL DEF Spec

-----------------------------------------------------------------------------
(***************************************************************************)
(* The steps that keep a state predicate need to be looked at one by one   *)
(* only where they touch what it is about.  A worker's step touches what   *)
(* belongs to the worker and to the order it handles.                      *)
(***************************************************************************)
OthersKeepRows(o) == \A other \in Orders \ {o} : Xref!lookup(other)' = Xref!lookup(other)

LEMMA LookupMoves ==
  ASSUME Xref!XrefTypeOK, NEW o \in Orders
  PROVE  /\ Xref!InsertPending(o) =>
              Xref!lookup(o) = "absent" /\ Xref!lookup(o)' = "pending" /\ OthersKeepRows(o)
         /\ Xref!recordSuccess(o) => Xref!lookup(o)' = "synced" /\ OthersKeepRows(o)
         /\ Xref!recordFailure(o) => Xref!lookup(o)' = "error" /\ OthersKeepRows(o)
         /\ Xref!markIgnored(o) => Xref!lookup(o)' = "ignored" /\ OthersKeepRows(o)
         /\ Xref!delete(o) => Xref!lookup(o)' = "absent" /\ OthersKeepRows(o)
         /\ UNCHANGED xref => Xref!lookup(o)' = Xref!lookup(o) /\ OthersKeepRows(o)
<1>1. ASSUME NEW status, Rows' = [Rows EXCEPT ![o] = status]
      PROVE  Xref!lookup(o)' = status /\ OthersKeepRows(o)
  BY <1>1 DEF Rows, OthersKeepRows
<1>2. Rows[o] = Xref!lookup(o)
  BY DEF Rows
<1>3. UNCHANGED xref => Xref!lookup(o)' = Xref!lookup(o) /\ OthersKeepRows(o)
  BY DEF OthersKeepRows, Xref!lookup
<1>. QED  BY <1>1, <1>2, <1>3, RowsMove

LEMMA WorkerFrame ==
  ASSUME TypeInv, NEW w \in Workers, WorkerStep(w)
  PROVE  /\ UNCHANGED <<bus, job, enabled>>
         /\ OthersKeepRows(job[w])
         /\ \A v \in Workers \ {w} : pc'[v] = pc[v] /\ result'[v] = result[v]
         /\ \A o \in Orders \ {job[w]} : ledger'[o] = ledger[o] /\ attempts'[o] = attempts[o]
         /\ \A o \in Orders : errors[o] \subseteq errors'[o]
<1>. job[w] \in Orders /\ WorkerTypeOK /\ Xref!XrefTypeOK /\ RecordsTypeOK
  BY StepIsAtWork DEF TypeInv
<1>1. UNCHANGED <<bus, job, enabled>>
  <2>1. UNCHANGED enabled
    BY DEF WorkerStep, GateLookup, MarkIgnored, LogIgnored, Claim, ClaimRead, GetOrder,
           ResolveCustomer, BuildPayload, Upsert, RecordSuccess, LogImport, Tag,
           RecordTagError, RecordFailure, RecordError, LogPark, RecordAuthError,
           RecordAttempt, CallFails, shopify
  <2>. QED  BY <2>1, WorkerStepType, WorkerMoves
<1>2. OthersKeepRows(job[w])
  <2>1. \/ Xref!InsertPending(job[w]) \/ Xref!recordSuccess(job[w])
        \/ Xref!recordFailure(job[w]) \/ Xref!markIgnored(job[w]) \/ UNCHANGED xref
    BY DEF WorkerStep, GateLookup, MarkIgnored, LogIgnored, Claim, ClaimRead, GetOrder,
           ResolveCustomer, BuildPayload, Upsert, RecordSuccess, LogImport, Tag,
           RecordTagError, RecordFailure, RecordError, LogPark, RecordAuthError,
           RecordAttempt, CallFails
  <2>. QED  BY <2>1, LookupMoves
<1>3. \A v \in Workers \ {w} : pc'[v] = pc[v] /\ result'[v] = result[v]
  <2>1. \A v \in Workers \ {w} : pc'[v] = pc[v]
    BY WorkerMoves DEF WorkerTypeOK
  <2>2. \/ UNCHANGED result
        \/ \E outcome : result' = [result EXCEPT ![w] = outcome]
    BY ThrowEnds, FailsEnds
       DEF WorkerStep, GateLookup, MarkIgnored, LogIgnored, Claim, ClaimRead, GetOrder,
           ResolveCustomer, BuildPayload, Upsert, RecordSuccess, LogImport, Tag,
           RecordTagError, RecordFailure, RecordError, LogPark, RecordAuthError,
           RecordAttempt, CallFails, Await, Finish
  <2>. QED  BY <2>1, <2>2 DEF WorkerTypeOK
<1>4. \A o \in Orders \ {job[w]} : ledger'[o] = ledger[o] /\ attempts'[o] = attempts[o]
  <2>1. UNCHANGED ledger \/ \E status : LedgerWrite(job[w], status)
    BY DEF WorkerStep, GateLookup, MarkIgnored, LogIgnored, Claim, ClaimRead, GetOrder,
           ResolveCustomer, BuildPayload, Upsert, RecordSuccess, LogImport, Tag,
           RecordTagError, RecordFailure, RecordError, LogPark, RecordAuthError,
           RecordAttempt, CallFails, records
  <2>2. \/ UNCHANGED attempts
        \/ attempts' = [attempts EXCEPT ![job[w]] = @ \cup {result[w]}]
    BY DEF WorkerStep, GateLookup, MarkIgnored, LogIgnored, Claim, ClaimRead, GetOrder,
           ResolveCustomer, BuildPayload, Upsert, RecordSuccess, LogImport, Tag,
           RecordTagError, RecordFailure, RecordError, LogPark, RecordAuthError,
           RecordAttempt, CallFails, records
  <2>. QED  BY <2>1, <2>2 DEF RecordsTypeOK, LedgerWrite, LedgerUpsert
<1>5. \A o \in Orders : errors[o] \subseteq errors'[o]
  <2>1. UNCHANGED errors \/ \E kind : ErrorRecord(job[w], kind)
    BY DEF WorkerStep, GateLookup, MarkIgnored, LogIgnored, Claim, ClaimRead, GetOrder,
           ResolveCustomer, BuildPayload, Upsert, RecordSuccess, LogImport, Tag,
           RecordTagError, RecordFailure, RecordError, LogPark, RecordAuthError,
           RecordAttempt, CallFails, records
  <2>. QED  BY <2>1 DEF RecordsTypeOK, ErrorRecord
<1>. QED  BY <1>1, <1>2, <1>3, <1>4, <1>5

(* The host touches the invocation, its message and its session.           *)
LEMMA HostFrame ==
  ASSUME TypeInv, NEW w \in Workers,
         (\E o \in Orders : Deliver(w, o)) \/ Settle(w) \/ Crash(w)
  PROVE  /\ UNCHANGED <<xref, ledger, errors, attempts, enabled>>
         /\ pc'[w] \in {"idle", "settle", "gate_lookup", "claim"}
         /\ \A v \in Workers \ {w} : pc'[v] = pc[v] /\ job'[v] = job[v] /\ result'[v] = result[v]
<1>1. CASE \E o \in Orders : Deliver(w, o)
  BY <1>1 DEF Deliver, TypeInv, WorkerTypeOK, records, shopify
<1>2. CASE Settle(w) \/ Crash(w)
  BY <1>2 DEF Settle, Crash, Rest, TypeInv, WorkerTypeOK, records, shopify
<1>. QED  BY <1>1, <1>2

LEMMA OverrunFrame ==
  ASSUME NEW o \in Orders, Overrun(o)
  PROVE  UNCHANGED <<xref, ledger, errors, attempts, enabled, pc, job, result>>
BY DEF Overrun, records, shopify, worker

(* A client touches its order; no error record but an open one of the      *)
(* dead-letter handler's changes its kind.                                 *)
LEMMA ClientFrame ==
  ASSUME TypeInv, NEW o \in Orders, ClientStep(o)
  PROVE  /\ UNCHANGED <<pc, job, result, enabled>>
         /\ UNCHANGED xref \/ ReplayDelete(o)
         /\ UNCHANGED ledger \/ DlqUpsert(o)
         /\ UNCHANGED attempts \/ DlqAttempt(o)
         /\ \A p \in Orders : errors[p] \ {"dlq_open"} \subseteq errors'[p]
<1>1. UNCHANGED <<pc, job, result, enabled>>
  <2>1. UNCHANGED worker
    BY ClientMoves
  <2>2. UNCHANGED enabled
    BY DEF ClientStep, Shopify, Webhook, Edit, Poller, PollLookup, PollEnqueue, PollFails,
           Operator, ReplayLookup, ReplayDelete, ReplayEnqueue, ReplayFails, FixDefect,
           DlqHandler, DlqRecord, DlqQuarantine, DlqAttempt, DlqFind, DlqUpsert, DlqFails, shopify
  <2>. QED  BY <2>1, <2>2 DEF worker
<1>2. UNCHANGED xref \/ ReplayDelete(o)
  BY ClientMoves DEF ReplayLookup
<1>3. UNCHANGED ledger \/ DlqUpsert(o)
  BY DEF ClientStep, Shopify, Webhook, Edit, Poller, PollLookup, PollEnqueue, PollFails,
         Operator, ReplayLookup, ReplayDelete, ReplayEnqueue, ReplayFails, FixDefect,
         DlqHandler, DlqRecord, DlqQuarantine, DlqAttempt, DlqFind, DlqFails, records
<1>4. UNCHANGED attempts \/ DlqAttempt(o)
  BY DEF ClientStep, Shopify, Webhook, Edit, Poller, PollLookup, PollEnqueue, PollFails,
         Operator, ReplayLookup, ReplayDelete, ReplayEnqueue, ReplayFails, FixDefect,
         DlqHandler, DlqRecord, DlqQuarantine, DlqFind, DlqUpsert, DlqFails, records
<1>5. \A p \in Orders : errors[p] \ {"dlq_open"} \subseteq errors'[p]
  <2>1. \/ UNCHANGED errors
        \/ ErrorRecord(o, "dlq_open")
        \/ errors' = [errors EXCEPT ![o] = (@ \ {"dlq_open"}) \cup {"quarantined"}]
        \/ errors' = [errors EXCEPT ![o] = (@ \ {"dlq_open"}) \cup {"dlq_orphaned"}]
    BY DEF ClientStep, Shopify, Webhook, Edit, Poller, PollLookup, PollEnqueue, PollFails,
           Operator, ReplayLookup, ReplayDelete, ReplayEnqueue, ReplayFails, FixDefect,
           DlqHandler, DlqRecord, DlqQuarantine, DlqAttempt, DlqFind, DlqUpsert, DlqFails, records
  <2>. QED  BY <2>1 DEF TypeInv, RecordsTypeOK, ErrorRecord
<1>. QED  BY <1>1, <1>2, <1>3, <1>4, <1>5

(* What has not happened after a step did not happen in it.                *)
LEMMA UnseenEvent ==
  ASSUME TypeInv, SessionInv, [Next]_vars, NEW event \in Events, Unseen(event)'
  PROVE  Unseen(event) /\ ~Spend(event)
BY UnseenStep DEF SessionInv

LEMMA NoFailureNoFails ==
  ASSUME ~Spend("failure"), NEW w \in Workers
  PROVE  ~Fails(w)
BY DEF Fails

(***************************************************************************)
(* Where an exception leads that no failed call caused: the permanent      *)
(* errors the handler raises itself.                                       *)
(***************************************************************************)
LEMMA PermanentThrow ==
  ASSUME WorkerTypeOK, NEW w \in Workers, Throw(w, "permanent")
  PROVE  \/ pc[w] \in BeforeClaim /\ pc'[w] = "settle" /\ result'[w] = "escaped"
         \/ pc[w] \in InTry \cup Parking /\ pc'[w] = "record_failure" /\ result'[w] = "caught"
         \/ /\ pc[w] \in Parking \cup {"record_auth"}
            /\ pc'[w] = "record_attempt" /\ result'[w] = "transient_throw"
BY DEF WorkerTypeOK, Throw, Escape, Catch, Rethrow

-----------------------------------------------------------------------------
(***************************************************************************)
(* ClaimsAreOwned.  As long as calls succeed and hosts live, a pending row *)
(* has a worker between the claim and the statement that settles the row,  *)
(* and a row in error one that is about to record the error, or the record.*)
(***************************************************************************)
Unsettled == {"get_order", "ignore", "customer", "resolve", "upsert", "record_success",
              "record_failure"}

Owned(o) ==
    /\ Xref!lookup(o) = "pending" => \E w \in Workers : job[w] = o /\ pc[w] \in Unsettled
    /\ Xref!lookup(o) = "error" =>
          \/ \E w \in Workers : job[w] = o /\ pc[w] = "record_error"
          \/ "parked" \in errors[o]

OwnedInv == Unseen("failure") /\ Unseen("crash") => \A o \in Orders : Owned(o)

(* A worker that settles the row, or leaves it, no longer owes it anything.*)
LEMMA OwnedWorkerStep ==
  ASSUME TypeInv, NEW w \in Workers, WorkerStep(w), ~Spend("failure")
  PROVE  /\ Xref!lookup(job[w])' = "pending" =>
              \/ pc'[w] \in Unsettled
              \/ Xref!lookup(job[w]) = "pending" /\ pc[w] \notin Unsettled
         /\ Xref!lookup(job[w])' = "error" =>
              \/ pc'[w] = "record_error"
              \/ "parked" \in errors'[job[w]]
              \/ Xref!lookup(job[w]) = "error" /\ pc[w] # "record_error"
<1>. job[w] \in Orders /\ WorkerTypeOK /\ Xref!XrefTypeOK /\ RecordsTypeOK
  BY StepIsAtWork DEF TypeInv
<1>. job' = job /\ ~Fails(w)
  BY WorkerFrame, NoFailureNoFails
<1>. USE DEF WorkerTypeOK, Await, Finish, Unsettled
<1>1. CASE pc[w] \notin Unsettled \cup {"record_error"} /\ UNCHANGED xref
  BY <1>1, LookupMoves
<1>2. CASE MarkIgnored(w)
  BY <1>2, LookupMoves DEF MarkIgnored
<1>3. CASE Claim(w)
  BY <1>3, LookupMoves DEF Claim
<1>4. CASE GetOrder(w)
  <2>1. CASE Throw(w, "permanent")
    <3>1. pc[w] = "get_order" /\ pc'[w] = "record_failure" /\ UNCHANGED xref
      BY <1>4, <2>1, PermanentThrow DEF GetOrder, BeforeClaim, Parking
    <3>. QED  BY <3>1, LookupMoves
  <2>2. CASE Await(w, "ignore") \/ Await(w, "customer")
    BY <1>4, <2>2, LookupMoves DEF GetOrder
  <2>. QED  BY <1>4, <2>1, <2>2 DEF GetOrder
<1>5. CASE ResolveCustomer(w)
  BY <1>5, LookupMoves DEF ResolveCustomer
<1>6. CASE BuildPayload(w)
  BY <1>6, LookupMoves DEF BuildPayload
<1>7. CASE Upsert(w)
  BY <1>7, LookupMoves DEF Upsert
<1>8. CASE RecordSuccess(w) \/ RecordFailure(w)
  <2>1. CASE Xref!recordSuccess(job[w])
    BY <2>1, LookupMoves
  <2>2. CASE Xref!recordFailure(job[w]) /\ Await(w, "record_error")
    BY <2>2, LookupMoves
  <2>3. CASE ~Xref!Exists(job[w]) /\ UNCHANGED xref
    BY <2>3, LookupMoves DEF Xref!Exists
  <2>. QED  BY <1>8, <2>1, <2>2, <2>3 DEF RecordSuccess, RecordFailure
<1>9. CASE RecordError(w)
  BY <1>9, LookupMoves DEF RecordError, ErrorRecord, RecordsTypeOK
<1>. QED  BY <1>1, <1>2, <1>3, <1>4, <1>5, <1>6, <1>7, <1>8, <1>9
          DEF WorkerStep, GateLookup, LogIgnored, ClaimRead, LogImport, Tag, RecordTagError,
              LogPark, RecordAuthError, RecordAttempt, CallFails

LEMMA OwnedStep ==
  ASSUME TypeInv, SessionInv, OwnedInv, [Next]_vars
  PROVE  OwnedInv'
<1>. SUFFICES ASSUME Unseen("failure")', Unseen("crash")', NEW o \in Orders
              PROVE  Owned(o)'
  BY DEF OwnedInv
<1>u. /\ ~Spend("failure") /\ ~Spend("crash")
      /\ \A p \in Orders : Owned(p)
  BY UnseenEvent DEF OwnedInv, Events
<1>0. ASSUME UNCHANGED <<xref, errors, pc, job>>
      PROVE  Owned(o)'
  BY <1>0, <1>u DEF Owned, Xref!lookup
<1>1. CASE Handler
  <2>1. ASSUME NEW w \in Workers, WorkerStep(w)
        PROVE  Owned(o)'
    <3>. /\ UNCHANGED job /\ OthersKeepRows(job[w]) /\ errors[o] \subseteq errors'[o]
         /\ \A v \in Workers \ {w} : pc'[v] = pc[v]
      BY <2>1, WorkerFrame
    <3>1. CASE job[w] = o
      BY <1>u, <2>1, <3>1, OwnedWorkerStep DEF Owned
    <3>2. CASE job[w] # o
      BY <1>u, <3>2 DEF Owned, OthersKeepRows
    <3>. QED  BY <3>1, <3>2
  <2>2. ASSUME NEW w \in Workers, (\E p \in Orders : Deliver(w, p)) \/ Settle(w) \/ Crash(w)
        PROVE  Owned(o)'
    <3>1. pc[w] \notin Unsettled \cup {"record_error"}
      BY <1>u, <2>2 DEF Deliver, Settle, Crash, Unsettled
    <3>. QED  BY <1>u, <2>2, <3>1, HostFrame DEF Owned, Xref!lookup
  <2>3. CASE \E p \in Orders : Overrun(p)
    BY <1>0, <2>3, OverrunFrame
  <2>. QED  BY <1>1, <2>1, <2>2, <2>3 DEF Handler, HandlerNext, Progress, WorkerStep
<1>2. CASE SwitchConnection \/ UNCHANGED vars
  BY <1>0, <1>2 DEF SwitchConnection, vars, handlerVars, records, worker
<1>3. ASSUME NEW p \in Orders, ClientStep(p)
      PROVE  Owned(o)'
  <2>1. UNCHANGED <<pc, job>> /\ errors[o] \ {"dlq_open"} \subseteq errors'[o]
    BY <1>3, ClientFrame
  <2>2. \/ Xref!lookup(o)' = Xref!lookup(o)
        \/ Xref!lookup(o)' = "absent"
    <3>1. CASE UNCHANGED xref
      BY <3>1 DEF Xref!lookup
    <3>2. CASE ReplayDelete(p)
      BY <3>2, LookupMoves DEF ReplayDelete, OthersKeepRows, TypeInv
    <3>. QED  BY <1>3, <3>1, <3>2, ClientFrame
  <2>. QED  BY <1>u, <2>1, <2>2 DEF Owned
<1>. QED  BY <1>1, <1>2, <1>3 DEF Next, ClientStep

(***************************************************************************)
(* While no call failed and no host died, `pending' in entity_xref means   *)
(* that an invocation is at work on the order, and `error' that the reason *)
(* is, or is about to be, in error_records, however many invocations and   *)
(* replays overlap.                                                        *)
(***************************************************************************)
THEOREM ClaimsHaveOwners == Spec => []ClaimsAreOwned
<1>1. Init => OwnedInv
  <2>. SUFFICES ASSUME Init, NEW o \in Orders
                PROVE  Owned(o)
    BY DEF OwnedInv
  <2>1. xref[o].status = "absent"
    BY DEF Init, HandlerInit, Xref!XrefInit, Xref!NoRow
  <2>. QED  BY <2>1 DEF Owned, Xref!lookup
<1>2. TypeInv /\ SessionInv /\ OwnedInv /\ [Next]_vars => OwnedInv'
  BY OwnedStep
<1>3. OwnedInv => ClaimsAreOwned
  BY DEF OwnedInv, Owned, Unsettled, ClaimsAreOwned, Claimants, InTry, Parking
<1>. QED  BY <1>1, <1>2, <1>3, SessionInvHolds, PTL DEF Spec

-----------------------------------------------------------------------------
(***************************************************************************)
(* SyncedIsStable.  Each session has one handler, so what an invocation    *)
(* saw of its row is still so when it acts on it: the gate's row is still  *)
(* missing when it is marked ignored, and a claim is still pending when it *)
(* is settled.                                                             *)
(***************************************************************************)
RowFits(w) ==
    /\ pc[w] = "gate_ignore" => ~Xref!Exists(job[w])
    /\ pc[w] = "claim_read"  => Xref!Exists(job[w])
    /\ pc[w] \in Unsettled   => Xref!lookup(job[w]) = "pending"

StableInv == Undisturbed => NoReplay /\ \A w \in Workers : RowFits(w)

LEMMA UndisturbedStep ==
  ASSUME TypeInv, SessionInv, [Next]_vars, Undisturbed'
  PROVE  /\ Undisturbed
         /\ ~Spend("replay") /\ ~Spend("failure") /\ ~Spend("overrun")
         /\ \A v, w \in Workers : v # w /\ job[v] # NoOrder => job[v] # job[w]
<1>1. Undisturbed /\ ~Spend("replay") /\ ~Spend("failure") /\ ~Spend("overrun")
  BY UnseenEvent DEF Undisturbed, Events
<1>2. \A v \in Workers : job[v] # NoOrder => lock[job[v]] = v
  BY <1>1 DEF Undisturbed, SessionInv
<1>. QED  BY <1>1, <1>2

LEMMA FitsWorkerStep ==
  ASSUME TypeInv, NEW w \in Workers, WorkerStep(w), RowFits(w), ~Spend("failure")
  PROVE  /\ RowFits(w)'
         /\ Xref!lookup(job[w]) = "synced" => Xref!lookup(job[w])' = "synced"
<1>. job[w] \in Orders /\ WorkerTypeOK /\ Xref!XrefTypeOK
  BY StepIsAtWork DEF TypeInv
<1>. job' = job /\ ~Fails(w)
  BY WorkerFrame, NoFailureNoFails
<1>. USE DEF WorkerTypeOK, RowFits, Unsettled, Xref!Exists
<1>1. CASE /\ UNCHANGED xref
           /\ pc'[w] \notin Unsettled \cup {"gate_ignore", "claim_read"}
  BY <1>1, LookupMoves
<1>2. CASE GateLookup(w)
  BY <1>2, LookupMoves DEF GateLookup, Await
<1>3. CASE MarkIgnored(w)
  BY <1>3, LookupMoves DEF MarkIgnored, Await
<1>4. CASE Claim(w)
  BY <1>4, LookupMoves DEF Claim, Await
<1>5. CASE GetOrder(w)
  <2>1. pc'[w] \in Unsettled /\ pc[w] = "get_order" /\ UNCHANGED xref
    BY <1>5, PermanentThrow DEF GetOrder, BeforeClaim, Parking, Await
  <2>. QED  BY <2>1, LookupMoves
<1>6. CASE ResolveCustomer(w) \/ BuildPayload(w) \/ Upsert(w)
  <2>1. pc'[w] \in Unsettled /\ pc[w] \in Unsettled \ {"record_success"} /\ UNCHANGED xref
    BY <1>6 DEF ResolveCustomer, BuildPayload, Upsert, Await
  <2>. QED  BY <2>1, LookupMoves
<1>7. CASE RecordSuccess(w) \/ RecordFailure(w)
  BY <1>7, LookupMoves DEF RecordSuccess, RecordFailure, Await
<1>8. CASE \/ LogIgnored(w) \/ ClaimRead(w) \/ LogImport(w) \/ Tag(w) \/ RecordTagError(w)
           \/ RecordError(w) \/ LogPark(w) \/ RecordAuthError(w) \/ RecordAttempt(w)
  <2>1. UNCHANGED xref
    BY <1>8 DEF LogIgnored, ClaimRead, LogImport, Tag, RecordTagError, RecordError, LogPark,
                RecordAuthError, RecordAttempt
  <2>2. pc'[w] \notin Unsettled \cup {"gate_ignore", "claim_read"}
    BY <1>8, PermanentThrow
       DEF LogIgnored, ClaimRead, LogImport, Tag, RecordTagError, RecordError, LogPark,
           RecordAuthError, RecordAttempt, Await, Finish, InTry, Parking
  <2>. QED  BY <1>1, <2>1, <2>2
<1>. QED  BY <1>2, <1>3, <1>4, <1>5, <1>6, <1>7, <1>8 DEF WorkerStep, CallFails

LEMMA StableStep ==
  ASSUME TypeInv, SessionInv, StableInv, [Next]_vars
  PROVE  StableInv'
<1>. SUFFICES ASSUME Undisturbed'
              PROVE  NoReplay' /\ \A w \in Workers : RowFits(w)'
  BY DEF StableInv
<1>u. /\ ~Spend("replay") /\ ~Spend("failure") /\ ~Spend("overrun")
      /\ \A v, w \in Workers : v # w /\ job[v] # NoOrder => job[v] # job[w]
      /\ NoReplay /\ \A w \in Workers : RowFits(w)
  BY UndisturbedStep DEF StableInv
<1>0. ASSUME UNCHANGED <<xref, pc, job, replay>>
      PROVE  NoReplay' /\ \A w \in Workers : RowFits(w)'
  BY <1>0, <1>u DEF NoReplay, RowFits, Xref!Exists, Xref!lookup
<1>1. CASE Handler
  <2>. UNCHANGED replay /\ NoReplay'
    BY <1>1, <1>u DEF Handler, producers, NoReplay
  <2>1. ASSUME NEW w \in Workers, WorkerStep(w), NEW v \in Workers
        PROVE  RowFits(v)'
    <3>. /\ job' = job /\ OthersKeepRows(job[w])
         /\ \A u \in Workers \ {w} : pc'[u] = pc[u]
      BY <2>1, WorkerFrame
    <3>1. CASE v = w
      BY <1>u, <2>1, <3>1, FitsWorkerStep
    <3>2. CASE v # w /\ pc[v] # "idle"
      <4>1. job[v] \in Orders \ {job[w]}
        BY <1>u, <3>2, HandlerAssumption DEF TypeInv, WorkerTypeOK
      <4>. QED  BY <1>u, <3>2, <4>1 DEF RowFits, OthersKeepRows, Xref!Exists
    <3>3. CASE v # w /\ pc[v] = "idle"
      BY <3>3 DEF RowFits, Unsettled
    <3>. QED  BY <3>1, <3>2, <3>3
  <2>2. ASSUME NEW w \in Workers, (\E p \in Orders : Deliver(w, p)) \/ Settle(w) \/ Crash(w),
               NEW v \in Workers
        PROVE  RowFits(v)'
    BY <1>u, <2>2, HostFrame DEF RowFits, Unsettled, Xref!Exists, Xref!lookup
  <2>3. CASE \E p \in Orders : Overrun(p)
    BY <1>u, <2>3 DEF Overrun
  <2>. QED  BY <1>1, <2>1, <2>2, <2>3 DEF Handler, HandlerNext, Progress, WorkerStep
<1>2. CASE SwitchConnection \/ UNCHANGED vars
  BY <1>0, <1>2 DEF SwitchConnection, vars, handlerVars, worker, producers
<1>3. ASSUME NEW p \in Orders, ClientStep(p)
      PROVE  NoReplay' /\ \A w \in Workers : RowFits(w)'
  <2>1. UNCHANGED <<xref, pc, job>>
    BY <1>3, <1>u, ClientFrame DEF NoReplay, ReplayDelete
  <2>2. ~ReplayDelete(p) /\ \A force \in BOOLEAN : ~ReplayLookup(p, force)
    BY <1>u DEF NoReplay, ReplayDelete, ReplayLookup
  <2>3. UNCHANGED replay \/ replay[p] # "idle"
    BY <1>3, <2>2
       DEF ClientStep, Shopify, Webhook, Edit, Poller, PollLookup, PollEnqueue, PollFails,
           Operator, ReplayEnqueue, ReplayFails, FixDefect, DlqHandler, DlqRecord, DlqQuarantine,
           DlqAttempt, DlqFind, DlqUpsert, DlqFails, producers
  <2>. QED  BY <1>0, <1>u, <2>1, <2>3 DEF NoReplay
<1>. QED  BY <1>1, <1>2, <1>3 DEF Next, ClientStep

LEMMA StableInvHolds == Spec => [](TypeInv /\ SessionInv /\ StableInv)
<1>1. Init => StableInv
  BY DEF Init, HandlerInit, StableInv, NoReplay, RowFits, Unsettled
<1>2. TypeInv /\ SessionInv /\ StableInv /\ [Next]_vars => StableInv'
  BY StableStep
<1>. QED  BY <1>1, <1>2, SessionInvHolds, PTL DEF Spec

(***************************************************************************)
(* Without replays, failed calls and overruns, `synced' is for good: no    *)
(* later webhook, poll, edit, crash or switch of the connection makes the  *)
(* handler overwrite or re-import the row, although markIgnored is an      *)
(* upsert that would overwrite any status.                                 *)
(***************************************************************************)
THEOREM SyncedStaysSynced == Spec => SyncedIsStable
<1>. DEFINE Keeps == \A o \in Orders :
               Undisturbed' /\ Xref!lookup(o) = "synced" => Xref!lookup(o)' = "synced"
<1>1. TypeInv /\ SessionInv /\ StableInv /\ [Next]_vars => Keeps
  <2>. SUFFICES ASSUME TypeInv, SessionInv, StableInv, [Next]_vars, Undisturbed',
                       NEW o \in Orders, Xref!lookup(o) = "synced"
                PROVE  Xref!lookup(o)' = "synced"
    BY DEF Keeps
  <2>u. ~Spend("failure") /\ NoReplay /\ \A w \in Workers : RowFits(w)
    BY UndisturbedStep DEF StableInv
  <2>0. UNCHANGED xref => Xref!lookup(o)' = "synced"
    BY DEF Xref!lookup
  <2>1. ASSUME NEW w \in Workers, WorkerStep(w)
        PROVE  Xref!lookup(o)' = "synced"
    <3>1. CASE job[w] = o
      <4>1. Xref!lookup(job[w])' = "synced" /\ job' = job
        BY <2>u, <2>1, <3>1, FitsWorkerStep, WorkerFrame
      <4>. QED  BY <3>1, <4>1
    <3>2. CASE job[w] # o
      BY <2>1, <3>2, WorkerFrame DEF OthersKeepRows
    <3>. QED  BY <3>1, <3>2
  <2>2. CASE Handler
    BY <2>0, <2>1, <2>2, HostFrame, OverrunFrame DEF Handler, HandlerNext, Progress, WorkerStep
  <2>3. CASE SwitchConnection \/ UNCHANGED vars
    BY <2>0, <2>3 DEF SwitchConnection, vars, handlerVars
  <2>4. CASE \E p \in Orders : ClientStep(p)
    BY <2>0, <2>4, <2>u, ClientFrame DEF NoReplay, ReplayDelete
  <2>. QED  BY <2>2, <2>3, <2>4 DEF Next, ClientStep
<1>. QED  BY <1>1, StableInvHolds, PTL DEF Spec, SyncedIsStable, Keeps

-----------------------------------------------------------------------------
(***************************************************************************)
(* RecordsAgree.  Between the statement that settles a row and the write   *)
(* of its ledger row the tables disagree, but an invocation is there to    *)
(* make them agree, the row is what it is about to say, and nothing throws *)
(* it out before it has: no message is ever abandoned, or dead-lettered.   *)
(***************************************************************************)
Unlogged == {"gate_log", "ignore_log", "log_import", "record_error", "log_park"}

Smooth(w) ==
    /\ result[w] \notin Throws /\ pc[w] \notin {"tag_record", "record_auth"}
    /\ pc[w] \in {"gate_log", "ignore_log"} => Xref!lookup(job[w]) = "ignored"
    /\ pc[w] = "log_import" => Xref!lookup(job[w]) = "synced"
    /\ pc[w] \in {"record_error", "log_park"} => Xref!lookup(job[w]) = "error"

Agrees(o) == ledger[o].status = LedgerOf(Xref!lookup(o))

NoDeadLetters == \A o \in Orders : deadLetter[o] = << >> /\ dlq[o] = "idle"

AgreeInv ==
    Undisturbed /\ Unseen("crash") =>
        /\ NoDeadLetters
        /\ \A w \in Workers : Smooth(w)
        /\ \A o \in Orders : (\A w \in Workers : job[w] = o => pc[w] \notin Unlogged) => Agrees(o)

LEMMA LedgerOfStatuses ==
  /\ LedgerOf("absent") = "absent" /\ LedgerOf("pending") = "absent"
  /\ LedgerOf("synced") = "imported" /\ LedgerOf("error") = "parked"
  /\ LedgerOf("ignored") = "ignored"
BY DEF LedgerOf

(* A write of the ledger row says what the row it follows says.            *)
LEMMA LedgerAgrees ==
  ASSUME RecordsTypeOK, Xref!XrefTypeOK, NEW o \in Orders, NEW status, UNCHANGED xref,
         LedgerWrite(o, status), status = LedgerOf(Xref!lookup(o))
  PROVE  Agrees(o)'
<1>1. ledger'[o].status = status
  BY DEF RecordsTypeOK, LedgerWrite, LedgerUpsert
<1>. QED  BY <1>1 DEF Agrees, Xref!lookup

LEMMA AgreeWorkerStep ==
  ASSUME TypeInv, NEW w \in Workers, WorkerStep(w), ~Spend("failure"), RowFits(w), Smooth(w)
  PROVE  /\ Smooth(w)'
         /\ (pc[w] \notin Unlogged => Agrees(job[w])) /\ pc'[w] \notin Unlogged
               => Agrees(job[w])'
<1>. job[w] \in Orders /\ WorkerTypeOK /\ Xref!XrefTypeOK /\ RecordsTypeOK
  BY StepIsAtWork DEF TypeInv
<1>. job' = job /\ ~Fails(w)
  BY WorkerFrame, NoFailureNoFails
<1>a. ASSUME UNCHANGED <<xref, ledger>>
      PROVE  Agrees(job[w])' <=> Agrees(job[w])
  BY <1>a DEF Agrees, Xref!lookup
<1>1. CASE /\ UNCHANGED <<xref, ledger>>
           /\ result'[w] \notin Throws
           /\ pc[w] \notin Unlogged
           /\ pc'[w] \notin Unlogged \cup {"tag_record", "record_auth"}
  BY <1>a, <1>1 DEF Smooth, Unlogged
<1>2. CASE \/ GateLookup(w) \/ ResolveCustomer(w) \/ BuildPayload(w) \/ Upsert(w)
  <2>1. UNCHANGED <<xref, ledger, result>> /\ pc[w] \notin Unlogged
    BY <1>2 DEF GateLookup, ResolveCustomer, BuildPayload, Upsert, Await, records, Unlogged
  <2>2. pc'[w] \notin Unlogged \cup {"tag_record", "record_auth"}
    BY <1>2 DEF GateLookup, ResolveCustomer, BuildPayload, Upsert, Await, WorkerTypeOK, Unlogged
  <2>. QED  BY <1>1, <2>1, <2>2 DEF Smooth
<1>3. CASE Tag(w) \/ RecordAttempt(w)
  <2>1. UNCHANGED <<xref, ledger>> /\ pc[w] \notin Unlogged
    BY <1>3 DEF Tag, RecordAttempt, Finish, records, Unlogged
  <2>2. /\ pc'[w] \notin Unlogged \cup {"tag_record", "record_auth"}
        /\ result'[w] = "imported" \/ result' = result
    BY <1>3 DEF Tag, RecordAttempt, Finish, WorkerTypeOK, Unlogged
  <2>. QED  BY <1>1, <2>1, <2>2 DEF Smooth, Throws
<1>4. CASE ClaimRead(w)
  <2>1. Xref!Exists(job[w])
    BY <1>4 DEF ClaimRead, RowFits
  <2>2. /\ result'[w] \in {"already_synced", "ignored", "already_claimed"}
        /\ pc'[w] = "record_attempt"
    BY <1>4, <2>1, ClaimOutcomeType DEF ClaimRead, Finish, WorkerTypeOK
  <2>. QED  BY <1>1, <1>4, <2>2 DEF ClaimRead, records, Throws, Unlogged
<1>5. CASE GetOrder(w)
  <2>1. /\ pc'[w] \in {"record_failure", "ignore", "customer"}
        /\ result'[w] = "caught" \/ result' = result
    BY <1>5, PermanentThrow DEF GetOrder, BeforeClaim, Parking, Await, WorkerTypeOK
  <2>. QED  BY <1>1, <1>5, <2>1 DEF GetOrder, records, Smooth, Throws, Unlogged
<1>6. CASE Claim(w)
  <2>1. CASE Xref!InsertPending(job[w])
    <3>1. Xref!lookup(job[w]) = "absent" /\ Xref!lookup(job[w])' = "pending"
      BY <2>1, LookupMoves
    <3>2. pc'[w] = "get_order" /\ UNCHANGED <<ledger, result>> /\ pc[w] = "claim"
      BY <1>6, <2>1 DEF Claim, Await, records, WorkerTypeOK, Xref!InsertPending
    <3>. QED  BY <3>1, <3>2, LedgerOfStatuses DEF Smooth, Agrees, Unlogged
  <2>2. CASE UNCHANGED xref /\ Await(w, "claim_read")
    BY <1>1, <1>6, <2>2 DEF Claim, Await, records, Smooth, WorkerTypeOK, Unlogged
  <2>. QED  BY <1>6, <2>1, <2>2 DEF Claim
<1>7. CASE MarkIgnored(w)
  <2>1. Xref!lookup(job[w])' = "ignored"
    BY <1>7, LookupMoves DEF MarkIgnored
  <2>2. pc'[w] \in {"gate_log", "ignore_log"} /\ UNCHANGED result
    BY <1>7 DEF MarkIgnored, Await, WorkerTypeOK
  <2>. QED  BY <2>1, <2>2 DEF Smooth, Unlogged
<1>8. CASE RecordSuccess(w)
  <2>1. Xref!recordSuccess(job[w])
    BY <1>8 DEF RecordSuccess, RowFits, Unsettled, Xref!Exists
  <2>2. Xref!lookup(job[w])' = "synced"
    BY <2>1, LookupMoves
  <2>3. pc'[w] = "log_import" /\ UNCHANGED result
    BY <1>8, <2>1 DEF RecordSuccess, Await, WorkerTypeOK, Xref!recordSuccess
  <2>. QED  BY <2>2, <2>3 DEF Smooth, Unlogged
<1>9. CASE RecordFailure(w)
  <2>1. Xref!recordFailure(job[w])
    BY <1>9 DEF RecordFailure, RowFits, Unsettled, Xref!Exists
  <2>2. Xref!lookup(job[w])' = "error"
    BY <2>1, LookupMoves
  <2>3. pc'[w] = "record_error" /\ UNCHANGED result
    BY <1>9, <2>1 DEF RecordFailure, Await, WorkerTypeOK, Xref!recordFailure
  <2>. QED  BY <2>2, <2>3 DEF Smooth, Unlogged
<1>10. CASE RecordError(w)
  <2>1. pc[w] = "record_error" /\ pc'[w] = "log_park" /\ UNCHANGED <<result, xref>>
    BY <1>10 DEF RecordError, Await, WorkerTypeOK
  <2>. QED  BY <2>1, LookupMoves DEF Smooth, Unlogged
<1>w. ASSUME NEW status, LedgerWrite(job[w], status), status = LedgerOf(Xref!lookup(job[w])),
             UNCHANGED xref, result'[w] \notin Throws, pc'[w] \in {"record_attempt", "tag"}
      PROVE  Smooth(w)' /\ Agrees(job[w])'
  <2>1. \A o \in Orders : o = job[w] => Agrees(o)'
    BY <1>w, LedgerAgrees
  <2>. QED  BY <1>w, <2>1 DEF Smooth
<1>11. CASE LogIgnored(w)
  <2>1. "ignored" = LedgerOf(Xref!lookup(job[w]))
    BY <1>11, LedgerOfStatuses DEF LogIgnored, Smooth
  <2>2. pc'[w] = "record_attempt" /\ result'[w] = "ignored_by_eligibility"
    BY <1>11 DEF LogIgnored, Finish, WorkerTypeOK
  <2>. QED  BY <1>w, <1>11, <2>1, <2>2 DEF LogIgnored, Throws
<1>12. CASE LogImport(w)
  <2>1. "imported" = LedgerOf(Xref!lookup(job[w]))
    BY <1>12, LedgerOfStatuses DEF LogImport, Smooth
  <2>2. pc'[w] \in {"record_attempt", "tag"} /\ (result'[w] = "imported" \/ result' = result)
    BY <1>12 DEF LogImport, Finish, Await, WorkerTypeOK
  <2>. QED  BY <1>w, <1>12, <2>1, <2>2 DEF LogImport, Smooth, Throws
<1>13. CASE LogPark(w)
  <2>1. "parked" = LedgerOf(Xref!lookup(job[w]))
    BY <1>13, LedgerOfStatuses DEF LogPark, Smooth
  <2>2. pc'[w] = "record_attempt" /\ result'[w] = "parked"
    BY <1>13 DEF LogPark, Finish, WorkerTypeOK
  <2>. QED  BY <1>w, <1>13, <2>1, <2>2 DEF LogPark, Throws
<1>. QED  BY <1>2, <1>3, <1>4, <1>5, <1>6, <1>7, <1>8, <1>9, <1>10, <1>11, <1>12, <1>13
          DEF WorkerStep, CallFails, RecordTagError, RecordAuthError, Smooth

LEMMA AgreeStep ==
  ASSUME TypeInv, SessionInv, StableInv, AgreeInv, [Next]_vars
  PROVE  AgreeInv'
<1>. DEFINE Logged(o) == \A w \in Workers : job[w] = o => pc[w] \notin Unlogged
<1>. SUFFICES ASSUME Undisturbed', Unseen("crash")'
              PROVE  /\ NoDeadLetters'
                     /\ \A w \in Workers : Smooth(w)'
                     /\ \A o \in Orders : Logged(o)' => Agrees(o)'
  BY DEF AgreeInv
<1>u. /\ ~Spend("failure") /\ ~Spend("overrun") /\ ~Spend("crash")
      /\ NoReplay /\ \A w \in Workers : RowFits(w)
      /\ NoDeadLetters /\ \A w \in Workers : Smooth(w)
      /\ \A o \in Orders : Logged(o) => Agrees(o)
      /\ \A v, w \in Workers : v # w /\ job[v] # NoOrder => job[v] # job[w]
  BY UndisturbedStep, UnseenEvent DEF StableInv, AgreeInv, Events
<1>0. ASSUME UNCHANGED <<xref, ledger, pc, job, result, deadLetter, dlq>>
      PROVE  /\ NoDeadLetters'
             /\ \A w \in Workers : Smooth(w)'
             /\ \A o \in Orders : Logged(o)' => Agrees(o)'
  BY <1>0, <1>u DEF NoDeadLetters, Smooth, Agrees, Xref!lookup
<1>1. CASE Handler
  <2>d. UNCHANGED dlq
    BY <1>1 DEF Handler, deadLetters
  <2>1. ASSUME NEW w \in Workers, WorkerStep(w)
        PROVE  /\ NoDeadLetters'
               /\ \A v \in Workers : Smooth(v)'
               /\ \A o \in Orders : Logged(o)' => Agrees(o)'
    <3>. /\ UNCHANGED <<bus, job>> /\ OthersKeepRows(job[w])
         /\ \A v \in Workers \ {w} : pc'[v] = pc[v] /\ result'[v] = result[v]
         /\ \A o \in Orders \ {job[w]} : ledger'[o] = ledger[o]
      BY <2>1, WorkerFrame
    <3>. job[w] \in Orders
      BY <2>1, StepIsAtWork
    <3>1. NoDeadLetters'
      BY <1>u, <2>d DEF NoDeadLetters, bus
    <3>2. /\ Smooth(w)'
          /\ (pc[w] \notin Unlogged => Agrees(job[w])) /\ pc'[w] \notin Unlogged
                => Agrees(job[w])'
      BY <1>u, <2>1, AgreeWorkerStep
    <3>3. ASSUME NEW v \in Workers \ {w}
          PROVE  Smooth(v)'
      <4>1. CASE pc[v] = "idle"
        BY <1>u, <4>1 DEF Smooth
      <4>2. CASE pc[v] # "idle"
        <5>1. job[v] \in Orders \ {job[w]}
          BY <1>u, <4>2, HandlerAssumption DEF TypeInv, WorkerTypeOK
        <5>. QED  BY <1>u, <5>1 DEF Smooth, OthersKeepRows
      <4>. QED  BY <4>1, <4>2
    <3>4. ASSUME NEW o \in Orders, Logged(o)'
          PROVE  Agrees(o)'
      <4>1. CASE o # job[w]
        <5>1. Logged(o)
          BY <3>4, <4>1
        <5>2. Agrees(o)
          BY <1>u, <5>1
        <5>. QED  BY <4>1, <5>2 DEF Agrees, OthersKeepRows
      <4>2. CASE o = job[w]
        <5>1. pc'[w] \notin Unlogged
          BY <3>4, <4>2
        <5>2. pc[w] \notin Unlogged => Logged(o)
          BY <3>4, <4>2
        <5>3. Agrees(job[w])'
          BY <1>u, <3>2, <4>2, <5>1, <5>2
        <5>4. job' = job
          OBVIOUS
        <5>. QED  BY <4>2, <5>3, <5>4
      <4>. QED  BY <4>1, <4>2
    <3>. QED  BY <3>1, <3>2, <3>3, <3>4
  <2>2. ASSUME NEW w \in Workers, (\E p \in Orders : Deliver(w, p)) \/ Settle(w)
        PROVE  /\ NoDeadLetters'
               /\ \A v \in Workers : Smooth(v)'
               /\ \A o \in Orders : Logged(o)' => Agrees(o)'
    <3>. /\ UNCHANGED <<xref, ledger>>
         /\ pc'[w] \in {"idle", "settle", "gate_lookup", "claim"}
         /\ \A v \in Workers \ {w} : pc'[v] = pc[v] /\ job'[v] = job[v] /\ result'[v] = result[v]
      BY <2>2, HostFrame
    <3>1. UNCHANGED deadLetter
      BY <1>u, <2>2 DEF Smooth, Deliver, Receive, Settle, Complete, bus
    <3>2. pc[w] \notin Unlogged
      BY <2>2 DEF Deliver, Settle, Unlogged
    <3>3. result'[w] \notin Throws
      BY <1>u, <2>2 DEF Smooth, Deliver, Settle, Rest, Throws, TypeInv, WorkerTypeOK
    <3>4. \A v \in Workers : Smooth(v)'
      BY <1>u, <3>3 DEF Smooth, Xref!lookup
    <3>5. \A o \in Orders : Logged(o)' => Logged(o)
      BY <3>2
    <3>. QED  BY <1>u, <2>d, <3>1, <3>4, <3>5 DEF NoDeadLetters, Agrees, Xref!lookup
  <2>. QED  BY <1>1, <1>u, <2>1, <2>2
            DEF Handler, HandlerNext, Progress, WorkerStep, Crash, Overrun
<1>2. CASE SwitchConnection \/ UNCHANGED vars
  BY <1>0, <1>2 DEF SwitchConnection, vars, handlerVars, worker, records, bus, deadLetters
<1>3. ASSUME NEW p \in Orders, ClientStep(p)
      PROVE  UNCHANGED <<xref, ledger, pc, job, result, deadLetter, dlq>>
  <2>1. ~DlqHandler(p)
    BY <1>u DEF NoDeadLetters, DlqHandler, DlqRecord, DlqQuarantine, DlqAttempt, DlqFind,
                DlqUpsert, DlqFails
  <2>2. UNCHANGED <<deadLetter, dlq>>
    BY <1>3, <2>1 DEF ClientStep, Shopify, Webhook, Edit, Poller, PollLookup, PollEnqueue,
       PollFails, Operator, ReplayLookup, ReplayDelete, ReplayEnqueue, ReplayFails, FixDefect,
       deadLetters, enqueue, bus
  <2>3. UNCHANGED <<xref, ledger, pc, job, result>>
    BY <1>3, <1>u, <2>1, ClientFrame DEF NoReplay, ReplayDelete, DlqHandler
  <2>. QED  BY <2>2, <2>3
<1>. QED  BY <1>0, <1>1, <1>2, <1>3 DEF Next, ClientStep

(***************************************************************************)
(* The two tables an operator compares agree on every order nobody works   *)
(* on, although the handler writes them by separate statements: whatever   *)
(* is delivered twice, edited, polled or switched, each settled row has    *)
(* the ledger row of its status, until something fails, dies, overruns its *)
(* lock or is replayed.                                                    *)
(***************************************************************************)
THEOREM LedgerMatchesXref == Spec => []RecordsAgree
<1>1. Init => AgreeInv
  <2>. SUFFICES ASSUME Init
                PROVE  /\ NoDeadLetters
                       /\ \A w \in Workers : Smooth(w)
                       /\ \A o \in Orders : Agrees(o)
    BY DEF AgreeInv
  <2>1. NoDeadLetters
    BY DEF Init, HandlerInit, QueueInit, NoDeadLetters
  <2>2. \A w \in Workers : Smooth(w)
    BY DEF Init, HandlerInit, Smooth, Throws
  <2>3. ASSUME NEW o \in Orders
        PROVE  Agrees(o)
    <3>1. xref[o].status = "absent" /\ ledger[o].status = "absent"
      BY DEF Init, HandlerInit, Xref!XrefInit, Xref!NoRow
    <3>. QED  BY <3>1, LedgerOfStatuses DEF Agrees, Xref!lookup
  <2>. QED  BY <2>1, <2>2, <2>3
<1>2. TypeInv /\ SessionInv /\ StableInv /\ AgreeInv /\ [Next]_vars => AgreeInv'
  BY AgreeStep
<1>3. AgreeInv => RecordsAgree
  BY DEF AgreeInv, Agrees, Undisturbed, RecordsAgree
<1>. QED  BY <1>1, <1>2, <1>3, StableInvHolds, PTL DEF Spec

-----------------------------------------------------------------------------
(***************************************************************************)
(* NeverForgotten.  An order without a row that has been delivered is kept *)
(* by its message: the invocation that holds the session has not decided   *)
(* yet, or will give the message back, or another message is behind it.    *)
(* The dead-letter handler lets go of a message only once the order is     *)
(* quarantined.                                                            *)
(***************************************************************************)
Undecided == {"gate_lookup", "gate_ignore", "claim", "claim_read"}

GivesBack(w) == pc[w] \in Undecided \/ (pc[w] = "settle" /\ result[w] = "escaped")

KeptByQueue(o) ==
    /\ queue[o] # << >>
    /\ \A w \in Workers : lock[o] = w => GivesBack(w) \/ Len(queue[o]) >= 2

Saved(o) ==
    \/ Xref!Exists(o) \/ deadLetter[o] # << >>
    \/ replay[o] = "enqueue" \/ "quarantined" \in errors[o]

Handled(o) == (\E w \in Workers : job[w] = o) \/ attempts[o] # {}

DlqIsOrderly == \A o \in Orders : dlq[o] \in {"attempt", "find", "upsert"} => "quarantined" \in errors[o]

ForgottenInv ==
    /\ DlqIsOrderly
    /\ Unseen("switch") => enabled
    /\ Unseen("failure") /\ Unseen("switch") =>
          \A o \in Orders : Handled(o) => Saved(o) \/ KeptByQueue(o)

(* A lost session, or an abandoned message, goes back or is dead-lettered. *)
LEMMA ReleaseKeeps ==
  ASSUME TypeInv, NEW o \in Orders, lock[o] # Nobody, Release(o)
  PROVE  deadLetter'[o] # << >> \/ KeptByQueue(o)'
<1>. queue[o] # << >> /\ QueueTypeOK
  BY DEF TypeInv, MessagesInHand
<1>1. lock'[o] \notin Workers
  BY QueueAssumption DEF Release, QueueTypeOK
<1>2. CASE UNCHANGED <<queue, deadLetter>>
  BY <1>1, <1>2 DEF KeptByQueue
<1>3. CASE deadLetter' = [deadLetter EXCEPT ![o] = Append(@, Head(queue[o]))]
  <2>1. deadLetter[o] \in Seq(Message) /\ Head(queue[o]) \in Message
    BY DEF QueueTypeOK
  <2>2. Append(deadLetter[o], Head(queue[o])) # << >>
    BY <2>1, AppendProperties
  <2>. QED  BY <1>3, <2>2 DEF QueueTypeOK
<1>. QED  BY <1>2, <1>3 DEF Release

(* What is published stays ahead of whoever handles the head.              *)
LEMMA EnqueueKeeps ==
  ASSUME TypeInv, NEW o \in Orders, NEW body \in Body, enqueue(o, body)
  PROVE  KeptByQueue(o)'
<1>. DEFINE message == [body |-> body, deliveryCount |-> 0]
<1>1. queue[o] \in Seq(Message) /\ message \in Message /\ QueueTypeOK
  BY DEF TypeInv, QueueTypeOK, Message
<1>2. /\ Append(queue[o], message) # << >>
      /\ Len(Append(queue[o], message)) = Len(queue[o]) + 1
  BY <1>1, AppendProperties
<1>3. queue'[o] = Append(queue[o], message) /\ lock' = lock
  BY <1>1 DEF enqueue, QueueTypeOK
<1>4. lock[o] # Nobody => Len(queue[o]) >= 1
  BY <1>1, EmptySeq, LenProperties DEF TypeInv, MessagesInHand
<1>5. \A w \in Workers : w # Nobody
  BY QueueAssumption
<1>. QED  BY <1>1, <1>2, <1>3, <1>4, <1>5, LenProperties DEF KeptByQueue

LEMMA ForgottenWorkerStep ==
  ASSUME TypeInv, NEW w \in Workers, WorkerStep(w), ~Spend("failure"), GivesBack(w)
  PROVE  Xref!Exists(job[w])' \/ GivesBack(w)'
<1>. job[w] \in Orders /\ WorkerTypeOK /\ Xref!XrefTypeOK /\ RowsStay
  BY StepIsAtWork, WorkersKeepRows DEF TypeInv
<1>. job' = job /\ ~Fails(w)
  BY WorkerFrame, NoFailureNoFails
<1>. USE DEF GivesBack, Undecided, WorkerTypeOK
<1>1. CASE GateLookup(w)
  BY <1>1 DEF GateLookup, Await
<1>2. CASE MarkIgnored(w)
  BY <1>2, LookupMoves DEF MarkIgnored, Xref!Exists
<1>3. CASE Claim(w)
  BY <1>3, LookupMoves DEF Claim, Await, Xref!Exists
<1>4. CASE ClaimRead(w)
  <2>1. CASE Xref!Exists(job[w])
    BY <2>1 DEF RowsStay
  <2>2. CASE ~Xref!Exists(job[w])
    BY <1>4, <2>2, PermanentThrow DEF ClaimRead, InTry, Parking
  <2>. QED  BY <2>1, <2>2
<1>. QED  BY <1>1, <1>2, <1>3, <1>4
          DEF WorkerStep, LogIgnored, GetOrder, ResolveCustomer, BuildPayload, Upsert,
              RecordSuccess, LogImport, Tag, RecordTagError, RecordFailure, RecordError, LogPark,
              RecordAuthError, RecordAttempt, CallFails

(* What an order's queue promises, no step breaks that leaves the queue,   *)
(* its session and the session's holder alone.                             *)
LEMMA QueueKeeps ==
  ASSUME NEW o \in Orders, KeptByQueue(o), queue'[o] = queue[o], lock'[o] = lock[o],
         \A w \in Workers : lock[o] = w => pc'[w] = pc[w] /\ result'[w] = result[w]
  PROVE  KeptByQueue(o)'
BY DEF KeptByQueue, GivesBack

LEMMA ForgottenHandlerStep ==
  ASSUME TypeInv, SessionInv, Handler, enabled, ~Spend("failure"), NEW o \in Orders,
         Handled(o) => Saved(o) \/ KeptByQueue(o), Handled(o)'
  PROVE  Saved(o)' \/ KeptByQueue(o)'
<1>. /\ QueueTypeOK /\ WorkerTypeOK /\ RecordsTypeOK /\ UNCHANGED replay
     /\ UNCHANGED xref => Xref!Exists(o)' = Xref!Exists(o)
  BY DEF TypeInv, Handler, producers, Xref!Exists, Xref!lookup
<1>1. ASSUME NEW w \in Workers, WorkerStep(w)
      PROVE  Saved(o)' \/ KeptByQueue(o)'
  <2>. /\ UNCHANGED <<bus, job>> /\ RowsStay /\ errors[o] \subseteq errors'[o]
       /\ \A v \in Workers \ {w} : pc'[v] = pc[v] /\ result'[v] = result[v]
       /\ \A p \in Orders \ {job[w]} : attempts'[p] = attempts[p]
    BY <1>1, WorkerFrame, WorkersKeepRows
  <2>1. Handled(o)
    BY DEF Handled
  <2>2. CASE Saved(o)
    BY <2>2 DEF Saved, bus, RowsStay
  <2>3. CASE KeptByQueue(o) /\ lock[o] # w
    BY <2>3, QueueKeeps DEF bus
  <2>4. CASE KeptByQueue(o) /\ lock[o] = w
    <3>1. job[w] = o
      BY <2>4 DEF SessionInv
    <3>2. CASE GivesBack(w)
      <4>1. Xref!Exists(o)' \/ GivesBack(w)'
        BY <1>1, <3>1, <3>2, ForgottenWorkerStep
      <4>. QED  BY <2>4, <4>1 DEF KeptByQueue, Saved, bus
    <3>3. CASE ~GivesBack(w)
      BY <2>4, <3>3 DEF KeptByQueue, bus
    <3>. QED  BY <3>2, <3>3
  <2>. QED  BY <2>1, <2>2, <2>3, <2>4
<1>2. ASSUME NEW w \in Workers, NEW p \in Orders, Deliver(w, p)
      PROVE  Saved(o)' \/ KeptByQueue(o)'
  <2>1. lock[o] # w
    BY <1>2, HandlerAssumption DEF SessionInv, Deliver
  <2>2. CASE o = p
    <3>1. <<Delivered(Head(queue[o]))>> \o Tail(queue[o]) # << >>
      BY <1>2, <2>2 DEF Deliver, Receive
    <3>2. queue'[o] # << >> /\ lock'[o] = w
      BY <1>2, <2>2, <3>1 DEF Deliver, Receive, QueueTypeOK
    <3>3. GivesBack(w)'
      BY <1>2 DEF Deliver, GivesBack, Undecided, WorkerTypeOK
    <3>. QED  BY <3>2, <3>3 DEF KeptByQueue
  <2>3. CASE o # p
    <3>1. /\ queue'[o] = queue[o] /\ lock'[o] = lock[o] /\ UNCHANGED <<deadLetter, xref, records>>
          /\ \A v \in Workers \ {w} : pc'[v] = pc[v] /\ job'[v] = job[v] /\ result'[v] = result[v]
          /\ job'[w] = p
      BY <1>2, <2>3 DEF Deliver, Receive, QueueTypeOK, WorkerTypeOK
    <3>2. Handled(o)
      BY <2>3, <3>1 DEF Handled, records
    <3>3. CASE Saved(o)
      BY <3>1, <3>3 DEF Saved, records
    <3>4. CASE KeptByQueue(o)
      BY <2>1, <3>1, <3>4, QueueKeeps
    <3>. QED  BY <3>2, <3>3, <3>4
  <2>. QED  BY <2>2, <2>3
<1>3. ASSUME NEW w \in Workers, Settle(w) \/ Crash(w)
      PROVE  Saved(o)' \/ KeptByQueue(o)'
  <2>. job[w] \in Orders
    BY <1>3, StepIsAtWork
  <2>1. /\ UNCHANGED <<xref, records>> /\ job'[w] = NoOrder
        /\ \A v \in Workers \ {w} : pc'[v] = pc[v] /\ job'[v] = job[v] /\ result'[v] = result[v]
    BY <1>3 DEF Settle, Crash, Rest, WorkerTypeOK
  <2>2. Handled(o)
    BY <2>1, HandlerAssumption DEF Handled, records
  <2>3. \/ UNCHANGED bus /\ lock[job[w]] # w
        \/ lock[job[w]] = w /\ Release(job[w])
        \/ lock[job[w]] = w /\ Complete(job[w]) /\ ~GivesBack(w)
    BY <1>3 DEF Settle, Crash, GivesBack, Undecided, Throws
  <2>4. CASE Saved(o)
    <3>1. deadLetter[o] # << >> => deadLetter'[o] # << >>
      <4>1. CASE UNCHANGED deadLetter
        BY <4>1
      <4>2. CASE lock[job[w]] = w /\ Release(job[w])
        <5>1. queue[job[w]] # << >>
          BY <4>2, QueueAssumption DEF TypeInv, MessagesInHand
        <5>2. deadLetter[job[w]] \in Seq(Message) /\ Head(queue[job[w]]) \in Message
          BY <5>1 DEF QueueTypeOK
        <5>3. Append(deadLetter[job[w]], Head(queue[job[w]])) # << >>
          BY <5>2, AppendProperties
        <5>. QED  BY <4>2, <5>3 DEF QueueTypeOK, Release
      <4>. QED  BY <2>3, <4>1, <4>2 DEF bus, Complete
    <3>. QED  BY <2>1, <2>4, <3>1 DEF Saved, records
  <2>5. CASE KeptByQueue(o) /\ o # job[w]
    <3>1. queue'[o] = queue[o] /\ lock'[o] = lock[o]
      BY <2>3, <2>5 DEF bus, Complete, Release, QueueTypeOK
    <3>2. lock[o] # w
      BY <2>5 DEF SessionInv
    <3>. QED  BY <2>1, <2>5, <3>1, <3>2, QueueKeeps
  <2>6. CASE KeptByQueue(o) /\ o = job[w]
    <3>1. CASE UNCHANGED bus /\ lock[o] # w
      BY <2>1, <2>6, <3>1, QueueKeeps DEF bus
    <3>2. CASE lock[o] = w /\ Release(o)
      BY <3>2, QueueAssumption, ReleaseKeeps DEF Saved
    <3>3. CASE lock[o] = w /\ Complete(o) /\ ~GivesBack(w)
      <4>1. queue[o] \in Seq(Message) /\ Len(queue[o]) >= 2
        BY <2>6, <3>3 DEF KeptByQueue, QueueTypeOK
      <4>2. Len(Tail(queue[o])) = Len(queue[o]) - 1
        BY <4>1, EmptySeq, HeadTailProperties
      <4>3. Tail(queue[o]) # << >>
        <5>1. Tail(queue[o]) = << >> => Len(Tail(queue[o])) = 0
          BY EmptySeq
        <5>2. Len(queue[o]) \in Nat
          BY <4>1, LenProperties
        <5>3. Len(queue[o]) - 1 # 0
          <6>1. \A n \in Nat : n >= 2 => n - 1 # 0
            OBVIOUS
          <6>. QED  BY <4>1, <5>2, <6>1, Zenon
        <5>. QED  BY <4>2, <5>1, <5>3, Zenon
      <4>4. queue'[o] = Tail(queue[o]) /\ lock'[o] = Nobody
        BY <3>3 DEF Complete, QueueTypeOK
      <4>. QED  BY <4>3, <4>4, QueueAssumption DEF KeptByQueue
    <3>. QED  BY <2>3, <2>6, <3>1, <3>2, <3>3
  <2>. QED  BY <2>2, <2>4, <2>5, <2>6
<1>4. ASSUME NEW p \in Orders, Overrun(p)
      PROVE  Saved(o)' \/ KeptByQueue(o)'
  <2>1. UNCHANGED <<xref, records, worker>> /\ Release(p) /\ lock[p] # Nobody
    BY <1>4 DEF Overrun
  <2>2. Handled(o)
    BY <2>1 DEF Handled, records, worker
  <2>3. CASE o = p
    BY <2>1, <2>2, <2>3, ReleaseKeeps DEF Saved
  <2>4. CASE o # p
    <3>1. queue'[o] = queue[o] /\ lock'[o] = lock[o] /\ deadLetter'[o] = deadLetter[o]
      BY <2>1, <2>4 DEF Release, QueueTypeOK
    <3>. QED  BY <2>1, <2>2, <3>1, QueueKeeps DEF Saved, records, worker
  <2>. QED  BY <2>3, <2>4
<1>. QED  BY <1>1, <1>2, <1>3, <1>4 DEF Handler, HandlerNext, Progress, WorkerStep

(* What the clients do to the queue: they publish, and the dead-letter     *)
(* handler acknowledges what it has quarantined.                           *)
LEMMA ClientQueues ==
  ASSUME ClientsTypeOK, NEW p \in Orders, ClientStep(p)
  PROVE  /\ UNCHANGED lock
         /\ \/ \E body \in Body : enqueue(p, body)
            \/ UNCHANGED queue /\ DlqReturn(p) /\ dlq[p] \in {"find", "upsert"}
            \/ UNCHANGED <<queue, deadLetter>>
         /\ \A o \in Orders \ {p} : replay'[o] = replay[o]
         /\ replay[p] = "enqueue" =>
              \/ replay'[p] = "enqueue"
              \/ Spend("failure")
              \/ \E body \in Body : enqueue(p, body)
<1>1. CASE Shopify(p)
  BY <1>1 DEF Shopify, Webhook, Edit, enqueue, bus, Body, producers
<1>2. CASE Poller(p)
  BY <1>2 DEF Poller, PollLookup, PollEnqueue, PollFails, enqueue, bus, Body
<1>3. CASE Operator(p)
  <2>1. CASE ReplayEnqueue(p)
    <3>1. [topic |-> "updated", source |-> "replay"] \in Body
      BY DEF Body
    <3>. QED  BY <2>1, <3>1 DEF ReplayEnqueue, enqueue, ClientsTypeOK
  <2>2. ASSUME NEW force \in BOOLEAN, ReplayLookup(p, force)
        PROVE  /\ UNCHANGED bus /\ replay[p] = "idle"
               /\ \A o \in Orders \ {p} : replay'[o] = replay[o]
    BY <2>2 DEF ReplayLookup, ClientsTypeOK
  <2>3. CASE ReplayDelete(p) \/ ReplayFails(p) \/ FixDefect(p)
    BY <2>3 DEF ReplayDelete, ReplayFails, FixDefect, bus, producers, ClientsTypeOK
  <2>. QED  BY <1>3, <2>1, <2>2, <2>3 DEF Operator, bus
<1>4. CASE DlqHandler(p)
  BY <1>4 DEF DlqHandler, DlqRecord, DlqQuarantine, DlqAttempt, DlqFind, DlqUpsert, DlqFails,
              DlqReturn, bus, producers
<1>. QED  BY <1>1, <1>2, <1>3, <1>4 DEF ClientStep

LEMMA ForgottenClientStep ==
  ASSUME TypeInv, NEW p \in Orders, ClientStep(p), DlqIsOrderly, ~Spend("failure"),
         NEW o \in Orders, Handled(o) => Saved(o) \/ KeptByQueue(o), Handled(o)'
  PROVE  Saved(o)' \/ KeptByQueue(o)'
<1>0. /\ UNCHANGED <<pc, job, result>>
      /\ UNCHANGED attempts \/ DlqAttempt(p)
      /\ "quarantined" \in errors[o] => "quarantined" \in errors'[o]
  BY ClientFrame
<1>1. CASE "quarantined" \in errors[o]
  BY <1>0, <1>1 DEF Saved
<1>2. CASE o = p /\ \E body \in Body : enqueue(p, body)
  BY <1>2, EnqueueKeeps
<1>3. CASE o = p /\ ReplayDelete(p)
  BY <1>3 DEF ReplayDelete, Saved, TypeInv, ClientsTypeOK
<1>4. ASSUME "quarantined" \notin errors[o],
             ~(o = p /\ \E body \in Body : enqueue(p, body)), ~(o = p /\ ReplayDelete(p))
      PROVE  Saved(o)' \/ KeptByQueue(o)'
  <2>1. Handled(o)
    BY <1>0, <1>4 DEF Handled, DlqAttempt, DlqIsOrderly, TypeInv, RecordsTypeOK
  <2>2. queue'[o] = queue[o] /\ lock'[o] = lock[o] /\ deadLetter'[o] = deadLetter[o]
    BY <1>4, ClientQueues DEF DlqIsOrderly, DlqReturn, enqueue, TypeInv, QueueTypeOK
  <2>3. replay[o] = "enqueue" => replay'[o] = "enqueue"
    BY <1>4, ClientQueues DEF TypeInv
  <2>4. Xref!Exists(o) => Xref!Exists(o)'
    <3>1. CASE UNCHANGED xref
      BY <3>1 DEF Xref!Exists, Xref!lookup
    <3>2. CASE ReplayDelete(p) /\ o # p
      BY <3>2, LookupMoves DEF ReplayDelete, OthersKeepRows, TypeInv, Xref!Exists
    <3>. QED  BY <1>4, <3>1, <3>2, ClientFrame
  <2>5. CASE Saved(o)
    BY <1>4, <2>2, <2>3, <2>4, <2>5 DEF Saved
  <2>6. CASE KeptByQueue(o)
    BY <1>0, <2>2, <2>6, QueueKeeps
  <2>. QED  BY <2>1, <2>5, <2>6
<1>. QED  BY <1>1, <1>2, <1>3, <1>4

LEMMA ForgottenStep ==
  ASSUME TypeInv, SessionInv, ForgottenInv, [Next]_vars
  PROVE  ForgottenInv'
<1>. TypeInv /\ RecordsTypeOK /\ ClientsTypeOK
  BY DEF TypeInv
<1>1. DlqIsOrderly'
  <2>. DlqIsOrderly
    BY DEF ForgottenInv
  <2>1. CASE Handler
    <3>1. \A o \in Orders : errors[o] \subseteq errors'[o]
      BY <2>1, WorkerFrame, HostFrame, OverrunFrame
         DEF Handler, HandlerNext, Progress, WorkerStep
    <3>. QED  BY <2>1, <3>1 DEF DlqIsOrderly, Handler, deadLetters
  <2>2. CASE SwitchConnection \/ UNCHANGED vars
    BY <2>2 DEF SwitchConnection, vars, handlerVars, records, deadLetters, DlqIsOrderly
  <2>3. ASSUME NEW p \in Orders, ClientStep(p)
        PROVE  DlqIsOrderly'
    <3>. SUFFICES ASSUME NEW o \in Orders, dlq'[o] \in {"attempt", "find", "upsert"}
                  PROVE  "quarantined" \in errors'[o]
      BY DEF DlqIsOrderly
    <3>1. "quarantined" \in errors[o] => "quarantined" \in errors'[o]
      BY <2>3, ClientFrame
    <3>2. dlq[o] \in {"attempt", "find", "upsert"} \/ (o = p /\ DlqQuarantine(p))
      <4>1. CASE DlqHandler(p)
        <5>1. \E step : /\ dlq' = [dlq EXCEPT ![p] = step]
                        /\ \/ step \in {"quarantine", "idle"}
                           \/ dlq[p] \in {"attempt", "find"}
                           \/ DlqQuarantine(p)
          BY <4>1 DEF DlqHandler, DlqRecord, DlqQuarantine, DlqAttempt, DlqFind, DlqUpsert,
                      DlqFails, DlqReturn, DlqGoto
        <5>. QED  BY <5>1 DEF ClientsTypeOK
      <4>2. CASE UNCHANGED deadLetters
        BY <4>2 DEF deadLetters
      <4>. QED  BY <2>3, <4>1, <4>2
                DEF ClientStep, Shopify, Webhook, Edit, Poller, PollLookup, PollEnqueue,
                    PollFails, Operator, ReplayLookup, ReplayDelete, ReplayEnqueue, ReplayFails,
                    FixDefect
    <3>. QED  BY <3>1, <3>2 DEF DlqIsOrderly, DlqQuarantine, RecordsTypeOK
  <2>. QED  BY <2>1, <2>2, <2>3 DEF Next, ClientStep
<1>2. Unseen("switch")' => enabled'
  <2>. SUFFICES ASSUME Unseen("switch")'
                PROVE  enabled'
    OBVIOUS
  <2>1. enabled /\ ~Spend("switch")
    BY UnseenEvent DEF ForgottenInv, Events
  <2>2. UNCHANGED enabled \/ SwitchConnection
    <3>1. CASE Handler
      BY <3>1, WorkerFrame, HostFrame, OverrunFrame DEF Handler, HandlerNext, Progress, WorkerStep
    <3>2. CASE UNCHANGED vars
      BY <3>2 DEF vars, handlerVars, shopify
    <3>3. ASSUME NEW p \in Orders, ClientStep(p)
          PROVE  UNCHANGED enabled
      BY <3>3, ClientFrame
    <3>. QED  BY <3>1, <3>2, <3>3 DEF Next, ClientStep
  <2>3. UNCHANGED enabled
    BY <2>1, <2>2, Zenon DEF SwitchConnection
  <2>. QED  BY <2>1, <2>3, Zenon
<1>3. ASSUME Unseen("failure")', Unseen("switch")', NEW o \in Orders, Handled(o)'
      PROVE  Saved(o)' \/ KeptByQueue(o)'
  <2>1. /\ enabled /\ ~Spend("failure") /\ ~Spend("switch")
        /\ Handled(o) => Saved(o) \/ KeptByQueue(o)
    BY <1>3, UnseenEvent DEF ForgottenInv, Events
  <2>2. CASE Handler
    BY <1>3, <2>1, <2>2, ForgottenHandlerStep
  <2>3. CASE UNCHANGED vars
    <3>1. UNCHANGED <<xref, queue, lock, deadLetter, replay, errors, attempts, pc, job, result>>
      BY <2>3 DEF vars, handlerVars, bus, records, worker, producers
    <3>2. Handled(o)
      BY <1>3, <3>1 DEF Handled
    <3>3. Saved(o) => Saved(o)'
      BY <3>1 DEF Saved, Xref!Exists, Xref!lookup
    <3>. QED  BY <2>1, <3>1, <3>2, <3>3, QueueKeeps
  <2>4. ASSUME NEW p \in Orders, ClientStep(p)
        PROVE  Saved(o)' \/ KeptByQueue(o)'
    BY <1>3, <2>1, <2>4, ForgottenClientStep DEF ForgottenInv
  <2>. QED  BY <2>1, <2>2, <2>3, <2>4 DEF Next, ClientStep, SwitchConnection
<1>. QED  BY <1>1, <1>2, <1>3 DEF ForgottenInv

(***************************************************************************)
(* Whatever is delivered twice, dies, overruns its lock or is replayed, an *)
(* order that an invocation once took off the queue has a row, or a        *)
(* message that is queued, dead-lettered or about to be published again,   *)
(* until it is quarantined, unless a call failed or the connection was     *)
(* switched.                                                               *)
(***************************************************************************)
THEOREM NothingIsForgotten == Spec => []NeverForgotten
<1>1. Init => ForgottenInv
  BY HandlerAssumption
     DEF Init, HandlerInit, ForgottenInv, DlqIsOrderly, Handled
<1>2. TypeInv /\ SessionInv /\ ForgottenInv /\ [Next]_vars => ForgottenInv'
  BY ForgottenStep
<1>3. ForgottenInv => NeverForgotten
  BY DEF ForgottenInv, Handled, Saved, KeptByQueue, NeverForgotten
<1>. QED  BY <1>1, <1>2, <1>3, SessionInvHolds, PTL DEF Spec

=============================================================================
