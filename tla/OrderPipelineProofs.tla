------------------------- MODULE OrderPipelineProofs -------------------------
(***************************************************************************)
(* Theorems about OrderPipeline, for any set of orders and workers, any    *)
(* delivery limit and any budget of events: its types, what it imports,    *)
(* who has a session, and that it implements ImportClaims.                 *)
(***************************************************************************)
EXTENDS OrderPipeline, SequenceTheorems, TLAPS

(***************************************************************************)
(* The queue.                                                              *)
(***************************************************************************)
LEMMA EnqueueType ==
  ASSUME QueueTypeOK, NEW o \in Orders, NEW body \in Body, enqueue(o, body)
  PROVE  QueueTypeOK'
<1>1. [body |-> body, deliveryCount |-> 0] \in Message
  BY DEF Message
<1>2. Append(queue[o], [body |-> body, deliveryCount |-> 0]) \in Seq(Message)
  BY <1>1 DEF QueueTypeOK
<1>. QED  BY <1>2 DEF QueueTypeOK, enqueue

LEMMA ReceiveType ==
  ASSUME QueueTypeOK, NEW o \in Orders, NEW w \in Workers, Receive(w, o)
  PROVE  QueueTypeOK'
<1>1. /\ Head(queue[o]) \in Message
      /\ Tail(queue[o]) \in Seq(Message)
  BY DEF QueueTypeOK, Receive
<1>2. Delivered(Head(queue[o])) \in Message
  BY <1>1 DEF Message, Delivered
<1>3. <<Delivered(Head(queue[o]))>> \o Tail(queue[o]) \in Seq(Message)
  BY <1>1, <1>2
<1>. QED  BY <1>3 DEF QueueTypeOK, Receive

LEMMA CompleteType ==
  ASSUME QueueTypeOK, NEW o \in Orders, queue[o] # << >>, Complete(o)
  PROVE  QueueTypeOK'
<1>1. Tail(queue[o]) \in Seq(Message)
  BY DEF QueueTypeOK
<1>. QED  BY <1>1 DEF QueueTypeOK, Complete

LEMMA ReleaseType ==
  ASSUME QueueTypeOK, NEW o \in Orders, queue[o] # << >>, Release(o)
  PROVE  QueueTypeOK'
<1>1. /\ Head(queue[o]) \in Message
      /\ Tail(queue[o]) \in Seq(Message)
  BY DEF QueueTypeOK
<1>2. Append(deadLetter[o], Head(queue[o])) \in Seq(Message)
  BY <1>1 DEF QueueTypeOK
<1>. QED  BY <1>1, <1>2 DEF QueueTypeOK, Release

-----------------------------------------------------------------------------
(***************************************************************************)
(* Type correctness.  TypeOK is inductive only with what keeps Head and    *)
(* Tail off empty sequences, a session that is held has a message and the  *)
(* dead-letter handler has one while it runs, and with the facts that a    *)
(* worker that is not idle has an order, and one that is about to record   *)
(* its attempt an outcome.                                                 *)
(***************************************************************************)
WorkerTypeOK ==
    /\ pc \in [Workers -> PCs]
    /\ job \in [Workers -> Orders \cup {NoOrder}]
    /\ result \in [Workers -> Results]
    /\ budget \in [Events -> Nat]
    /\ \A w \in Workers :
          /\ pc[w] # "idle" => job[w] \in Orders
          /\ pc[w] = "record_attempt" => result[w] \in Outcomes

RecordsTypeOK ==
    /\ ledger \in [Orders -> LedgerRow]
    /\ errors \in [Orders -> SUBSET ErrorKinds]
    /\ attempts \in [Orders -> SUBSET Outcomes]

OutsideTypeOK ==
    /\ enabled \in BOOLEAN
    /\ shop \in [Orders -> ShopStates]
    /\ defect \in [Orders -> Defects]
    /\ nsCustomers \subseteq Orders
    /\ nsTransactions \subseteq Orders

ClientsTypeOK ==
    /\ poll \in [Orders -> PollSteps]
    /\ replay \in [Orders -> ReplaySteps]
    /\ dlq \in [Orders -> DlqSteps]
    /\ dlqRead \in [Orders -> LedgerStatuses]

MessagesInHand ==
    /\ \A o \in Orders : lock[o] # Nobody => queue[o] # << >>
    /\ \A o \in Orders : dlq[o] # "idle" => deadLetter[o] # << >>

TypeInv ==
    /\ QueueTypeOK /\ Xref!XrefTypeOK /\ OutsideTypeOK /\ RecordsTypeOK
    /\ WorkerTypeOK /\ ClientsTypeOK /\ MessagesInHand

LEMMA TypeInvImpliesTypeOK == TypeInv => TypeOK
BY DEF TypeInv, TypeOK, HandlerTypeOK, OutsideTypeOK, RecordsTypeOK, WorkerTypeOK, ClientsTypeOK

(* How a step ends, for a worker that is at work on an order.              *)
LEMMA AwaitType ==
  ASSUME WorkerTypeOK, NEW w \in Workers, job[w] \in Orders, NEW call \in PCs,
         call # "record_attempt", Await(w, call)
  PROVE  WorkerTypeOK'
BY DEF WorkerTypeOK, Await

LEMMA FinishType ==
  ASSUME WorkerTypeOK, NEW w \in Workers, job[w] \in Orders,
         NEW outcome \in Outcomes, Finish(w, outcome)
  PROVE  WorkerTypeOK'
BY DEF WorkerTypeOK, Finish, PCs, Results

LEMMA ThrowType ==
  ASSUME WorkerTypeOK, NEW w \in Workers, job[w] \in Orders, NEW errorClass,
         Throw(w, errorClass), budget' \in [Events -> Nat]
  PROVE  WorkerTypeOK'
<1>. {"record_attempt", "record_auth", "record_failure", "settle"} \subseteq PCs
  BY DEF PCs, Parking
<1>. {"transient_throw", "caught", "escaped"} \subseteq Results /\ "transient_throw" \in Outcomes
  BY DEF Results, Outcomes
<1>1. CASE Escape(w)
  BY <1>1 DEF WorkerTypeOK, Escape
<1>2. CASE Catch(w, errorClass)
  BY <1>2 DEF WorkerTypeOK, Catch
<1>3. CASE Rethrow(w)
  BY <1>3 DEF WorkerTypeOK, Rethrow
<1>. QED  BY <1>1, <1>2, <1>3 DEF Throw

LEMMA SpendType ==
  ASSUME budget \in [Events -> Nat], NEW event \in Events, Spend(event)
  PROVE  budget' \in [Events -> Nat]
BY DEF Spend

LEMMA FailsType ==
  ASSUME WorkerTypeOK, NEW w \in Workers, job[w] \in Orders, Fails(w)
  PROVE  WorkerTypeOK'
<1>1. budget' \in [Events -> Nat]
  BY SpendType DEF WorkerTypeOK, Fails, Events
<1>. QED  BY <1>1, ThrowType DEF Fails

(* The statements on entity_xref.                                          *)
LEMMA XrefStepType ==
  ASSUME Xref!XrefTypeOK, NEW o \in Orders,
         \/ Xref!InsertPending(o) \/ Xref!recordSuccess(o) \/ Xref!recordFailure(o)
         \/ Xref!markIgnored(o) \/ Xref!delete(o) \/ UNCHANGED xref
  PROVE  Xref!XrefTypeOK'
<1>. USE DEF Xref!XrefTypeOK, Xref!Row, Xref!RowStatuses
<1>1. \A status \in Xref!RowStatuses : [xref[o] EXCEPT !.status = status] \in Xref!Row
  OBVIOUS
<1>2. CASE Xref!InsertPending(o) \/ Xref!recordSuccess(o) \/ Xref!delete(o) \/ UNCHANGED xref
  <2>1. PICK row \in Xref!Row : xref' = [xref EXCEPT ![o] = row] \/ xref' = xref
    BY <1>2 DEF Xref!NoRow, Xref!InsertPending, Xref!recordSuccess, Xref!delete
  <2>. QED  BY <2>1
<1>3. CASE Xref!recordFailure(o) \/ Xref!markIgnored(o)
  <2>1. PICK status \in Xref!RowStatuses :
           xref' = [xref EXCEPT ![o] = [xref[o] EXCEPT !.status = status]]
    BY <1>3, Zenon DEF Xref!recordFailure, Xref!markIgnored
  <2>. QED  BY <1>1, <2>1
<1>. QED  BY <1>2, <1>3

LEMMA LedgerWriteType ==
  ASSUME ledger \in [Orders -> LedgerRow], NEW o \in Orders,
         NEW status \in LedgerStatuses, LedgerWrite(o, status)
  PROVE  ledger' \in [Orders -> LedgerRow]
BY DEF LedgerRow, LedgerWrite, LedgerUpsert

LEMMA ErrorRecordType ==
  ASSUME errors \in [Orders -> SUBSET ErrorKinds], NEW o \in Orders,
         NEW kind \in ErrorKinds, ErrorRecord(o, kind)
  PROVE  errors' \in [Orders -> SUBSET ErrorKinds]
BY DEF ErrorRecord

LEMMA ClaimOutcomeType ==
  ASSUME Xref!XrefTypeOK, NEW o \in Orders, Xref!Exists(o)
  PROVE  Xref!ClaimOutcome(Xref!lookup(o)) \in {"already_synced", "ignored", "already_claimed"}
<1>1. Xref!lookup(o) \in {"pending", "synced", "ignored", "error"}
  BY DEF Xref!XrefTypeOK, Xref!Row, Xref!RowStatuses, Xref!Exists, Xref!lookup
<1>. QED  BY <1>1 DEF Xref!ClaimOutcome

(***************************************************************************)
(* The steps of a worker, other than delivery and settlement, leave the    *)
(* queue and the clients alone; each needs its own types only.             *)
(***************************************************************************)
WorkerStep(w) ==
    \/ GateLookup(w) \/ MarkIgnored(w) \/ LogIgnored(w) \/ Claim(w) \/ ClaimRead(w)
    \/ GetOrder(w) \/ ResolveCustomer(w) \/ BuildPayload(w) \/ Upsert(w)
    \/ RecordSuccess(w) \/ LogImport(w) \/ Tag(w) \/ RecordTagError(w)
    \/ RecordFailure(w) \/ RecordError(w) \/ LogPark(w) \/ RecordAuthError(w)
    \/ RecordAttempt(w) \/ CallFails(w)

LEMMA StepIsAtWork ==
  ASSUME TypeInv, NEW w \in Workers, WorkerStep(w) \/ Settle(w) \/ Crash(w)
  PROVE  pc[w] # "idle" /\ job[w] \in Orders
<1>1. pc[w] # "idle"
  BY DEF WorkerStep, GateLookup, MarkIgnored, LogIgnored, Claim, ClaimRead, GetOrder,
         ResolveCustomer, BuildPayload, Upsert, RecordSuccess, LogImport, Tag,
         RecordTagError, RecordFailure, RecordError, LogPark, RecordAuthError,
         RecordAttempt, CallFails, Fails, Throw, Settle, Crash, BeforeClaim, InTry, Parking
<1>. QED  BY <1>1 DEF TypeInv, WorkerTypeOK

LEMMA WorkerStepType ==
  ASSUME TypeInv, NEW w \in Workers, WorkerStep(w)
  PROVE  /\ Xref!XrefTypeOK' /\ OutsideTypeOK' /\ RecordsTypeOK' /\ WorkerTypeOK'
         /\ UNCHANGED bus
<1>. job[w] \in Orders /\ pc[w] # "idle"
  BY StepIsAtWork
<1>. Xref!XrefTypeOK /\ OutsideTypeOK /\ RecordsTypeOK /\ WorkerTypeOK
  BY DEF TypeInv
<1>. USE DEF OutsideTypeOK, RecordsTypeOK, shopify, netsuite, records
<1>p. \A call \in BeforeClaim \cup InTry \cup Parking \cup {"tag"} : call \in PCs
  BY DEF PCs
<1>r. \A outcome \in Outcomes : outcome \in Results
  BY DEF Results
<1>1. CASE GateLookup(w)
  <2>1. {"claim", "gate_ignore"} \subseteq PCs
    BY <1>p DEF BeforeClaim, InTry, Parking
  <2>2. WorkerTypeOK'
    BY <1>1, <2>1, AwaitType DEF GateLookup
  <2>. QED  BY <1>1, <2>2 DEF GateLookup, Xref!XrefTypeOK
<1>2. CASE MarkIgnored(w)
  <2>1. {"gate_log", "ignore_log"} \subseteq PCs
    BY <1>p DEF BeforeClaim, InTry, Parking
  <2>2. WorkerTypeOK'
    BY <1>2, <2>1, AwaitType, FailsType DEF MarkIgnored
  <2>. QED  BY <1>2, <2>2, XrefStepType DEF MarkIgnored
<1>3. CASE LogIgnored(w)
  <2>1. {"ignored_by_eligibility"} \subseteq Outcomes
    BY DEF Outcomes
  <2>2. WorkerTypeOK'
    BY <1>3, <2>1, FinishType, FailsType DEF LogIgnored
  <2>. QED  BY <1>3, <2>2, XrefStepType, LedgerWriteType DEF LogIgnored, LedgerStatuses
<1>4. CASE Claim(w)
  <2>1. {"get_order", "claim_read"} \subseteq PCs
    BY <1>p DEF BeforeClaim, InTry, Parking
  <2>2. WorkerTypeOK'
    BY <1>4, <2>1, AwaitType, FailsType DEF Claim
  <2>. QED  BY <1>4, <2>2, XrefStepType DEF Claim
<1>5. CASE ClaimRead(w)
  <2>1. WorkerTypeOK'
    BY <1>5, FinishType, ClaimOutcomeType, ThrowType DEF ClaimRead, WorkerTypeOK, Outcomes
  <2>. QED  BY <1>5, <2>1 DEF ClaimRead, Xref!XrefTypeOK
<1>6. CASE GetOrder(w)
  <2>1. {"ignore", "customer"} \subseteq PCs
    BY <1>p DEF BeforeClaim, InTry, Parking
  <2>2. WorkerTypeOK'
    BY <1>6, <2>1, AwaitType, ThrowType DEF GetOrder, WorkerTypeOK
  <2>. QED  BY <1>6, <2>2 DEF GetOrder, Xref!XrefTypeOK
<1>7. CASE ResolveCustomer(w)
  <2>1. {"resolve"} \subseteq PCs
    BY <1>p DEF BeforeClaim, InTry, Parking
  <2>2. WorkerTypeOK'
    BY <1>7, <2>1, AwaitType, FailsType DEF ResolveCustomer
  <2>. QED  BY <1>7, <2>2 DEF ResolveCustomer, Xref!XrefTypeOK
<1>8. CASE BuildPayload(w)
  <2>1. {"upsert", "record_failure"} \subseteq PCs
    BY <1>p DEF BeforeClaim, InTry, Parking
  <2>2. WorkerTypeOK'
    BY <1>8, <2>1, AwaitType DEF BuildPayload
  <2>. QED  BY <1>8, <2>2 DEF BuildPayload, Xref!XrefTypeOK
<1>9. CASE Upsert(w)
  <2>1. {"record_success"} \subseteq PCs
    BY <1>p DEF BeforeClaim, InTry, Parking
  <2>2. WorkerTypeOK'
    BY <1>9, <2>1, AwaitType, FailsType DEF Upsert
  <2>. QED  BY <1>9, <2>2 DEF Upsert, Xref!XrefTypeOK
<1>10. CASE RecordSuccess(w)
  <2>1. {"log_import"} \subseteq PCs
    BY <1>p DEF BeforeClaim, InTry, Parking
  <2>2. WorkerTypeOK'
    BY <1>10, <2>1, AwaitType, FailsType, ThrowType DEF RecordSuccess, WorkerTypeOK
  <2>. QED  BY <1>10, <2>2, XrefStepType DEF RecordSuccess
<1>11. CASE LogImport(w)
  <2>1. {"tag"} \subseteq PCs
    BY <1>p DEF BeforeClaim, InTry, Parking
  <2>2. {"imported"} \subseteq Outcomes
    BY DEF Outcomes
  <2>3. WorkerTypeOK'
    BY <1>11, <2>1, <2>2, AwaitType, FinishType, FailsType DEF LogImport
  <2>. QED  BY <1>11, <2>3, XrefStepType, LedgerWriteType DEF LogImport, LedgerStatuses
<1>12. CASE Tag(w)
  <2>1. {"tag_record", "record_attempt"} \subseteq PCs /\ "imported" \in Outcomes
    BY DEF PCs, InTry, Outcomes
  <2>2. WorkerTypeOK'
    BY <1>12, <2>1, FinishType, SpendType DEF Tag, WorkerTypeOK, Events
  <2>. QED  BY <1>12, <2>2 DEF Tag, Xref!XrefTypeOK
<1>13. CASE RecordTagError(w)
  <2>1. {"imported"} \subseteq Outcomes
    BY DEF Outcomes
  <2>2. WorkerTypeOK'
    BY <1>13, <2>1, FinishType, FailsType DEF RecordTagError
  <2>. QED  BY <1>13, <2>2, XrefStepType, ErrorRecordType DEF RecordTagError, ErrorKinds
<1>14. CASE RecordFailure(w)
  <2>1. {"record_error"} \subseteq PCs
    BY <1>p DEF BeforeClaim, InTry, Parking
  <2>2. WorkerTypeOK'
    BY <1>14, <2>1, AwaitType, FailsType, ThrowType DEF RecordFailure, WorkerTypeOK
  <2>. QED  BY <1>14, <2>2, XrefStepType DEF RecordFailure
<1>15. CASE RecordError(w)
  <2>1. {"log_park"} \subseteq PCs
    BY <1>p DEF BeforeClaim, InTry, Parking
  <2>2. WorkerTypeOK'
    BY <1>15, <2>1, AwaitType, FailsType DEF RecordError
  <2>. QED  BY <1>15, <2>2, XrefStepType, ErrorRecordType DEF RecordError, ErrorKinds
<1>16. CASE LogPark(w)
  <2>1. {"parked"} \subseteq Outcomes
    BY DEF Outcomes
  <2>2. WorkerTypeOK'
    BY <1>16, <2>1, FinishType, FailsType DEF LogPark
  <2>. QED  BY <1>16, <2>2, XrefStepType, LedgerWriteType DEF LogPark, LedgerStatuses
<1>17. CASE RecordAuthError(w)
  <2>1. {"auth_throw"} \subseteq Outcomes
    BY DEF Outcomes
  <2>2. WorkerTypeOK'
    BY <1>17, <2>1, FinishType, FailsType DEF RecordAuthError
  <2>. QED  BY <1>17, <2>2, XrefStepType, ErrorRecordType DEF RecordAuthError, ErrorKinds
<1>18. CASE RecordAttempt(w)
  <2>1. "settle" \in PCs
    BY DEF PCs
  <2>2. WorkerTypeOK'
    BY <1>18, <2>1, SpendType DEF RecordAttempt, WorkerTypeOK, Events
  <2>3. result[w] \in Outcomes
    BY <1>18 DEF RecordAttempt, WorkerTypeOK
  <2>. QED  BY <1>18, <2>2, <2>3 DEF RecordAttempt, Xref!XrefTypeOK
<1>19. CASE CallFails(w)
  <2>1. WorkerTypeOK'
    BY <1>19, FailsType DEF CallFails
  <2>. QED  BY <1>19, <2>1 DEF CallFails, Xref!XrefTypeOK
<1>. QED  BY <1>1, <1>2, <1>3, <1>4, <1>5, <1>6, <1>7, <1>8, <1>9, <1>10, <1>11, <1>12, <1>13, <1>14, <1>15, <1>16, <1>17, <1>18, <1>19 DEF WorkerStep
(* The queue's own steps also keep a message under every lock.             *)
LEMMA BusStepType ==
  ASSUME QueueTypeOK, MessagesInHand, NEW o \in Orders, UNCHANGED dlq,
         \/ \E body \in Body : enqueue(o, body)
         \/ \E w \in Workers : Receive(w, o)
         \/ lock[o] # Nobody /\ (Complete(o) \/ Release(o))
         \/ UNCHANGED bus
  PROVE  QueueTypeOK' /\ MessagesInHand'
<1>. USE DEF QueueTypeOK, MessagesInHand
<1>1. CASE \E body \in Body : enqueue(o, body)
  <2>. PICK body \in Body : enqueue(o, body)
    BY <1>1
  <2>1. [body |-> body, deliveryCount |-> 0] \in Message
    BY DEF Message
  <2>2. queue[o] \in Seq(Message)
    OBVIOUS
  <2>3. Append(queue[o], [body |-> body, deliveryCount |-> 0]) # << >>
    BY <2>1, <2>2, AppendProperties
  <2>. QED  BY <2>3, EnqueueType DEF enqueue
<1>2. CASE \E w \in Workers : Receive(w, o)
  <2>. PICK w \in Workers : Receive(w, o)
    BY <1>2
  <2>1. <<Delivered(Head(queue[o]))>> \o Tail(queue[o]) # << >>
    BY DEF Receive
  <2>. QED  BY <2>1, ReceiveType DEF Receive
<1>3. CASE lock[o] # Nobody /\ Complete(o)
  BY <1>3, CompleteType DEF Complete
<1>4. CASE lock[o] # Nobody /\ Release(o)
  <2>1. Append(deadLetter[o], Head(queue[o])) # << >>
    BY <1>4, AppendProperties
  <2>. QED  BY <1>4, <2>1, ReleaseType DEF Release
<1>5. CASE UNCHANGED bus
  BY <1>5 DEF bus
<1>. QED  BY <1>1, <1>2, <1>3, <1>4, <1>5

LEMMA DeliverType ==
  ASSUME TypeInv, NEW w \in Workers, NEW o \in Orders, Deliver(w, o),
         UNCHANGED <<producers, deadLetters>>
  PROVE  TypeInv'
<1>. USE DEF TypeInv
<1>1. QueueTypeOK' /\ MessagesInHand'
  BY BusStepType DEF Deliver, deadLetters
<1>2. {"settle", "gate_lookup", "claim"} \subseteq PCs /\ "rejected" \in Results
  BY DEF PCs, BeforeClaim, Results
<1>3. WorkerTypeOK'
  BY <1>2 DEF Deliver, WorkerTypeOK
<1>. QED  BY <1>1, <1>3 DEF Deliver, OutsideTypeOK, RecordsTypeOK, ClientsTypeOK, Xref!XrefTypeOK,
                          shopify, netsuite, records, producers, deadLetters

LEMMA SettleCrashType ==
  ASSUME TypeInv, NEW w \in Workers, Settle(w) \/ Crash(w),
         UNCHANGED <<producers, deadLetters>>
  PROVE  TypeInv'
<1>. USE DEF TypeInv
<1>. job[w] \in Orders
  BY StepIsAtWork
<1>1. QueueTypeOK' /\ MessagesInHand'
  <2>1. \/ lock[job[w]] # Nobody /\ (Complete(job[w]) \/ Release(job[w]))
        \/ UNCHANGED bus
    BY QueueAssumption DEF Settle, Crash
  <2>. QED  BY <2>1, BusStepType DEF deadLetters
<1>2. budget' \in [Events -> Nat]
  BY SpendType DEF Settle, Crash, WorkerTypeOK, Events
<1>3. WorkerTypeOK'
  BY <1>2 DEF Settle, Crash, Rest, WorkerTypeOK, PCs, Results
<1>. QED  BY <1>1, <1>3 DEF Settle, Crash, OutsideTypeOK, RecordsTypeOK, ClientsTypeOK,
                          Xref!XrefTypeOK, shopify, netsuite, records, producers, deadLetters

LEMMA OverrunType ==
  ASSUME TypeInv, NEW o \in Orders, Overrun(o), UNCHANGED <<producers, deadLetters>>
  PROVE  TypeInv'
<1>. USE DEF TypeInv
<1>1. QueueTypeOK' /\ MessagesInHand'
  BY BusStepType DEF Overrun, deadLetters
<1>2. budget' \in [Events -> Nat]
  BY SpendType DEF Overrun, WorkerTypeOK, Events
<1>. QED  BY <1>1, <1>2 DEF Overrun, WorkerTypeOK, OutsideTypeOK, RecordsTypeOK, ClientsTypeOK,
                          Xref!XrefTypeOK, shopify, netsuite, records, worker, producers,
                          deadLetters

LEMMA HandlerType ==
  ASSUME TypeInv, Handler
  PROVE  TypeInv'
<1>1. CASE \E w \in Workers, o \in Orders : Deliver(w, o)
  BY <1>1, DeliverType DEF Handler
<1>2. CASE \E w \in Workers : WorkerStep(w)
  <2>1. QueueTypeOK' /\ MessagesInHand'
    BY <1>2, WorkerStepType DEF TypeInv, Handler, QueueTypeOK, MessagesInHand, bus, deadLetters
  <2>. QED  BY <1>2, <2>1, WorkerStepType
            DEF TypeInv, Handler, ClientsTypeOK, producers, deadLetters
<1>3. CASE \E w \in Workers : Settle(w) \/ Crash(w)
  BY <1>3, SettleCrashType DEF Handler
<1>4. CASE \E o \in Orders : Overrun(o)
  BY <1>4, OverrunType DEF Handler
<1>. QED  BY <1>1, <1>2, <1>3, <1>4 DEF Handler, HandlerNext, Progress, WorkerStep

(* Shopify, the poller, the operators and the dead-letter handler move the *)
(* workers' variables only by spending the budget.                         *)
ClientStep(o) == Shopify(o) \/ Poller(o) \/ Operator(o) \/ DlqHandler(o)

LEMMA ClientsKeepWorkers ==
  ASSUME WorkerTypeOK, NEW o \in Orders, ClientStep(o)
  PROVE  WorkerTypeOK' /\ UNCHANGED worker
<1>1. UNCHANGED worker
  BY DEF ClientStep, Shopify, Webhook, Edit, Poller, PollLookup, PollEnqueue, PollFails,
         Operator, ReplayLookup, ReplayDelete, ReplayEnqueue, ReplayFails, FixDefect,
         DlqHandler, DlqRecord, DlqQuarantine, DlqAttempt, DlqFind, DlqUpsert, DlqFails
<1>2. (\E event \in Events : Spend(event)) \/ UNCHANGED budget
  BY DEF ClientStep, Shopify, Webhook, Edit, Poller, PollLookup, PollEnqueue, PollFails,
         Operator, ReplayLookup, ReplayDelete, ReplayEnqueue, ReplayFails, FixDefect,
         DlqHandler, DlqRecord, DlqQuarantine, DlqAttempt, DlqFind, DlqUpsert, DlqFails, Events
<1>3. budget' \in [Events -> Nat]
  BY <1>2, SpendType DEF WorkerTypeOK
<1>. QED  BY <1>1, <1>3 DEF WorkerTypeOK, worker

LEMMA ProducerType ==
  ASSUME TypeInv, NEW o \in Orders, Shopify(o) \/ Poller(o) \/ Operator(o)
  PROVE  TypeInv'
<1>. USE DEF TypeInv
<1>. DEFINE Publishes == \E body \in Body : enqueue(o, body)
<1>w. WorkerTypeOK'
  BY ClientsKeepWorkers DEF ClientStep
<1>q. ASSUME Publishes \/ UNCHANGED bus, UNCHANGED dlq
      PROVE  QueueTypeOK' /\ MessagesInHand'
  BY <1>q, BusStepType
<1>. HIDE DEF Publishes
<1>. USE DEF OutsideTypeOK, RecordsTypeOK, ClientsTypeOK, shopify, netsuite, records,
             producers, deadLetters
<1>1. ASSUME NEW topic \in {"create", "updated"}, Webhook(o, topic)
      PROVE  TypeInv'
  <2>1. Publishes
    BY <1>1 DEF Webhook, Body, Publishes
  <2>. QED  BY <1>1, <1>w, <1>q, <2>1 DEF Webhook, Xref!XrefTypeOK
<1>2. CASE Edit(o)
  BY <1>2, <1>w, <1>q DEF Edit, ShopStates, Xref!XrefTypeOK
<1>3. CASE PollLookup(o)
  BY <1>3, <1>w, <1>q DEF PollLookup, PollSteps, Xref!XrefTypeOK
<1>4. CASE PollEnqueue(o)
  <2>1. Publishes
    BY <1>4 DEF PollEnqueue, Body, Publishes
  <2>. QED  BY <1>4, <1>w, <1>q, <2>1 DEF PollEnqueue, PollSteps, Xref!XrefTypeOK
<1>5. CASE PollFails(o)
  BY <1>5, <1>w, <1>q DEF PollFails, PollSteps, Xref!XrefTypeOK
<1>6. ASSUME NEW force \in BOOLEAN, ReplayLookup(o, force)
      PROVE  TypeInv'
  BY <1>6, <1>w, <1>q DEF ReplayLookup, ReplaySteps, Xref!XrefTypeOK
<1>7. CASE ReplayDelete(o)
  BY <1>7, <1>w, <1>q, XrefStepType DEF ReplayDelete, ReplaySteps
<1>8. CASE ReplayEnqueue(o)
  <2>1. Publishes
    BY <1>8 DEF ReplayEnqueue, Body, Publishes
  <2>. QED  BY <1>8, <1>w, <1>q, <2>1 DEF ReplayEnqueue, ReplaySteps, Xref!XrefTypeOK
<1>9. CASE ReplayFails(o)
  BY <1>9, <1>w, <1>q DEF ReplayFails, ReplaySteps, Xref!XrefTypeOK
<1>10. CASE FixDefect(o)
  BY <1>10, <1>w, <1>q DEF FixDefect, Defects, Xref!XrefTypeOK
<1>. QED  BY <1>1, <1>2, <1>3, <1>4, <1>5, <1>6, <1>7, <1>8, <1>9, <1>10
          DEF Shopify, Poller, Operator

LEMMA DlqType ==
  ASSUME TypeInv, NEW o \in Orders, DlqHandler(o)
  PROVE  TypeInv'
<1>. USE DEF TypeInv
<1>w. WorkerTypeOK'
  BY ClientsKeepWorkers DEF ClientStep
<1>. USE DEF OutsideTypeOK, RecordsTypeOK, ClientsTypeOK, shopify, netsuite, records, bus,
             producers, deadLetters, DlqGoto, DlqSteps, MessagesInHand
<1>1. CASE DlqRecord(o)
  BY <1>1, <1>w, ErrorRecordType DEF DlqRecord, ErrorKinds, QueueTypeOK, Xref!XrefTypeOK
<1>2. CASE DlqQuarantine(o)
  BY <1>2, <1>w DEF DlqQuarantine, ErrorKinds, QueueTypeOK, Xref!XrefTypeOK
<1>3. CASE DlqAttempt(o)
  <2>1. attempts' \in [Orders -> SUBSET Outcomes]
    BY <1>3 DEF DlqAttempt, Outcomes
  <2>2. dlq' \in [Orders -> DlqSteps] /\ QueueTypeOK' /\ MessagesInHand'
    BY <1>3 DEF DlqAttempt, QueueTypeOK
  <2>. QED  BY <1>3, <1>w, <2>1, <2>2 DEF DlqAttempt, Xref!XrefTypeOK
<1>r. ASSUME DlqReturn(o), dlq[o] # "idle"
      PROVE  /\ dlq' \in [Orders -> DlqSteps]
             /\ QueueTypeOK' /\ MessagesInHand'
  <2>1. Tail(deadLetter[o]) \in Seq(Message)
    BY <1>r DEF QueueTypeOK
  <2>. QED  BY <1>r, <2>1 DEF DlqReturn, QueueTypeOK
<1>4. CASE DlqFind(o)
  <2>1. ledger[o].status \in LedgerStatuses
    BY DEF LedgerRow
  <2>2. CASE DlqReturn(o)
    BY <1>4, <1>w, <1>r, <2>1, <2>2 DEF DlqFind, Xref!XrefTypeOK
  <2>3. CASE ~DlqReturn(o)
    <3>1. /\ dlqRead' = [dlqRead EXCEPT ![o] = ledger[o].status]
          /\ DlqGoto(o, "upsert")
          /\ UNCHANGED bus
      BY <1>4, <2>3 DEF DlqFind
    <3>2. dlq' \in [Orders -> DlqSteps] /\ QueueTypeOK' /\ MessagesInHand'
      BY <1>4, <3>1 DEF DlqFind, QueueTypeOK
    <3>3. dlqRead' \in [Orders -> LedgerStatuses]
      BY <2>1, <3>1
    <3>. QED  BY <1>4, <1>w, <3>2, <3>3 DEF DlqFind, Xref!XrefTypeOK
  <2>. QED  BY <1>4, <2>2, <2>3 DEF DlqFind
<1>5. CASE DlqUpsert(o)
  <2>1. [status |-> dlqRead[o], nsId |-> FALSE] \in LedgerRow
    BY DEF LedgerRow
  <2>2. ledger' \in [Orders -> LedgerRow]
    BY <1>5, <2>1 DEF DlqUpsert, LedgerUpsert
  <2>. QED  BY <1>5, <1>w, <1>r, <2>2 DEF DlqUpsert, LedgerUpsert, LedgerStatuses, Xref!XrefTypeOK
<1>6. CASE DlqFails(o)
  <2>1. errors' \in [Orders -> SUBSET ErrorKinds]
    BY <1>6 DEF DlqFails, ErrorKinds
  <2>2. dlq' \in [Orders -> DlqSteps] /\ QueueTypeOK' /\ MessagesInHand'
    BY <1>6 DEF DlqFails, QueueTypeOK
  <2>. QED  BY <1>6, <1>w, <2>1, <2>2 DEF DlqFails, LedgerStatuses, Xref!XrefTypeOK
<1>. QED  BY <1>1, <1>2, <1>3, <1>4, <1>5, <1>6 DEF DlqHandler

LEMMA TypeInvInit == Init => TypeInv
<1>. SUFFICES ASSUME Init
              PROVE  TypeInv
  OBVIOUS
<1>1. QueueTypeOK /\ MessagesInHand
  BY QueueAssumption DEF Init, HandlerInit, QueueInit, QueueTypeOK, MessagesInHand
<1>2. Xref!XrefTypeOK
  BY DEF Init, HandlerInit, Xref!XrefInit, Xref!XrefTypeOK, Xref!Row, Xref!RowStatuses, Xref!NoRow
<1>3. OutsideTypeOK
  BY HandlerAssumption DEF Init, HandlerInit, OutsideTypeOK, ShopStates, Defects
<1>4. RecordsTypeOK
  BY DEF Init, HandlerInit, RecordsTypeOK, LedgerRow, LedgerStatuses
<1>5. WorkerTypeOK
  BY HandlerAssumption DEF Init, HandlerInit, WorkerTypeOK, PCs, Results
<1>6. ClientsTypeOK
  BY DEF Init, ClientsTypeOK, PollSteps, ReplaySteps, DlqSteps, LedgerStatuses
<1>. QED  BY <1>1, <1>2, <1>3, <1>4, <1>5, <1>6 DEF TypeInv

LEMMA TypeInvStep == TypeInv /\ [Next]_vars => TypeInv'
<1>. SUFFICES ASSUME TypeInv, [Next]_vars
              PROVE  TypeInv'
  OBVIOUS
<1>1. CASE Handler
  BY <1>1, HandlerType
<1>2. CASE SwitchConnection
  <2>1. WorkerTypeOK'
    BY <1>2, SpendType DEF TypeInv, SwitchConnection, Events, worker, WorkerTypeOK
  <2>. QED  BY <1>2, <2>1 DEF SwitchConnection, TypeInv, QueueTypeOK, MessagesInHand,
               OutsideTypeOK, RecordsTypeOK, ClientsTypeOK, Xref!XrefTypeOK, bus, shopify,
               netsuite, records, producers, deadLetters
<1>3. CASE \E o \in Orders : Shopify(o) \/ Poller(o) \/ Operator(o)
  BY <1>3, ProducerType
<1>4. CASE \E o \in Orders : DlqHandler(o)
  BY <1>4, DlqType
<1>5. CASE UNCHANGED vars
  BY <1>5 DEF vars, handlerVars, TypeInv, QueueTypeOK, MessagesInHand, OutsideTypeOK,
              RecordsTypeOK, WorkerTypeOK, ClientsTypeOK, Xref!XrefTypeOK, bus, shopify,
              netsuite, records, worker, producers, deadLetters
<1>. QED  BY <1>1, <1>2, <1>3, <1>4, <1>5 DEF Next

(***************************************************************************)
(* Every reachable state of the pipeline is well typed: no handler step    *)
(* takes the head of an empty session, or records an outcome that the      *)
(* order_attempt table does not admit.                                     *)
(***************************************************************************)
THEOREM Typing == Spec => []TypeOK
<1>1. Spec => []TypeInv
  BY TypeInvInit, TypeInvStep, PTL DEF Spec
<1>. QED  BY <1>1, TypeInvImpliesTypeOK, PTL

-----------------------------------------------------------------------------
(***************************************************************************)
(* ImportsAreReal.  The invariant also follows the claim to an import from *)
(* the upsert to the records: a worker past the upsert, or one whose       *)
(* outcome is `imported', works on an order that NetSuite has, and what    *)
(* the dead-letter handler has read of the ledger was true when it read.   *)
(***************************************************************************)
PastUpsert == {"record_success", "log_import", "tag", "tag_record"}

ImportersAreRight ==
    \A w \in Workers :
        /\ pc[w] = "idle" => result[w] = "none"
        /\ pc[w] \in PastUpsert \/ result[w] = "imported" => job[w] \in nsTransactions

ImportInv == ImportsAreReal /\ ImportersAreRight

(* Where an exception leaves the worker.                                   *)
LEMMA ThrowEnds ==
  ASSUME NEW w \in Workers, NEW errorClass, Throw(w, errorClass)
  PROVE  /\ \E call \in {"settle", "record_attempt", "record_auth", "record_failure"} :
              pc' = [pc EXCEPT ![w] = call]
         /\ \E outcome \in {"escaped", "transient_throw", "caught"} :
              result' = [result EXCEPT ![w] = outcome]
         /\ job' = job
BY DEF Throw, Escape, Catch, Rethrow

LEMMA FailsEnds ==
  ASSUME NEW w \in Workers, Fails(w)
  PROVE  /\ \E call \in {"settle", "record_attempt", "record_auth", "record_failure"} :
              pc' = [pc EXCEPT ![w] = call]
         /\ \E outcome \in {"escaped", "transient_throw", "caught"} :
              result' = [result EXCEPT ![w] = outcome]
         /\ job' = job
BY ThrowEnds DEF Fails

LEMMA ImportWorkerStep ==
  ASSUME TypeInv, ImportInv, NEW w \in Workers, WorkerStep(w), UNCHANGED dlqRead
  PROVE  ImportInv'
<1>. job[w] \in Orders /\ pc[w] # "idle"
  BY StepIsAtWork
<1>. USE DEF TypeInv, WorkerTypeOK, RecordsTypeOK, Xref!XrefTypeOK
<1>. USE DEF ImportInv, ImportsAreReal, ImportersAreRight, PastUpsert, Await, Finish, shopify, netsuite, records,
             Xref!lookup
<1>1. CASE GateLookup(w)
  BY <1>1, ThrowEnds, FailsEnds DEF GateLookup
<1>2. CASE MarkIgnored(w)
  BY <1>2, ThrowEnds, FailsEnds DEF MarkIgnored, Xref!markIgnored
<1>3. CASE LogIgnored(w)
  BY <1>3, ThrowEnds, FailsEnds DEF LogIgnored, LedgerWrite, LedgerUpsert
<1>4. CASE Claim(w)
  BY <1>4, ThrowEnds, FailsEnds DEF Claim, Xref!InsertPending
<1>5. CASE ClaimRead(w)
  BY <1>5, ThrowEnds, ClaimOutcomeType DEF ClaimRead
<1>6. CASE GetOrder(w)
  BY <1>6, ThrowEnds, FailsEnds DEF GetOrder
<1>7. CASE ResolveCustomer(w)
  BY <1>7, ThrowEnds, FailsEnds DEF ResolveCustomer
<1>8. CASE BuildPayload(w)
  BY <1>8, ThrowEnds, FailsEnds DEF BuildPayload
<1>9. CASE Upsert(w)
  BY <1>9, ThrowEnds, FailsEnds DEF Upsert
<1>10. CASE RecordSuccess(w)
  BY <1>10, ThrowEnds, FailsEnds DEF RecordSuccess, Xref!recordSuccess
<1>11. CASE LogImport(w)
  BY <1>11, ThrowEnds, FailsEnds DEF LogImport, LedgerWrite, LedgerUpsert
<1>12. CASE Tag(w)
  BY <1>12, ThrowEnds, FailsEnds DEF Tag
<1>13. CASE RecordTagError(w)
  BY <1>13, ThrowEnds, FailsEnds DEF RecordTagError, ErrorRecord
<1>14. CASE RecordFailure(w)
  <2>1. CASE Xref!recordFailure(job[w])
    <3>1. /\ xref'[job[w]] = [xref[job[w]] EXCEPT !.status = "error"]
          /\ \A o \in Orders \ {job[w]} : xref'[o] = xref[o]
      BY <2>1, Zenon DEF Xref!recordFailure
    <3>2. xref'[job[w]].status = "error" /\ xref'[job[w]].linked = xref[job[w]].linked
      BY <3>1 DEF Xref!Row
    <3>3. ImportersAreRight'
      BY <1>14, FailsEnds, ThrowEnds DEF RecordFailure
    <3>. QED  BY <1>14, <3>1, <3>2, <3>3 DEF RecordFailure
  <2>2. CASE xref' = xref
    BY <1>14, <2>2, ThrowEnds, FailsEnds DEF RecordFailure
  <2>. QED  BY <1>14, <2>1, <2>2 DEF RecordFailure
<1>15. CASE RecordError(w)
  BY <1>15, ThrowEnds, FailsEnds DEF RecordError, ErrorRecord
<1>16. CASE LogPark(w)
  BY <1>16, ThrowEnds, FailsEnds DEF LogPark, LedgerWrite, LedgerUpsert
<1>17. CASE RecordAuthError(w)
  BY <1>17, ThrowEnds, FailsEnds DEF RecordAuthError, ErrorRecord
<1>18. CASE RecordAttempt(w)
  BY <1>18, ThrowEnds, FailsEnds DEF RecordAttempt
<1>19. CASE CallFails(w)
  BY <1>19, ThrowEnds, FailsEnds DEF CallFails
<1>. QED  BY <1>1, <1>2, <1>3, <1>4, <1>5, <1>6, <1>7, <1>8, <1>9, <1>10, <1>11, <1>12, <1>13, <1>14, <1>15, <1>16, <1>17, <1>18, <1>19 DEF WorkerStep

LEMMA ImportHandler ==
  ASSUME TypeInv, ImportInv, Handler
  PROVE  ImportInv'
<1>. UNCHANGED dlqRead
  BY DEF Handler, deadLetters
<1>. USE DEF ImportInv, ImportsAreReal, ImportersAreRight, PastUpsert
<1>1. CASE \E w \in Workers : WorkerStep(w)
  BY <1>1, ImportWorkerStep
<1>2. ASSUME NEW w \in Workers, NEW o \in Orders, Deliver(w, o)
      PROVE  ImportInv'
  BY <1>2 DEF Deliver, TypeInv, WorkerTypeOK, netsuite, records, Xref!lookup
<1>3. ASSUME NEW w \in Workers, Settle(w) \/ Crash(w)
      PROVE  ImportInv'
  BY <1>3 DEF Settle, Crash, Rest, TypeInv, WorkerTypeOK, netsuite, records, Xref!lookup
<1>4. ASSUME NEW o \in Orders, Overrun(o)
      PROVE  ImportInv'
  BY <1>4 DEF Overrun, netsuite, records, worker, Xref!lookup
<1>. QED  BY <1>1, <1>2, <1>3, <1>4 DEF Handler, HandlerNext, Progress, WorkerStep

LEMMA ImportClients ==
  ASSUME TypeInv, ImportInv, NEW o \in Orders, ClientStep(o)
  PROVE  ImportInv'
<1>. UNCHANGED worker
  BY ClientsKeepWorkers DEF TypeInv
<1>. USE DEF ImportInv, ImportsAreReal, ImportersAreRight, PastUpsert, TypeInv, RecordsTypeOK,
             ClientsTypeOK, worker, netsuite, records, deadLetters, Xref!lookup
<1>1. CASE Shopify(o)
  BY <1>1 DEF Shopify, Webhook, Edit
<1>2. CASE Poller(o)
  BY <1>2 DEF Poller, PollLookup, PollEnqueue, PollFails
<1>3. CASE Operator(o) /\ ~ReplayDelete(o)
  BY <1>3 DEF Operator, ReplayLookup, ReplayEnqueue, ReplayFails, FixDefect
<1>4. CASE ReplayDelete(o)
  BY <1>4 DEF ReplayDelete, Xref!delete, Xref!NoRow, Xref!XrefTypeOK
<1>5. CASE DlqRecord(o)
  BY <1>5 DEF DlqRecord, ErrorRecord
<1>6. CASE DlqQuarantine(o)
  BY <1>6 DEF DlqQuarantine
<1>7. CASE DlqAttempt(o)
  BY <1>7 DEF DlqAttempt
<1>8. CASE DlqFind(o)
  BY <1>8 DEF DlqFind
<1>9. CASE DlqUpsert(o)
  BY <1>9 DEF DlqUpsert, LedgerUpsert
<1>10. CASE DlqFails(o)
  BY <1>10 DEF DlqFails
<1>. QED  BY <1>1, <1>2, <1>3, <1>4, <1>5, <1>6, <1>7, <1>8, <1>9, <1>10
          DEF ClientStep, DlqHandler

(* It is inductive, together with the types.                               *)
LEMMA ImportInvHolds == Spec => []ImportInv
<1>1. Init => ImportInv
  BY DEF Init, HandlerInit, ImportInv, ImportsAreReal, ImportersAreRight, PastUpsert,
         Xref!XrefInit, Xref!NoRow, Xref!lookup
<1>2. TypeInv /\ ImportInv /\ [Next]_vars => ImportInv'
  <2>. SUFFICES ASSUME TypeInv, ImportInv, [Next]_vars
                PROVE  ImportInv'
    OBVIOUS
  <2>1. CASE Handler
    BY <2>1, ImportHandler
  <2>2. CASE SwitchConnection \/ UNCHANGED vars
    BY <2>2 DEF SwitchConnection, vars, handlerVars, worker, netsuite, records, deadLetters,
                ImportInv, ImportsAreReal, ImportersAreRight, Xref!lookup
  <2>3. CASE \E o \in Orders : ClientStep(o)
    BY <2>3, ImportClients
  <2>. QED  BY <2>1, <2>2, <2>3 DEF Next, ClientStep
<1>3. Spec => []TypeInv
  BY TypeInvInit, TypeInvStep, PTL DEF Spec
<1>. QED  BY <1>1, <1>2, <1>3, PTL DEF Spec

(***************************************************************************)
(* No record ever claims an import that NetSuite does not hold: a synced   *)
(* row, a target id, an imported ledger row or attempt all come after the  *)
(* upsert, whatever failed, crashed or overlapped on the way.              *)
(***************************************************************************)
THEOREM ImportsReal == Spec => []ImportsAreReal
<1>1. ImportInv => ImportsAreReal
  BY DEF ImportInv
<1>. QED  BY <1>1, ImportInvHolds, PTL

-----------------------------------------------------------------------------
(***************************************************************************)
(* TestOrdersStayOut.  Only GetOrder lets a worker near NetSuite, and it   *)
(* checked the order; being a test order is for good, so what it checked   *)
(* still holds when the customer and the transaction are written.          *)
(***************************************************************************)
Checked == {"customer", "resolve", "upsert"}

CheckedOrdersAreReal == \A w \in Workers : pc[w] \in Checked => shop[job[w]] # "test"

TestInv == TestOrdersStayOut /\ CheckedOrdersAreReal

LEMMA TestWorkerStep ==
  ASSUME TypeInv, TestInv, NEW w \in Workers, WorkerStep(w)
  PROVE  TestInv'
<1>. job[w] \in Orders /\ pc[w] # "idle"
  BY StepIsAtWork
<1>. USE DEF TypeInv, WorkerTypeOK, TestInv, TestOrdersStayOut, CheckedOrdersAreReal, Checked,
             Await, Finish, shopify, netsuite
<1>1. CASE GateLookup(w)
  BY <1>1, ThrowEnds, FailsEnds DEF GateLookup
<1>2. CASE MarkIgnored(w)
  BY <1>2, ThrowEnds, FailsEnds DEF MarkIgnored
<1>3. CASE LogIgnored(w)
  BY <1>3, ThrowEnds, FailsEnds DEF LogIgnored
<1>4. CASE Claim(w)
  BY <1>4, ThrowEnds, FailsEnds DEF Claim
<1>5. CASE ClaimRead(w)
  BY <1>5, ThrowEnds, FailsEnds DEF ClaimRead
<1>6. CASE GetOrder(w)
  BY <1>6, ThrowEnds, FailsEnds DEF GetOrder
<1>7. CASE ResolveCustomer(w)
  BY <1>7, ThrowEnds, FailsEnds DEF ResolveCustomer
<1>8. CASE BuildPayload(w)
  BY <1>8, ThrowEnds, FailsEnds DEF BuildPayload
<1>9. CASE Upsert(w)
  BY <1>9, ThrowEnds, FailsEnds DEF Upsert
<1>10. CASE RecordSuccess(w)
  BY <1>10, ThrowEnds, FailsEnds DEF RecordSuccess
<1>11. CASE LogImport(w)
  BY <1>11, ThrowEnds, FailsEnds DEF LogImport
<1>12. CASE Tag(w)
  BY <1>12, ThrowEnds, FailsEnds DEF Tag
<1>13. CASE RecordTagError(w)
  BY <1>13, ThrowEnds, FailsEnds DEF RecordTagError
<1>14. CASE RecordFailure(w)
  BY <1>14, ThrowEnds, FailsEnds DEF RecordFailure
<1>15. CASE RecordError(w)
  BY <1>15, ThrowEnds, FailsEnds DEF RecordError
<1>16. CASE LogPark(w)
  BY <1>16, ThrowEnds, FailsEnds DEF LogPark
<1>17. CASE RecordAuthError(w)
  BY <1>17, ThrowEnds, FailsEnds DEF RecordAuthError
<1>18. CASE RecordAttempt(w)
  BY <1>18, ThrowEnds, FailsEnds DEF RecordAttempt
<1>19. CASE CallFails(w)
  BY <1>19, ThrowEnds, FailsEnds DEF CallFails
<1>. QED  BY <1>1, <1>2, <1>3, <1>4, <1>5, <1>6, <1>7, <1>8, <1>9, <1>10, <1>11, <1>12, <1>13, <1>14, <1>15, <1>16, <1>17, <1>18, <1>19 DEF WorkerStep

LEMMA TestHandler ==
  ASSUME TypeInv, TestInv, Handler
  PROVE  TestInv'
<1>. USE DEF TypeInv, WorkerTypeOK, TestInv, TestOrdersStayOut, CheckedOrdersAreReal, Checked,
             shopify, netsuite, worker
<1>1. CASE \E w \in Workers : WorkerStep(w)
  BY <1>1, TestWorkerStep
<1>2. ASSUME NEW w \in Workers, NEW o \in Orders, Deliver(w, o)
      PROVE  TestInv'
  BY <1>2 DEF Deliver
<1>3. ASSUME NEW w \in Workers, Settle(w) \/ Crash(w)
      PROVE  TestInv'
  BY <1>3 DEF Settle, Crash, Rest
<1>4. ASSUME NEW o \in Orders, Overrun(o)
      PROVE  TestInv'
  BY <1>4 DEF Overrun
<1>. QED  BY <1>1, <1>2, <1>3, <1>4 DEF Handler, HandlerNext, Progress, WorkerStep

LEMMA TestClients ==
  ASSUME TypeInv, TestInv, NEW o \in Orders, ClientStep(o)
  PROVE  TestInv'
<1>1. UNCHANGED <<worker, netsuite>>
  BY ClientsKeepWorkers DEF TypeInv, ClientStep, Shopify, Webhook, Edit, Poller, PollLookup,
     PollEnqueue, PollFails, Operator, ReplayLookup, ReplayDelete, ReplayEnqueue, ReplayFails,
     FixDefect, DlqHandler, DlqRecord, DlqQuarantine, DlqAttempt, DlqFind, DlqUpsert, DlqFails
<1>2. \A other \in Orders : shop'[other] = "test" <=> shop[other] = "test"
  BY DEF TypeInv, OutsideTypeOK, shopify, ClientStep, Shopify, Webhook, Edit, Poller, PollLookup,
     PollEnqueue, PollFails, Operator, ReplayLookup, ReplayDelete, ReplayEnqueue, ReplayFails,
     FixDefect, DlqHandler, DlqRecord, DlqQuarantine, DlqAttempt, DlqFind, DlqUpsert, DlqFails
<1>. QED  BY <1>1, <1>2 DEF TypeInv, WorkerTypeOK, TestInv, TestOrdersStayOut,
          CheckedOrdersAreReal, Checked, worker, netsuite

(***************************************************************************)
(* No test order reaches NetSuite, as a transaction or as a customer, by a *)
(* webhook, the poller or a replay: checkEligibility is on every path.     *)
(***************************************************************************)
THEOREM TestOrdersNeverImported == Spec => []TestOrdersStayOut
<1>1. Init => TestInv
  BY DEF Init, HandlerInit, TestInv, TestOrdersStayOut, CheckedOrdersAreReal, Checked
<1>2. TypeInv /\ TestInv /\ [Next]_vars => TestInv'
  <2>. SUFFICES ASSUME TypeInv, TestInv, [Next]_vars
                PROVE  TestInv'
    OBVIOUS
  <2>1. CASE Handler
    BY <2>1, TestHandler
  <2>2. CASE SwitchConnection \/ UNCHANGED vars
    BY <2>2 DEF SwitchConnection, vars, handlerVars, worker, netsuite, shopify,
                TestInv, TestOrdersStayOut, CheckedOrdersAreReal
  <2>3. CASE \E o \in Orders : ClientStep(o)
    BY <2>3, TestClients
  <2>. QED  BY <2>1, <2>2, <2>3 DEF Next, ClientStep
<1>3. Spec => []TypeInv
  BY TypeInvInit, TypeInvStep, PTL DEF Spec
<1>4. TestInv => TestOrdersStayOut
  BY DEF TestInv
<1>. QED  BY <1>1, <1>2, <1>3, <1>4, PTL DEF Spec

-----------------------------------------------------------------------------
(***************************************************************************)
(* The budget only shrinks, so that what is unseen after a step was unseen *)
(* before it.                                                              *)
(***************************************************************************)
BudgetInv == \A event \in Events : budget[event] <= Budget[event]

LEMMA WorkerMoves ==
  ASSUME TypeInv, NEW w \in Workers, WorkerStep(w)
  PROVE  /\ job' = job
         /\ \E call \in PCs \ {"idle"} : pc' = [pc EXCEPT ![w] = call]
         /\ UNCHANGED budget \/ Spend("failure")
<1>. USE DEF Await, Finish, PCs, BeforeClaim, InTry, Parking
<1>f. Fails(w) => Spend("failure")
  BY DEF Fails
<1>1. CASE GateLookup(w)
  BY <1>1, <1>f, ThrowEnds, FailsEnds DEF GateLookup
<1>2. CASE MarkIgnored(w)
  BY <1>2, <1>f, ThrowEnds, FailsEnds DEF MarkIgnored
<1>3. CASE LogIgnored(w)
  BY <1>3, <1>f, ThrowEnds, FailsEnds DEF LogIgnored
<1>4. CASE Claim(w)
  BY <1>4, <1>f, ThrowEnds, FailsEnds DEF Claim
<1>5. CASE ClaimRead(w)
  BY <1>5, <1>f, ThrowEnds, FailsEnds DEF ClaimRead
<1>6. CASE GetOrder(w)
  BY <1>6, <1>f, ThrowEnds, FailsEnds DEF GetOrder
<1>7. CASE ResolveCustomer(w)
  BY <1>7, <1>f, ThrowEnds, FailsEnds DEF ResolveCustomer
<1>8. CASE BuildPayload(w)
  BY <1>8, <1>f, ThrowEnds, FailsEnds DEF BuildPayload
<1>9. CASE Upsert(w)
  BY <1>9, <1>f, ThrowEnds, FailsEnds DEF Upsert
<1>10. CASE RecordSuccess(w)
  BY <1>10, <1>f, ThrowEnds, FailsEnds DEF RecordSuccess
<1>11. CASE LogImport(w)
  BY <1>11, <1>f, ThrowEnds, FailsEnds DEF LogImport
<1>12. CASE Tag(w)
  BY <1>12, <1>f, ThrowEnds, FailsEnds DEF Tag
<1>13. CASE RecordTagError(w)
  BY <1>13, <1>f, ThrowEnds, FailsEnds DEF RecordTagError
<1>14. CASE RecordFailure(w)
  BY <1>14, <1>f, ThrowEnds, FailsEnds DEF RecordFailure
<1>15. CASE RecordError(w)
  BY <1>15, <1>f, ThrowEnds, FailsEnds DEF RecordError
<1>16. CASE LogPark(w)
  BY <1>16, <1>f, ThrowEnds, FailsEnds DEF LogPark
<1>17. CASE RecordAuthError(w)
  BY <1>17, <1>f, ThrowEnds, FailsEnds DEF RecordAuthError
<1>18. CASE RecordAttempt(w)
  BY <1>18, <1>f, ThrowEnds, FailsEnds DEF RecordAttempt
<1>19. CASE CallFails(w)
  BY <1>19, <1>f, ThrowEnds, FailsEnds DEF CallFails
<1>. QED  BY <1>1, <1>2, <1>3, <1>4, <1>5, <1>6, <1>7, <1>8, <1>9, <1>10, <1>11, <1>12, <1>13, <1>14, <1>15, <1>16, <1>17, <1>18, <1>19 DEF WorkerStep

LEMMA BudgetStep ==
  ASSUME TypeInv, [Next]_vars
  PROVE  (\E event \in Events : Spend(event)) \/ UNCHANGED budget
<1>1. CASE Handler
  <2>1. CASE \E w \in Workers : WorkerStep(w)
    BY <2>1, WorkerMoves DEF Events
  <2>. QED  BY <1>1, <2>1 DEF Handler, HandlerNext, Progress, WorkerStep, Deliver, Settle, Crash,
                              Overrun, Events
<1>2. CASE SwitchConnection \/ UNCHANGED vars
  BY <1>2 DEF SwitchConnection, vars, handlerVars, Events
<1>3. ASSUME NEW o \in Orders, ClientStep(o)
      PROVE  (\E event \in Events : Spend(event)) \/ UNCHANGED budget
  BY <1>3 DEF ClientStep, Shopify, Webhook, Edit, Poller, PollLookup, PollEnqueue, PollFails,
     Operator, ReplayLookup, ReplayDelete, ReplayEnqueue, ReplayFails, FixDefect, DlqHandler,
     DlqRecord, DlqQuarantine, DlqAttempt, DlqFind, DlqUpsert, DlqFails, Events
<1>. QED  BY <1>1, <1>2, <1>3 DEF Next, ClientStep

LEMMA UnseenStep ==
  ASSUME TypeInv, BudgetInv, [Next]_vars
  PROVE  /\ BudgetInv'
         /\ \A event \in Events : Unseen(event)' => Unseen(event) /\ ~Spend(event)
<1>. USE HandlerAssumption DEF BudgetInv, Unseen, TypeInv, WorkerTypeOK
<1>1. ASSUME NEW event \in Events, Spend(event)
      PROVE  /\ budget'[event] = budget[event] - 1 /\ budget'[event] < Budget[event]
             /\ \A other \in Events \ {event} : budget'[other] = budget[other]
  BY <1>1 DEF Spend
<1>2. CASE \E event \in Events : Spend(event)
  BY <1>1, <1>2
<1>3. CASE UNCHANGED budget
  BY <1>3 DEF Spend
<1>. QED  BY <1>2, <1>3, BudgetStep

-----------------------------------------------------------------------------
(***************************************************************************)
(* SessionExclusive.  A session is held by the worker that handles its     *)
(* order; and until a lock runs out, a worker that handles an order holds  *)
(* its session.                                                            *)
(***************************************************************************)
SessionInv ==
    /\ BudgetInv
    /\ \A w \in Workers : pc[w] = "idle" <=> job[w] = NoOrder
    /\ \A w \in Workers, o \in Orders : lock[o] = w => job[w] = o
    /\ Unseen("overrun") => \A w \in Workers : job[w] # NoOrder => lock[job[w]] = w

LEMMA SessionHandler ==
  ASSUME TypeInv, SessionInv, Handler
  PROVE  SessionInv'
<1>1. /\ BudgetInv'
      /\ Unseen("overrun")' => Unseen("overrun") /\ ~Spend("overrun")
  BY UnseenStep DEF SessionInv, Next, Events
<1>. USE HandlerAssumption, QueueAssumption
     DEF SessionInv, TypeInv, WorkerTypeOK, QueueTypeOK, bus, worker
<1>2. ASSUME NEW w \in Workers, WorkerStep(w)
      PROVE  SessionInv'
  <2>1. UNCHANGED bus /\ pc[w] # "idle"
    BY <1>2, WorkerStepType, StepIsAtWork
  <2>. QED  BY <1>1, <1>2, <2>1, WorkerMoves
<1>3. ASSUME NEW w \in Workers, NEW o \in Orders, Deliver(w, o)
      PROVE  SessionInv'
  BY <1>1, <1>3 DEF Deliver, Receive
<1>4. ASSUME NEW w \in Workers, Settle(w) \/ Crash(w)
      PROVE  SessionInv'
  <2>. job[w] \in Orders
    BY <1>4, StepIsAtWork
  <2>1. \/ lock[job[w]] = w /\ lock' = [lock EXCEPT ![job[w]] = Nobody]
        \/ lock[job[w]] # w /\ lock' = lock
    BY <1>4 DEF Settle, Crash, Complete, Release
  <2>2. /\ pc' = [pc EXCEPT ![w] = "idle"]
        /\ job' = [job EXCEPT ![w] = NoOrder]
    BY <1>4 DEF Settle, Crash, Rest
  <2>3. \A v \in Workers, o \in Orders : lock'[o] = v => v # w /\ lock[o] = v
    BY <2>1
  <2>4. \A v \in Workers : pc'[v] = "idle" <=> job'[v] = NoOrder
    BY <2>2
  <2>5. \A v \in Workers, o \in Orders : lock'[o] = v => job'[v] = o
    BY <2>2, <2>3
  <2>6. ASSUME Unseen("overrun")', NEW v \in Workers, job'[v] # NoOrder
        PROVE  lock'[job'[v]] = v
    <3>1. v # w /\ job'[v] = job[v] /\ job[v] \in Orders
      BY <2>2, <2>6
    <3>2. lock[job[v]] = v /\ lock[job[w]] = w
      BY <1>1, <2>6, <3>1
    <3>3. job[v] # job[w]
      BY <3>1, <3>2
    <3>. QED  BY <2>1, <3>1, <3>2, <3>3
  <2>. QED  BY <1>1, <2>4, <2>5, <2>6
<1>5. ASSUME NEW o \in Orders, Overrun(o)
      PROVE  SessionInv'
  BY <1>1, <1>5 DEF Overrun, Release
<1>. QED  BY <1>2, <1>3, <1>4, <1>5 DEF Handler, HandlerNext, Progress, WorkerStep

LEMMA SessionStep == TypeInv /\ SessionInv /\ [Next]_vars => SessionInv'
<1>. SUFFICES ASSUME TypeInv, SessionInv, [Next]_vars
              PROVE  SessionInv'
  OBVIOUS
<1>1. CASE Handler
  BY <1>1, SessionHandler
<1>2. CASE UNCHANGED <<lock, worker>>
  BY <1>2, UnseenStep DEF SessionInv, worker, Events
<1>3. UNCHANGED <<lock, worker>> \/ Handler
  <2>1. CASE SwitchConnection \/ UNCHANGED vars
    BY <2>1 DEF SwitchConnection, vars, handlerVars, worker, bus
  <2>2. ASSUME NEW o \in Orders, ClientStep(o)
        PROVE  UNCHANGED <<lock, worker>>
    BY <2>2, ClientsKeepWorkers DEF TypeInv, ClientStep, Shopify, Webhook, Edit, Poller,
       PollLookup, PollEnqueue, PollFails, Operator, ReplayLookup, ReplayDelete, ReplayEnqueue,
       ReplayFails, FixDefect, DlqHandler, DlqRecord, DlqQuarantine, DlqAttempt, DlqFind,
       DlqUpsert, DlqFails, DlqReturn, enqueue, bus
  <2>. QED  BY <2>1, <2>2 DEF Next, ClientStep
<1>. QED  BY <1>1, <1>2, <1>3

LEMMA SessionInvHolds == Spec => [](TypeInv /\ SessionInv)
<1>1. Init => SessionInv
  BY HandlerAssumption, QueueAssumption
     DEF Init, HandlerInit, QueueInit, SessionInv, BudgetInv, Unseen
<1>. QED  BY <1>1, SessionStep, TypeInvInit, TypeInvStep, PTL DEF Spec

(***************************************************************************)
(* As long as no handler outlives its session lock, no order is handled by *)
(* two invocations at a time, although deliveries, redeliveries and        *)
(* crashes come in any order: the sessions of Service Bus are what the     *)
(* claim, which is not one statement, may rely on.                         *)
(***************************************************************************)
THEOREM SessionsExclusive == Spec => []SessionExclusive
<1>1. TypeInv /\ SessionInv => SessionExclusive
  BY DEF TypeInv, WorkerTypeOK, SessionInv, SessionExclusive
<1>. QED  BY <1>1, SessionInvHolds, PTL

-----------------------------------------------------------------------------
(* The refinement mapping.                                                 *)
Rows == [o \in Orders |-> Xref!lookup(o)]

Holds == [w \in Workers |-> Held(w)]

Guarded == InTry \cup Parking \cup {"tag", "record_auth"}

(* What a worker holds follows from the call it goes on to.                *)
LEMMA HoldsMoves ==
  ASSUME TypeInv, NEW w \in Workers, NEW call, job' = job, pc' = [pc EXCEPT ![w] = call]
  PROVE  Holds' = [Holds EXCEPT ![w] = IF call \in Guarded THEN job[w] ELSE NoOrder]
BY DEF TypeInv, WorkerTypeOK, Holds, Held, Guarded

(* One that holds an order keeps it or lets go of it.                      *)
LEMMA HoldsOrEnds ==
  ASSUME TypeInv, NEW w \in Workers, NEW call, job' = job, pc' = [pc EXCEPT ![w] = call],
         pc[w] \in Guarded \/ call \notin Guarded
  PROVE  Holds' = Holds \/ Holds' = [Holds EXCEPT ![w] = NoOrder]
<1>1. CASE call \notin Guarded
  BY <1>1, HoldsMoves
<1>2. CASE call \in Guarded /\ pc[w] \in Guarded
  <2>1. Holds[w] = job[w]
    BY <1>2 DEF Holds, Held, Guarded
  <2>2. Holds' = [Holds EXCEPT ![w] = job[w]]
    BY <1>2, HoldsMoves
  <2>. QED  BY <2>1, <2>2 DEF Holds
<1>. QED  BY <1>1, <1>2

(* The statements on entity_xref change one row.                           *)
LEMMA RowsMove ==
  ASSUME Xref!XrefTypeOK, NEW o \in Orders
  PROVE  /\ Xref!InsertPending(o) => Rows[o] = "absent" /\ Rows' = [Rows EXCEPT ![o] = "pending"]
         /\ Xref!recordSuccess(o) => Rows[o] # "absent" /\ Rows' = [Rows EXCEPT ![o] = "synced"]
         /\ Xref!recordFailure(o) => Rows[o] # "absent" /\ Rows' = [Rows EXCEPT ![o] = "error"]
         /\ Xref!markIgnored(o) => Rows' = [Rows EXCEPT ![o] = "ignored"]
         /\ Xref!delete(o) => Rows' = [Rows EXCEPT ![o] = "absent"]
<1>1. ASSUME NEW row, xref' = [xref EXCEPT ![o] = row]
      PROVE  Rows' = [Rows EXCEPT ![o] = row.status]
  BY <1>1 DEF Xref!XrefTypeOK, Rows, Xref!lookup
<1>2. ASSUME NEW status, xref' = [xref EXCEPT ![o] = [xref[o] EXCEPT !.status = status]]
      PROVE  Rows' = [Rows EXCEPT ![o] = status]
  <2>1. [xref[o] EXCEPT !.status = status].status = status
    BY DEF Xref!XrefTypeOK, Xref!Row
  <2>. QED  BY <1>1, <1>2, <2>1
<1>3. Rows[o] = Xref!lookup(o)
  BY DEF Rows
<1>4. ASSUME Xref!InsertPending(o)
      PROVE  Rows[o] = "absent" /\ Rows' = [Rows EXCEPT ![o] = "pending"]
  <2>1. Rows' = [Rows EXCEPT ![o] = [status |-> "pending", linked |-> FALSE].status]
    BY <1>1, <1>4, Zenon DEF Xref!InsertPending
  <2>. QED  BY <1>3, <1>4, <2>1 DEF Xref!InsertPending, Xref!Exists
<1>5. ASSUME Xref!recordSuccess(o)
      PROVE  Rows[o] # "absent" /\ Rows' = [Rows EXCEPT ![o] = "synced"]
  <2>1. Rows' = [Rows EXCEPT ![o] = [status |-> "synced", linked |-> TRUE].status]
    BY <1>1, <1>5, Zenon DEF Xref!recordSuccess
  <2>. QED  BY <1>3, <1>5, <2>1 DEF Xref!recordSuccess, Xref!Exists
<1>6. ASSUME Xref!recordFailure(o)
      PROVE  Rows[o] # "absent" /\ Rows' = [Rows EXCEPT ![o] = "error"]
  <2>. xref' = [xref EXCEPT ![o] = [xref[o] EXCEPT !.status = "error"]]
    BY <1>6, Zenon DEF Xref!recordFailure
  <2>. QED  BY <1>2, <1>3, <1>6 DEF Xref!recordFailure, Xref!Exists
<1>7. ASSUME Xref!markIgnored(o)
      PROVE  Rows' = [Rows EXCEPT ![o] = "ignored"]
  <2>. xref' = [xref EXCEPT ![o] = [xref[o] EXCEPT !.status = "ignored"]]
    BY <1>7, Zenon DEF Xref!markIgnored
  <2>. QED  BY <1>2, <1>7
<1>8. ASSUME Xref!delete(o)
      PROVE  Rows' = [Rows EXCEPT ![o] = "absent"]
  <2>1. Rows' = [Rows EXCEPT ![o] = [status |-> "absent", linked |-> FALSE].status]
    BY <1>1, <1>8, Zenon DEF Xref!delete, Xref!NoRow
  <2>. QED  BY <1>8, <2>1
<1>. QED  BY <1>4, <1>5, <1>6, <1>7, <1>8

(***************************************************************************)
(* The steps of an invocation.  Behind the claim, before it, and the two   *)
(* steps that cross it: Claim takes the order, every other one that moves  *)
(* between the two sides lets go of it.                                    *)
(***************************************************************************)
Stays(w) == Holds' = Holds \/ Holds' = [Holds EXCEPT ![w] = NoOrder]

(* An exception does not lead behind the claim from before it.             *)
LEMMA ThrowStays ==
  ASSUME TypeInv, NEW w \in Workers, NEW errorClass, Throw(w, errorClass)
  PROVE  Stays(w)
<1>1. PICK call : /\ pc' = [pc EXCEPT ![w] = call] /\ job' = job
                  /\ pc[w] \in Guarded \/ call \notin Guarded
  BY DEF Throw, Escape, Catch, Rethrow, Guarded, InTry, Parking, BeforeClaim
<1>. QED  BY <1>1, HoldsOrEnds DEF Stays

LEMMA FailsStays ==
  ASSUME TypeInv, NEW w \in Workers, Fails(w)
  PROVE  Stays(w)
BY ThrowStays DEF Fails

LEMMA AwaitStays ==
  ASSUME TypeInv, NEW w \in Workers, NEW call, Await(w, call),
         pc[w] \in Guarded \/ call \notin Guarded
  PROVE  Stays(w)
BY HoldsOrEnds DEF Await, Stays

LEMMA FinishStays ==
  ASSUME TypeInv, NEW w \in Workers, NEW outcome, Finish(w, outcome)
  PROVE  Stays(w)
<1>. "record_attempt" \notin Guarded
  BY DEF Guarded, InTry, Parking
<1>. QED  BY HoldsOrEnds DEF Finish, Stays

LEMMA HeldBehindClaim ==
  ASSUME NEW w \in Workers
  PROVE  /\ pc[w] \in Guarded    => Holds[w] = job[w]
         /\ pc[w] \notin Guarded => Holds[w] = NoOrder
BY DEF Holds, Held, Guarded

(* The steps that neither write NetSuite nor entity_xref.                  *)
LEMMA SilentStep ==
  ASSUME TypeInv, NEW w \in Workers,
         \/ GateLookup(w) \/ LogIgnored(w) \/ ClaimRead(w) \/ GetOrder(w) \/ ResolveCustomer(w)
         \/ BuildPayload(w) \/ LogImport(w) \/ Tag(w) \/ RecordTagError(w) \/ RecordError(w)
         \/ LogPark(w) \/ RecordAuthError(w) \/ RecordAttempt(w) \/ CallFails(w)
  PROVE  Stays(w) /\ UNCHANGED <<xref, nsTransactions>>
<1>. USE AwaitStays, FinishStays, FailsStays, ThrowStays
<1>1. CASE GateLookup(w)
  <2>1. {"claim", "gate_ignore"} \cap Guarded = {}
    BY DEF Guarded, InTry, Parking
  <2>. QED  BY <1>1, <2>1 DEF GateLookup, netsuite
<1>2. CASE LogIgnored(w)
  BY <1>2 DEF LogIgnored, netsuite
<1>3. CASE ClaimRead(w)
  BY <1>3 DEF ClaimRead, netsuite
<1>4. CASE GetOrder(w)
  <2>1. "get_order" \in Guarded
    BY DEF Guarded, InTry
  <2>. QED  BY <1>4, <2>1 DEF GetOrder, netsuite
<1>5. CASE ResolveCustomer(w)
  <2>1. "customer" \in Guarded
    BY DEF Guarded, InTry
  <2>. QED  BY <1>5, <2>1 DEF ResolveCustomer
<1>6. CASE BuildPayload(w)
  <2>1. "resolve" \in Guarded
    BY DEF Guarded, InTry
  <2>. QED  BY <1>6, <2>1 DEF BuildPayload, netsuite
<1>7. CASE LogImport(w)
  <2>1. "log_import" \in Guarded
    BY DEF Guarded, InTry
  <2>. QED  BY <1>7, <2>1 DEF LogImport, netsuite
<1>8. CASE Tag(w)
  <2>1. "tag" \in Guarded
    BY DEF Guarded
  <2>. QED  BY <1>8, <2>1, HoldsOrEnds DEF Tag, netsuite, Stays
<1>9. CASE RecordTagError(w)
  BY <1>9 DEF RecordTagError, netsuite
<1>10. CASE RecordError(w)
  <2>1. "record_error" \in Guarded
    BY DEF Guarded, Parking
  <2>. QED  BY <1>10, <2>1 DEF RecordError, netsuite
<1>11. CASE LogPark(w)
  BY <1>11 DEF LogPark, netsuite
<1>12. CASE RecordAuthError(w)
  BY <1>12 DEF RecordAuthError, netsuite
<1>13. CASE RecordAttempt(w)
  <2>1. "settle" \notin Guarded
    BY DEF Guarded, InTry, Parking
  <2>. QED  BY <1>13, <2>1, HoldsOrEnds DEF RecordAttempt, netsuite, Stays
<1>14. CASE CallFails(w)
  BY <1>14 DEF CallFails, netsuite
<1>. QED  BY <1>1, <1>2, <1>3, <1>4, <1>5, <1>6, <1>7, <1>8, <1>9, <1>10, <1>11, <1>12, <1>13, <1>14

(***************************************************************************)
(* Every step of an invocation is one of ImportClaims, or a stutter.       *)
(***************************************************************************)
LEMMA WorkerStepRefines ==
  ASSUME TypeInv, ImportInv, NEW w \in Workers, WorkerStep(w)
  PROVE  Claims!Next \/ UNCHANGED Claims!vars
<1>. job[w] \in Orders /\ pc[w] # "idle"
  BY StepIsAtWork
<1>. job[w] # NoOrder
  BY HandlerAssumption
<1>. USE DEF Claims!vars, Claims!Next, Claims!GoesOnOrEnds
<1>. Xref!XrefTypeOK
  BY DEF TypeInv
<1>1. CASE Stays(w) /\ UNCHANGED <<xref, nsTransactions>>
  <2>1. Rows' = Rows
    BY <1>1 DEF Rows, Xref!lookup
  <2>. QED  BY <1>1, <2>1 DEF Stays, Rows, Holds, Claims!Lose
<1>2. CASE MarkIgnored(w)
  <2>1. Rows' = [Rows EXCEPT ![job[w]] = "ignored"] /\ UNCHANGED nsTransactions
    BY <1>2, RowsMove DEF MarkIgnored, netsuite
  <2>2. Stays(w)
    <3>1. "gate_log" \notin Guarded /\ "ignore" \in Guarded
      BY DEF Guarded, InTry, Parking
    <3>. QED  BY <1>2, <3>1, AwaitStays, FailsStays DEF MarkIgnored
  <2>3. Holds[w] \in {job[w], NoOrder}
    BY HeldBehindClaim
  <2>4. Claims!Ignore(w, job[w])
    BY <2>1, <2>2, <2>3 DEF Claims!Ignore, Stays, Rows, Holds
  <2>. QED  BY <2>4
<1>3. CASE Claim(w)
  <2>. "claim" \notin Guarded /\ "claim_read" \notin Guarded /\ "get_order" \in Guarded
    BY DEF Guarded, InTry, Parking
  <2>1. CASE UNCHANGED xref /\ Await(w, "claim_read")
    BY <1>1, <1>3, <2>1, AwaitStays DEF Claim, netsuite
  <2>2. CASE Xref!InsertPending(job[w]) /\ (Await(w, "get_order") \/ Fails(w))
    <3>1. Rows[job[w]] = "absent" /\ Rows' = [Rows EXCEPT ![job[w]] = "pending"]
      BY <2>2, RowsMove DEF Xref!InsertPending, Xref!Exists, Rows
    <3>2. Holds[w] = NoOrder
      BY <1>3, HeldBehindClaim DEF Claim
    <3>3. Holds' = [Holds EXCEPT ![w] = job[w]] \/ Holds' = Holds
      <4>1. CASE Await(w, "get_order")
        BY <4>1, HoldsMoves DEF Await
      <4>2. CASE Fails(w)
        BY <4>2, <3>2, FailsStays DEF Stays, Holds
      <4>. QED  BY <2>2, <4>1, <4>2
    <3>4. Claims!Take(w, job[w])
      BY <1>3, <3>1, <3>2, <3>3 DEF Claims!Take, Claim, netsuite, Rows, Holds
    <3>. QED  BY <3>4
  <2>. QED  BY <1>3, <2>1, <2>2 DEF Claim
<1>4. CASE Upsert(w)
  <2>1. "upsert" \in Guarded
    BY DEF Guarded, InTry
  <2>2. Stays(w) /\ Holds[w] = job[w]
    BY <1>4, <2>1, AwaitStays, FailsStays, HeldBehindClaim DEF Upsert
  <2>3. Claims!Write(w)
    BY <1>4, <2>2 DEF Claims!Write, Upsert, Stays, Holds, Xref!lookup
  <2>. QED  BY <2>3
<1>5. CASE RecordSuccess(w) /\ Xref!recordSuccess(job[w])
  <2>1. "record_success" \in Guarded /\ job[w] \in nsTransactions
    BY <1>5 DEF Guarded, InTry, RecordSuccess, ImportInv, ImportersAreRight, PastUpsert
  <2>2. Stays(w) /\ Holds[w] = job[w]
    BY <1>5, <2>1, AwaitStays, FailsStays, ThrowStays, HeldBehindClaim DEF RecordSuccess
  <2>3. Rows[job[w]] # "absent" /\ Rows' = [Rows EXCEPT ![job[w]] = "synced"]
    BY <1>5, RowsMove DEF Xref!recordSuccess, Xref!Exists, Rows
  <2>4. Claims!Settle(w, "synced")
    BY <1>5, <2>1, <2>2, <2>3 DEF Claims!Settle, RecordSuccess, netsuite, Stays, Rows, Holds
  <2>. QED  BY <2>4
<1>6. CASE RecordFailure(w) /\ Xref!recordFailure(job[w])
  <2>1. "record_failure" \in Guarded
    BY DEF Guarded, Parking
  <2>2. Stays(w) /\ Holds[w] = job[w]
    BY <1>6, <2>1, AwaitStays, FailsStays, ThrowStays, HeldBehindClaim DEF RecordFailure
  <2>3. Rows[job[w]] # "absent" /\ Rows' = [Rows EXCEPT ![job[w]] = "error"]
    BY <1>6, RowsMove DEF Xref!recordFailure, Xref!Exists, Rows
  <2>4. Claims!Settle(w, "error")
    BY <1>6, <2>2, <2>3 DEF Claims!Settle, RecordFailure, netsuite, Stays, Rows, Holds
  <2>. QED  BY <2>4
<1>7. CASE RecordSuccess(w) /\ ~Xref!Exists(job[w])
  BY <1>1, <1>7, ThrowStays DEF RecordSuccess, Xref!recordSuccess, netsuite
<1>8. CASE RecordFailure(w) /\ ~Xref!Exists(job[w])
  BY <1>1, <1>8, ThrowStays DEF RecordFailure, Xref!recordFailure, netsuite
<1>. QED  BY <1>1, <1>2, <1>3, <1>4, <1>5, <1>6, <1>7, <1>8, SilentStep
          DEF WorkerStep, RecordSuccess, RecordFailure

(* Delivery, settlement, crashes and lost session locks.                   *)
LEMMA HostStepRefines ==
  ASSUME TypeInv,
         \/ \E w \in Workers, o \in Orders : Deliver(w, o)
         \/ \E w \in Workers : Settle(w) \/ Crash(w)
         \/ \E o \in Orders : Overrun(o)
  PROVE  Claims!Next \/ UNCHANGED Claims!vars
<1>. USE DEF Claims!vars, Claims!Next
<1>1. ASSUME UNCHANGED <<xref, nsTransactions>>, NEW w \in Workers, Stays(w)
      PROVE  Claims!Next \/ UNCHANGED Claims!vars
  <2>1. Rows' = Rows
    BY <1>1 DEF Rows, Xref!lookup
  <2>. QED  BY <1>1, <2>1 DEF Stays, Rows, Holds, Claims!Lose
<1>2. ASSUME NEW w \in Workers, NEW o \in Orders, Deliver(w, o)
      PROVE  Holds' = Holds /\ UNCHANGED <<xref, nsTransactions>>
  <2>1. {"idle", "settle", "gate_lookup", "claim"} \cap Guarded = {}
    BY DEF Guarded, InTry, Parking
  <2>2. PICK call \in {"settle", "gate_lookup", "claim"} :
           pc' = [pc EXCEPT ![w] = call] /\ job' = [job EXCEPT ![w] = o] /\ pc[w] = "idle"
    BY <1>2 DEF Deliver
  <2>3. \A v \in Workers : Held(v)' = Held(v)
    BY <2>1, <2>2 DEF TypeInv, WorkerTypeOK, Held, Guarded
  <2>. QED  BY <1>2, <2>3 DEF Deliver, netsuite, Holds
<1>3. ASSUME NEW w \in Workers, Settle(w) \/ Crash(w)
      PROVE  Stays(w) /\ UNCHANGED <<xref, nsTransactions>>
  <2>1. "idle" \notin Guarded
    BY DEF Guarded, InTry, Parking
  <2>2. pc' = [pc EXCEPT ![w] = "idle"] /\ job' = [job EXCEPT ![w] = NoOrder]
    BY <1>3 DEF Settle, Crash, Rest
  <2>3. Holds' = [Holds EXCEPT ![w] = NoOrder]
    BY <2>1, <2>2 DEF TypeInv, WorkerTypeOK, Holds, Held, Guarded
  <2>. QED  BY <1>3, <2>3 DEF Settle, Crash, netsuite, Stays
<1>4. ASSUME NEW o \in Orders, Overrun(o)
      PROVE  UNCHANGED Claims!vars
  BY <1>4 DEF Overrun, netsuite, worker, Held, Xref!lookup
<1>5. ASSUME UNCHANGED <<xref, nsTransactions>>, Holds' = Holds
      PROVE  UNCHANGED Claims!vars
  BY <1>5 DEF Holds, Xref!lookup
<1>. QED  BY <1>1, <1>2, <1>3, <1>4, <1>5

(* The clients of the queue: a replay forgets the row, nothing else        *)
(* touches what the claim is about.                                        *)
LEMMA ClientStepRefines ==
  ASSUME TypeInv, NEW o \in Orders, ClientStep(o)
  PROVE  Claims!Next \/ UNCHANGED Claims!vars
<1>. USE DEF Claims!vars, Claims!Next
<1>1. Holds' = Holds
  BY ClientsKeepWorkers DEF TypeInv, worker, Holds, Held
<1>2. CASE ReplayDelete(o)
  <2>1. Rows' = [Rows EXCEPT ![o] = "absent"]
    BY <1>2, RowsMove DEF TypeInv, ReplayDelete
  <2>2. Claims!Forget(o)
    BY <1>1, <1>2, <2>1 DEF Claims!Forget, ReplayDelete, netsuite, Rows, Holds
  <2>. QED  BY <2>2
<1>3. CASE ~ReplayDelete(o)
  <2>1. UNCHANGED <<xref, nsTransactions>>
    BY <1>3 DEF ClientStep, Shopify, Webhook, Edit, Poller, PollLookup, PollEnqueue, PollFails,
       Operator, ReplayLookup, ReplayEnqueue, ReplayFails, FixDefect, DlqHandler, DlqRecord,
       DlqQuarantine, DlqAttempt, DlqFind, DlqUpsert, DlqFails, netsuite
  <2>. QED  BY <1>1, <2>1 DEF Holds, Xref!lookup
<1>. QED  BY <1>2, <1>3

(***************************************************************************)
(* The pipeline implements the claim, for any number of orders, handlers,  *)
(* deliveries, polls, replays, failed calls, crashes and overruns: an      *)
(* order is written to NetSuite, and its row settled, only by invocations  *)
(* that inserted the row, and no row is synced before NetSuite has it.     *)
(***************************************************************************)
THEOREM ClaimsImplemented == Spec => ImportsAreClaimed
<1>1. Init => Claims!Init
  BY DEF Init, HandlerInit, Xref!XrefInit, Xref!NoRow, Xref!lookup, Claims!Init, Held,
         InTry, Parking
<1>2. TypeInv /\ ImportInv /\ [Next]_vars => [Claims!Next]_(Claims!vars)
  <2>. SUFFICES ASSUME TypeInv, ImportInv, [Next]_vars
                PROVE  Claims!Next \/ UNCHANGED Claims!vars
    OBVIOUS
  <2>1. CASE Handler
    BY <2>1, WorkerStepRefines, HostStepRefines DEF Handler, HandlerNext, Progress, WorkerStep
  <2>2. CASE SwitchConnection \/ UNCHANGED vars
    BY <2>2 DEF SwitchConnection, vars, handlerVars, worker, netsuite, Claims!vars, Held,
                Xref!lookup
  <2>3. CASE \E o \in Orders : ClientStep(o)
    BY <2>3, ClientStepRefines
  <2>. QED  BY <2>1, <2>2, <2>3 DEF Next, ClientStep
<1>3. Spec => []TypeInv
  BY TypeInvInit, TypeInvStep, PTL DEF Spec
<1>4. Spec => []ImportInv
  BY ImportInvHolds
<1>. QED  BY <1>1, <1>2, <1>3, <1>4, PTL DEF Spec, ImportsAreClaimed, Claims!Spec

=============================================================================
