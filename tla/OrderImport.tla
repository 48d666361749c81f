----------------------------- MODULE OrderImport -----------------------------
(***************************************************************************)
(* handleOrderMessage, the handler that turns one message of the order     *)
(* queue into a NetSuite transaction.  A worker is one invocation of it.   *)
(* pc[w] names the call the invocation is awaiting: every step below is    *)
(* that call taking effect, its answer coming back and the code that runs  *)
(* up to the next await.  Other workers, redeliveries and the operators'   *)
(* tools act between any two of them.                                      *)
(*                                                                         *)
(* A call can fail before it has had its effect (CallFails), and a call    *)
(* that writes can also fail after it (the step's Fails disjunct: the      *)
(* response was lost).  What a failure leads to depends on where it is     *)
(* raised: see Fails.                                                      *)
(***************************************************************************)
EXTENDS OrderQueue

CONSTANTS
    NoOrder,           \* what an idle worker works on
    Guests,            \* the orders placed without a customer account
    WriteTags,         \* the connection's writeTagsOnImport
    Arrivals,          \* the states in Shopify an order may start in
    Flaws,             \* the defects an order may start with
    Budget             \* how many times each bounded event may happen

(* The events TLC needs a bound on: deliveries by Shopify, polls that find *)
(* the order, replays, failed calls, host crashes, handlers outliving      *)
(* their session lock, edits of an order in Shopify, and switches of the   *)
(* connection's enabled flag.                                              *)
Events == {"webhook", "poll", "replay", "failure", "crash", "overrun", "edit", "switch"}

ASSUME HandlerAssumption ==
    /\ NoOrder \notin Orders
    /\ Guests \subseteq Orders
    /\ WriteTags \in BOOLEAN
    /\ Arrivals \subseteq {"eligible", "held", "missing", "test"}
    /\ Flaws \subseteq {"none", "mapping", "balancing", "item_resolution"}
    /\ Budget \in [Events -> Nat]

VARIABLES
    xref,             \* the entity_xref table
    enabled,          \* the connection's enabled flag
    shop,             \* each order as Shopify would return it now
    defect,           \* what keeps the order from being mapped, if anything
    nsCustomers,      \* orders whose customer exists in NetSuite
    nsTransactions,   \* orders that have a NetSuite transaction
    ledger,           \* the order_sync_log row of each order
    errors,           \* the kinds of error_records rows each order has
    attempts,         \* the outcomes of the order_attempt rows each order has
    pc,               \* the call each worker awaits
    job,              \* the order each worker handles
    result,           \* the outcome each worker is about to record or settle by
    budget            \* what is left of Budget

Xref == INSTANCE XrefStore

shopify  == <<enabled, shop, defect>>
netsuite == <<nsCustomers, nsTransactions>>
records  == <<ledger, errors, attempts>>
worker   == <<pc, job, result>>

handlerVars == <<bus, xref, shopify, netsuite, records, worker, budget>>

(***************************************************************************)
(* Types.  An order is `held' while its payment or fraud review is         *)
(* pending, `eligible' while checkEligibility accepts it, `missing' when   *)
(* Shopify no longer knows it, and `test' for good if it is a test order.  *)
(***************************************************************************)
ShopStates == {"eligible", "held", "missing", "test"}

Defects == {"none", "mapping", "balancing", "item_resolution"}

LedgerStatuses == {"absent", "imported", "parked", "ignored"}

(* nsId: whether the row still carries the NetSuite internal id.           *)
LedgerRow == [status : LedgerStatuses, nsId : BOOLEAN]

ErrorKinds == {"parked", "auth", "tag", "dlq_open", "dlq_orphaned", "quarantined"}

Outcomes == {"imported", "parked", "ignored_by_eligibility", "already_synced",
             "already_claimed", "ignored", "transient_throw", "auth_throw", "quarantined"}

(* Results that leave the handler as an exception: the host abandons the   *)
(* message.  `escaped' is a throw from before the claim's try block, which *)
(* writes no order_attempt row; neither does a `rejected' message.         *)
Throws == {"transient_throw", "auth_throw", "escaped"}

(* `caught' while the catch block of the handler runs.                     *)
Results == Outcomes \cup {"none", "rejected", "escaped", "caught"}

(* The awaits before the try block, inside it, in parkOutcome, which both   *)
(* the try block and its catch call, and in the catch only.                *)
BeforeClaim == {"gate_lookup", "gate_ignore", "gate_log", "claim", "claim_read"}

InTry == {"get_order", "ignore", "ignore_log", "customer", "resolve", "upsert",
          "record_success", "log_import", "tag_record"}

Parking == {"record_failure", "record_error", "log_park"}

PCs == {"idle", "tag", "record_auth", "record_attempt", "settle"}
          \cup BeforeClaim \cup InTry \cup Parking

(* The worker is inside the part of the handler that the claim guards.     *)
Claimants(o) ==
    {w \in Workers : job[w] = o /\ pc[w] \in InTry \cup Parking \cup {"tag", "record_auth"}}

HandlerTypeOK ==
    /\ QueueTypeOK
    /\ Xref!XrefTypeOK
    /\ enabled \in BOOLEAN
    /\ shop \in [Orders -> ShopStates]
    /\ defect \in [Orders -> Defects]
    /\ nsCustomers \subseteq Orders
    /\ nsTransactions \subseteq Orders
    /\ ledger \in [Orders -> LedgerRow]
    /\ errors \in [Orders -> SUBSET ErrorKinds]
    /\ attempts \in [Orders -> SUBSET Outcomes]
    /\ pc \in [Workers -> PCs]
    /\ job \in [Workers -> Orders \cup {NoOrder}]
    /\ result \in [Workers -> Results]
    /\ budget \in [Events -> Nat]

HandlerInit ==
    /\ QueueInit
    /\ Xref!XrefInit
    /\ enabled = TRUE
    /\ shop \in [Orders -> Arrivals]
    /\ defect \in [Orders -> Flaws]
    /\ nsCustomers = {}
    /\ nsTransactions = {}
    /\ ledger = [o \in Orders |-> [status |-> "absent", nsId |-> FALSE]]
    /\ errors = [o \in Orders |-> {}]
    /\ attempts = [o \in Orders |-> {}]
    /\ pc = [w \in Workers |-> "idle"]
    /\ job = [w \in Workers |-> NoOrder]
    /\ result = [w \in Workers |-> "none"]
    /\ budget = Budget

-----------------------------------------------------------------------------
(***************************************************************************)
(* How a step ends.                                                        *)
(***************************************************************************)
Spend(event) ==
    /\ budget[event] > 0
    /\ budget' = [budget EXCEPT ![event] = @ - 1]

Await(w, call) ==
    /\ pc' = [pc EXCEPT ![w] = call]
    /\ UNCHANGED <<job, result, budget>>

(* finish(...) and the short-circuit returns: record the attempt, return.  *)
Finish(w, outcome) ==
    /\ pc' = [pc EXCEPT ![w] = "record_attempt"]
    /\ result' = [result EXCEPT ![w] = outcome]
    /\ UNCHANGED <<job, budget>>

(* The exception leaves handleOrderMessage from outside its try block.     *)
Escape(w) ==
    /\ pc' = [pc EXCEPT ![w] = "settle"]
    /\ result' = [result EXCEPT ![w] = "escaped"]
    /\ UNCHANGED job

(* classifyAndRoute: transient errors are rethrown, auth errors recorded   *)
(* and rethrown, everything else parks the order.                          *)
Catch(w, errorClass) ==
    /\ \/ /\ errorClass = "transient"
          /\ pc' = [pc EXCEPT ![w] = "record_attempt"]
          /\ result' = [result EXCEPT ![w] = "transient_throw"]
       \/ /\ errorClass = "auth"
          /\ pc' = [pc EXCEPT ![w] = "record_auth"]
          /\ result' = [result EXCEPT ![w] = "caught"]
       \/ /\ errorClass = "permanent"
          /\ pc' = [pc EXCEPT ![w] = "record_failure"]
          /\ result' = [result EXCEPT ![w] = "caught"]
    /\ UNCHANGED job

(* A throw from the catch block itself: resolveAttemptOutcome calls every  *)
(* throw that is not an auth error transient.                              *)
Rethrow(w) ==
    /\ pc' = [pc EXCEPT ![w] = "record_attempt"]
    /\ result' = [result EXCEPT ![w] = "transient_throw"]
    /\ UNCHANGED job

(* What the failures of a call can be classified as: only Shopify and      *)
(* NetSuite reject credentials; "permanent" stands for data,               *)
(* unmapped_construct and unknown.                                         *)
ErrorClasses(call) ==
    {"transient", "permanent"} \cup
        (IF call \in {"get_order", "customer", "resolve", "upsert"} THEN {"auth"} ELSE {})

(* An exception of the class reaches the innermost handler there is.       *)
Throw(w, errorClass) ==
    \/ pc[w] \in BeforeClaim /\ Escape(w)
    \/ pc[w] \in InTry \cup Parking /\ result[w] # "caught" /\ Catch(w, errorClass)
    \/ pc[w] \in Parking \cup {"record_auth"} /\ result[w] = "caught" /\ Rethrow(w)

(* The awaited call throws.                                                *)
Fails(w) ==
    /\ Spend("failure")
    /\ \E errorClass \in ErrorClasses(pc[w]) : Throw(w, errorClass)

CallFails(w) ==
    /\ Fails(w)
    /\ UNCHANGED <<bus, xref, shopify, netsuite, records>>

(* The upsert of order_sync_log overwrites the NetSuite columns with what  *)
(* it is given, or with NULL when it is given nothing.                     *)
LedgerUpsert(o, status, nsId) ==
    ledger' = [ledger EXCEPT ![o] = [status |-> status, nsId |-> nsId]]

(* writeSyncLog: only the import passes a NetSuite id.                     *)
LedgerWrite(o, status) == LedgerUpsert(o, status, status = "imported")

ErrorRecord(o, kind) == errors' = [errors EXCEPT ![o] = @ \cup {kind}]

-----------------------------------------------------------------------------
(***************************************************************************)
(* Delivery, the update_before_create gate, and the claim.                 *)
(***************************************************************************)
(* Fault: the gate does not ask who published the message.                 *)
GatedWhateverSource(body) == body.topic = "updated"

Gated(body) == body.source = "webhook" /\ body.topic = "updated"

Deliver(w, o) ==
    /\ pc[w] = "idle"
    /\ Receive(w, o)
    /\ job' = [job EXCEPT ![w] = o]
    /\ \/ /\ ~enabled
          /\ pc' = [pc EXCEPT ![w] = "settle"]
          /\ result' = [result EXCEPT ![w] = "rejected"]
       \/ /\ enabled
          /\ pc' = [pc EXCEPT ![w] =
                      IF Gated(Head(queue[o]).body) THEN "gate_lookup" ELSE "claim"]
          /\ UNCHANGED result
    /\ UNCHANGED <<xref, shopify, netsuite, records, budget>>

(* Fault: the row the gate looked up is not tested.                        *)
GateLookupUntested(w) ==
    /\ pc[w] = "gate_lookup"
    /\ Await(w, "gate_ignore")
    /\ UNCHANGED <<bus, xref, shopify, netsuite, records>>

GateLookup(w) ==
    /\ pc[w] = "gate_lookup"
    /\ Await(w, IF Xref!Exists(job[w]) THEN "claim" ELSE "gate_ignore")
    /\ UNCHANGED <<bus, xref, shopify, netsuite, records>>

(* The row is marked ignored: by the gate, and after checkEligibility.     *)
MarkIgnored(w) ==
    /\ pc[w] \in {"gate_ignore", "ignore"}
    /\ Xref!markIgnored(job[w])
    /\ \/ Await(w, IF pc[w] = "gate_ignore" THEN "gate_log" ELSE "ignore_log")
       \/ Fails(w)
    /\ UNCHANGED <<bus, shopify, netsuite, records>>

(* Fault: the eligibility check returns without its sync-log row.          *)
LogIgnoredAtGateOnly(w) ==
    /\ pc[w] \in {"gate_log", "ignore_log"}
    /\ IF pc[w] = "gate_log" THEN LedgerWrite(job[w], "ignored") ELSE UNCHANGED ledger
    /\ Finish(w, "ignored_by_eligibility")
    /\ UNCHANGED <<bus, xref, shopify, netsuite, errors, attempts>>

LogIgnored(w) ==
    /\ pc[w] \in {"gate_log", "ignore_log"}
    /\ LedgerWrite(job[w], "ignored")
    /\ \/ Finish(w, "ignored_by_eligibility")
       \/ Fails(w)
    /\ UNCHANGED <<bus, xref, shopify, netsuite, errors, attempts>>

(* The INSERT of claim().                                                  *)
Claim(w) ==
    /\ pc[w] = "claim"
    /\ \/ /\ Xref!InsertPending(job[w])
          /\ Await(w, "get_order") \/ Fails(w)
       \/ /\ Xref!Exists(job[w])
          /\ Await(w, "claim_read")
          /\ UNCHANGED xref
    /\ UNCHANGED <<bus, shopify, netsuite, records>>

(* Fault: a redelivery takes a pending row for its own and resumes.        *)
ClaimReadThatResumes(w) ==
    /\ pc[w] = "claim_read"
    /\ IF Xref!lookup(job[w]) = "pending"
       THEN Await(w, "get_order")
       ELSE IF Xref!Exists(job[w])
            THEN Finish(w, Xref!ClaimOutcome(Xref!lookup(job[w])))
            ELSE Throw(w, "permanent") /\ UNCHANGED budget
    /\ UNCHANGED <<bus, xref, shopify, netsuite, records>>

(* Its SELECT of the row that was in the way, which a replay may have      *)
(* deleted since: "row missing after ON CONFLICT".                         *)
ClaimRead(w) ==
    /\ pc[w] = "claim_read"
    /\ \/ /\ Xref!Exists(job[w])
          /\ Finish(w, Xref!ClaimOutcome(Xref!lookup(job[w])))
       \/ /\ ~Xref!Exists(job[w])
          /\ Throw(w, "permanent")
          /\ UNCHANGED budget
    /\ UNCHANGED <<bus, xref, shopify, netsuite, records>>

-----------------------------------------------------------------------------
(***************************************************************************)
(* The claimed order: fetch, eligibility, customer, payload, NetSuite.     *)
(***************************************************************************)
(* Fault: an order the poller or an operator asks for is not checked.      *)
GetOrderUncheckedOnRescue(w) ==
    /\ pc[w] = "get_order"
    /\ \/ shop[job[w]] = "missing" /\ Throw(w, "permanent") /\ UNCHANGED budget
       \/ /\ shop[job[w]] # "missing"
          /\ LET rescued == /\ lock[job[w]] = w
                            /\ Head(queue[job[w]]).body.source # "webhook"
             IN  Await(w, IF shop[job[w]] = "eligible" \/ rescued THEN "customer" ELSE "ignore")
    /\ UNCHANGED <<bus, xref, shopify, netsuite, records>>

GetOrder(w) ==
    /\ pc[w] = "get_order"
    /\ \/ /\ shop[job[w]] = "missing"
          /\ Throw(w, "permanent")
          /\ UNCHANGED budget
       \/ /\ shop[job[w]] \in {"held", "test"}
          /\ Await(w, "ignore")
       \/ /\ shop[job[w]] = "eligible"
          /\ Await(w, "customer")
    /\ UNCHANGED <<bus, xref, shopify, netsuite, records>>

ResolveCustomer(w) ==
    /\ pc[w] = "customer"
    /\ nsCustomers' = nsCustomers \cup ({job[w]} \ Guests)
    /\ Await(w, "resolve") \/ Fails(w)
    /\ UNCHANGED <<bus, xref, shopify, nsTransactions, records>>

(* Fault: the row is marked synced before NetSuite is written.             *)
BuildPayloadRecordsFirst(w) ==
    /\ pc[w] = "resolve"
    /\ Await(w, IF defect[job[w]] = "none" THEN "record_success" ELSE "record_failure")
    /\ UNCHANGED <<bus, xref, shopify, netsuite, records>>

(* Fault: an order that cannot be mapped returns `parked' without parking. *)
BuildPayloadUnparked(w) ==
    /\ pc[w] = "resolve"
    /\ IF defect[job[w]] = "none" THEN Await(w, "upsert") ELSE Finish(w, "parked")
    /\ UNCHANGED <<bus, xref, shopify, netsuite, records>>

(* buildOrderPayload, the tax header, applyBalancing and                   *)
(* resolveItemReferences: an order that one of them cannot handle parks.   *)
BuildPayload(w) ==
    /\ pc[w] = "resolve"
    /\ Await(w, IF defect[job[w]] = "none" THEN "upsert" ELSE "record_failure")
    /\ UNCHANGED <<bus, xref, shopify, netsuite, records>>

Upsert(w) ==
    /\ pc[w] = "upsert"
    /\ nsTransactions' = nsTransactions \cup {job[w]}
    /\ Await(w, "record_success") \/ Fails(w)
    /\ UNCHANGED <<bus, xref, shopify, nsCustomers, records>>

RecordSuccess(w) ==
    /\ pc[w] = "record_success"
    /\ \/ /\ Xref!recordSuccess(job[w])
          /\ Await(w, "log_import") \/ Fails(w)
       \/ /\ ~Xref!Exists(job[w])
          /\ Throw(w, "permanent")
          /\ UNCHANGED <<xref, budget>>
    /\ UNCHANGED <<bus, shopify, netsuite, records>>

LogImport(w) ==
    /\ pc[w] = "log_import"
    /\ LedgerWrite(job[w], "imported")
    /\ \/ WriteTags /\ Await(w, "tag")
       \/ ~WriteTags /\ Finish(w, "imported")
       \/ Fails(w)
    /\ UNCHANGED <<bus, xref, shopify, netsuite, errors, attempts>>

(* tagOrder has a catch of its own, which records the error and goes on.   *)
Tag(w) ==
    /\ pc[w] = "tag"
    /\ \/ Finish(w, "imported")
       \/ /\ Spend("failure")
          /\ pc' = [pc EXCEPT ![w] = "tag_record"]
          /\ UNCHANGED <<job, result>>
    /\ UNCHANGED <<bus, xref, shopify, netsuite, records>>

RecordTagError(w) ==
    /\ pc[w] = "tag_record"
    /\ ErrorRecord(job[w], "tag")
    /\ Finish(w, "imported") \/ Fails(w)
    /\ UNCHANGED <<bus, xref, shopify, netsuite, ledger, attempts>>

-----------------------------------------------------------------------------
(***************************************************************************)
(* parkOutcome and the auth branch of classifyAndRoute.                    *)
(***************************************************************************)
(* Fault: the row is put in error without an error record.                 *)
RecordFailureSilent(w) ==
    /\ pc[w] = "record_failure"
    /\ \/ Xref!recordFailure(job[w]) /\ Await(w, "log_park")
       \/ ~Xref!Exists(job[w]) /\ Throw(w, "permanent") /\ UNCHANGED <<xref, budget>>
    /\ UNCHANGED <<bus, shopify, netsuite, records>>

RecordFailure(w) ==
    /\ pc[w] = "record_failure"
    /\ \/ /\ Xref!recordFailure(job[w])
          /\ Await(w, "record_error") \/ Fails(w)
       \/ /\ ~Xref!Exists(job[w])
          /\ Throw(w, "permanent")
          /\ UNCHANGED <<xref, budget>>
    /\ UNCHANGED <<bus, shopify, netsuite, records>>

RecordError(w) ==
    /\ pc[w] = "record_error"
    /\ ErrorRecord(job[w], "parked")
    /\ Await(w, "log_park") \/ Fails(w)
    /\ UNCHANGED <<bus, xref, shopify, netsuite, ledger, attempts>>

LogPark(w) ==
    /\ pc[w] = "log_park"
    /\ LedgerWrite(job[w], "parked")
    /\ Finish(w, "parked") \/ Fails(w)
    /\ UNCHANGED <<bus, xref, shopify, netsuite, errors, attempts>>

RecordAuthError(w) ==
    /\ pc[w] = "record_auth"
    /\ ErrorRecord(job[w], "auth")
    /\ Finish(w, "auth_throw") \/ Fails(w)
    /\ UNCHANGED <<bus, xref, shopify, netsuite, ledger, attempts>>

-----------------------------------------------------------------------------
(***************************************************************************)
(* The end of an invocation.                                               *)
(***************************************************************************)
(* recordAttempt swallows the failure of its own write.                    *)
RecordAttempt(w) ==
    /\ pc[w] = "record_attempt"
    /\ pc' = [pc EXCEPT ![w] = "settle"]
    /\ \/ /\ attempts' = [attempts EXCEPT ![job[w]] = @ \cup {result[w]}]
          /\ UNCHANGED budget
       \/ /\ Spend("failure")
          /\ UNCHANGED attempts
    /\ UNCHANGED <<bus, xref, shopify, netsuite, ledger, errors, job, result>>

Rest(w) ==
    /\ pc' = [pc EXCEPT ![w] = "idle"]
    /\ job' = [job EXCEPT ![w] = NoOrder]
    /\ result' = [result EXCEPT ![w] = "none"]

(* The host completes the message, or abandons it after a throw; with the  *)
(* session lock gone it can do neither.                                    *)
Settle(w) ==
    /\ pc[w] = "settle"
    /\ \/ lock[job[w]] = w /\ result[w] \notin Throws /\ Complete(job[w])
       \/ lock[job[w]] = w /\ result[w] \in Throws /\ Release(job[w])
       \/ lock[job[w]] # w /\ UNCHANGED bus
    /\ Rest(w)
    /\ UNCHANGED <<xref, shopify, netsuite, records, budget>>

(* The host dies; its session lock runs out some time later.               *)
Crash(w) ==
    /\ pc[w] # "idle"
    /\ Spend("crash")
    /\ \/ lock[job[w]] = w /\ Release(job[w])
       \/ lock[job[w]] # w /\ UNCHANGED bus
    /\ Rest(w)
    /\ UNCHANGED <<xref, shopify, netsuite, records>>

(* The handler outlives maxAutoRenewDuration: its session goes to others   *)
(* while it runs on.                                                       *)
Overrun(o) ==
    /\ lock[o] # Nobody
    /\ Spend("overrun")
    /\ Release(o)
    /\ UNCHANGED <<xref, shopify, netsuite, records, worker>>

Progress(w) ==
    \/ GateLookup(w) \/ MarkIgnored(w) \/ LogIgnored(w) \/ Claim(w) \/ ClaimRead(w)
    \/ GetOrder(w) \/ ResolveCustomer(w) \/ BuildPayload(w) \/ Upsert(w)
    \/ RecordSuccess(w) \/ LogImport(w) \/ Tag(w) \/ RecordTagError(w)
    \/ RecordFailure(w) \/ RecordError(w) \/ LogPark(w) \/ RecordAuthError(w)
    \/ RecordAttempt(w) \/ Settle(w) \/ CallFails(w)

HandlerNext ==
    \/ \E w \in Workers, o \in Orders : Deliver(w, o)
    \/ \E w \in Workers : Progress(w) \/ Crash(w)
    \/ \E o \in Orders : Overrun(o)

=============================================================================
