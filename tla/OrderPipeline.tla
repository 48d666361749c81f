---------------------------- MODULE OrderPipeline ----------------------------
(***************************************************************************)
(* The order-import pipeline: the handler of OrderImport together with     *)
(* everything that feeds its queue or touches its rows.  Shopify delivers  *)
(* webhooks, the catch-up poller re-publishes orders the xref has not      *)
(* settled, operators replay orders, and the dead-letter handler           *)
(* quarantines what the queue gave up on.  Each of them reads a row in one *)
(* step and acts on what it read in a later one.                           *)
(***************************************************************************)
EXTENDS OrderImport, FiniteSets

VARIABLES
    poll,       \* the poller's position on each order of its page
    replay,     \* the position of the replay of each order
    dlq,        \* the position of the dead-letter handler on each order
    dlqRead     \* the ledger status the dead-letter handler has read

producers == <<poll, replay>>

deadLetters == <<dlq, dlqRead>>

vars == <<handlerVars, producers, deadLetters>>

PollSteps == {"idle", "enqueue"}

ReplaySteps == {"idle", "delete", "enqueue"}

DlqSteps == {"idle", "quarantine", "attempt", "find", "upsert"}

TypeOK ==
    /\ HandlerTypeOK
    /\ poll \in [Orders -> PollSteps]
    /\ replay \in [Orders -> ReplaySteps]
    /\ dlq \in [Orders -> DlqSteps]
    /\ dlqRead \in [Orders -> LedgerStatuses]

Init ==
    /\ HandlerInit
    /\ poll = [o \in Orders |-> "idle"]
    /\ replay = [o \in Orders |-> "idle"]
    /\ dlq = [o \in Orders |-> "idle"]
    /\ dlqRead = [o \in Orders |-> "absent"]

-----------------------------------------------------------------------------
(***************************************************************************)
(* Shopify.  Webhooks may be lost, delivered twice or out of order: every  *)
(* delivery that handleShopifyWebhook enqueues is an event of its own; one *)
(* it refuses, or fails to archive or enqueue, changes nothing here.       *)
(***************************************************************************)
Webhook(o, topic) ==
    /\ enabled
    /\ Spend("webhook")
    /\ enqueue(o, [topic |-> topic, source |-> "webhook"])
    /\ UNCHANGED <<xref, shopify, netsuite, records, worker, producers, deadLetters>>

(* A payment or fraud review settles, or the order is voided or deleted.   *)
Edit(o) ==
    /\ Spend("edit")
    /\ \/ shop[o] = "held" /\ shop' = [shop EXCEPT ![o] = "eligible"]
       \/ shop[o] = "eligible" /\ \E s \in {"held", "missing"} : shop' = [shop EXCEPT ![o] = s]
    /\ UNCHANGED <<bus, xref, enabled, defect, netsuite, records, worker, producers, deadLetters>>

(* An operator registers the missing item, or corrects the mapping.        *)
FixDefect(o) ==
    /\ defect[o] # "none"
    /\ defect' = [defect EXCEPT ![o] = "none"]
    /\ UNCHANGED <<bus, xref, enabled, shop, netsuite, records, worker, budget, producers,
                   deadLetters>>

SwitchConnection ==
    /\ Spend("switch")
    /\ enabled' = ~enabled
    /\ UNCHANGED <<bus, xref, shop, defect, netsuite, records, worker, producers, deadLetters>>

-----------------------------------------------------------------------------
(***************************************************************************)
(* The catch-up poller, on one order of the page Shopify returned.  A poll *)
(* that fails before it enqueues leaves the order to a later poll.         *)
(***************************************************************************)
PollLookup(o) ==
    /\ enabled
    /\ poll[o] = "idle"
    /\ shop[o] # "missing"
    /\ Xref!lookup(o) \notin {"synced", "ignored"}
    /\ Spend("poll")
    /\ poll' = [poll EXCEPT ![o] = "enqueue"]
    /\ UNCHANGED <<bus, xref, shopify, netsuite, records, worker, replay, deadLetters>>

PollEnqueue(o) ==
    /\ poll[o] = "enqueue"
    /\ enqueue(o, [topic |-> "updated", source |-> "catchup"])
    /\ poll' = [poll EXCEPT ![o] = "idle"]
    /\ UNCHANGED <<xref, shopify, netsuite, records, worker, budget, replay, deadLetters>>

PollFails(o) ==
    /\ poll[o] = "enqueue"
    /\ Spend("failure")
    /\ poll' = [poll EXCEPT ![o] = "idle"]
    /\ UNCHANGED <<bus, xref, shopify, netsuite, records, worker, replay, deadLetters>>

-----------------------------------------------------------------------------
(***************************************************************************)
(* requestReplay: look the row up, delete it, publish the order again.     *)
(***************************************************************************)
ReplayLookup(o, force) ==
    /\ replay[o] = "idle"
    /\ Xref!lookup(o) = "synced" => force
    /\ Spend("replay")
    /\ replay' = [replay EXCEPT ![o] = IF Xref!Exists(o) THEN "delete" ELSE "enqueue"]
    /\ UNCHANGED <<bus, xref, shopify, netsuite, records, worker, poll, deadLetters>>

(* Fault: the replay returns once the row is gone.                         *)
ReplayDeleteReturns(o) ==
    /\ replay[o] = "delete"
    /\ Xref!delete(o)
    /\ replay' = [replay EXCEPT ![o] = "idle"]
    /\ UNCHANGED <<bus, shopify, netsuite, records, worker, budget, poll, deadLetters>>

ReplayDelete(o) ==
    /\ replay[o] = "delete"
    /\ Xref!delete(o)
    /\ replay' = [replay EXCEPT ![o] = "enqueue"]
    /\ UNCHANGED <<bus, shopify, netsuite, records, worker, budget, poll, deadLetters>>

ReplayEnqueue(o) ==
    /\ replay[o] = "enqueue"
    /\ enqueue(o, [topic |-> "updated", source |-> "replay"])
    /\ replay' = [replay EXCEPT ![o] = "idle"]
    /\ UNCHANGED <<xref, shopify, netsuite, records, worker, budget, poll, deadLetters>>

ReplayFails(o) ==
    /\ replay[o] # "idle"
    /\ Spend("failure")
    /\ replay' = [replay EXCEPT ![o] = "idle"]
    /\ UNCHANGED <<bus, xref, shopify, netsuite, records, worker, poll, deadLetters>>

-----------------------------------------------------------------------------
(***************************************************************************)
(* handleDeadLetteredOrder: record the message, flip the record to         *)
(* quarantined, write an attempt row, and refresh the ledger row by        *)
(* reading it and upserting what was read.  A throw or a crash leaves the  *)
(* message in the dead-letter queue to be handled again from the start; an *)
(* error record that was not flipped by then stays open.                   *)
(***************************************************************************)
DlqGoto(o, step) == dlq' = [dlq EXCEPT ![o] = step]

(* The message is acknowledged when the handler returns.                   *)
DlqReturn(o) ==
    /\ DlqGoto(o, "idle")
    /\ deadLetter' = [deadLetter EXCEPT ![o] = Tail(@)]
    /\ UNCHANGED <<queue, lock>>

DlqRecord(o) ==
    /\ dlq[o] = "idle"
    /\ deadLetter[o] # << >>
    /\ ErrorRecord(o, "dlq_open")
    /\ DlqGoto(o, "quarantine")
    /\ UNCHANGED <<bus, xref, shopify, netsuite, ledger, attempts, worker, budget, producers,
                   dlqRead>>

DlqQuarantine(o) ==
    /\ dlq[o] = "quarantine"
    /\ errors' = [errors EXCEPT ![o] = (@ \ {"dlq_open"}) \cup {"quarantined"}]
    /\ DlqGoto(o, "attempt")
    /\ UNCHANGED <<bus, xref, shopify, netsuite, ledger, attempts, worker, budget, producers,
                   dlqRead>>

(* The failure of the attempt row is swallowed.                            *)
DlqAttempt(o) ==
    /\ dlq[o] = "attempt"
    /\ \/ /\ attempts' = [attempts EXCEPT ![o] = @ \cup {"quarantined"}]
          /\ UNCHANGED budget
       \/ /\ Spend("failure")
          /\ UNCHANGED attempts
    /\ DlqGoto(o, "find")
    /\ UNCHANGED <<bus, xref, shopify, netsuite, ledger, errors, worker, producers, dlqRead>>

(* Fault: the missing ledger row is dereferenced outside the try block.    *)
DlqFindThrows(o) ==
    /\ dlq[o] = "find"
    /\ \/ /\ ledger[o].status # "absent"
          /\ dlqRead' = [dlqRead EXCEPT ![o] = ledger[o].status]
          /\ DlqGoto(o, "upsert")
       \/ ledger[o].status = "absent" /\ DlqGoto(o, "idle") /\ UNCHANGED dlqRead
    /\ UNCHANGED <<bus, budget, xref, shopify, netsuite, records, worker, producers>>

(* A failure of the ledger refresh is swallowed too.                       *)
DlqFind(o) ==
    /\ dlq[o] = "find"
    /\ \/ /\ ledger[o].status # "absent"
          /\ dlqRead' = [dlqRead EXCEPT ![o] = ledger[o].status]
          /\ DlqGoto(o, "upsert")
          /\ UNCHANGED <<bus, budget>>
       \/ /\ ledger[o].status = "absent"
          /\ DlqReturn(o)
          /\ UNCHANGED <<dlqRead, budget>>
       \/ /\ Spend("failure")
          /\ DlqReturn(o)
          /\ UNCHANGED dlqRead
    /\ UNCHANGED <<xref, shopify, netsuite, records, worker, producers>>

(* The upsert names no NetSuite column, and the table overwrites the ones  *)
(* it is not given.                                                        *)
DlqUpsert(o) ==
    /\ dlq[o] = "upsert"
    /\ \/ /\ LedgerUpsert(o, dlqRead[o], FALSE)
          /\ UNCHANGED budget
       \/ /\ Spend("failure")
          /\ UNCHANGED ledger
    /\ DlqReturn(o)
    /\ dlqRead' = [dlqRead EXCEPT ![o] = "absent"]
    /\ UNCHANGED <<xref, shopify, netsuite, errors, attempts, worker, producers>>

(* Fault: the handler swallows its exceptions, and the message is lost.    *)
DlqFailsQuietly(o) ==
    /\ dlq[o] # "idle"
    /\ Spend("failure")
    /\ DlqReturn(o)
    /\ dlqRead' = [dlqRead EXCEPT ![o] = "absent"]
    /\ UNCHANGED <<xref, shopify, netsuite, records, worker, producers>>

DlqFails(o) ==
    /\ dlq[o] # "idle"
    /\ Spend("failure")
    /\ DlqGoto(o, "idle")
    /\ dlqRead' = [dlqRead EXCEPT ![o] = "absent"]
    /\ \/ /\ dlq[o] = "quarantine"
          /\ errors' = [errors EXCEPT ![o] = (@ \ {"dlq_open"}) \cup {"dlq_orphaned"}]
       \/ /\ dlq[o] # "quarantine"
          /\ UNCHANGED errors
    /\ UNCHANGED <<bus, xref, shopify, netsuite, ledger, attempts, worker, producers>>

-----------------------------------------------------------------------------
Handler == HandlerNext /\ UNCHANGED <<producers, deadLetters>>

Shopify(o) == (\E topic \in {"create", "updated"} : Webhook(o, topic)) \/ Edit(o)

Poller(o) == PollLookup(o) \/ PollEnqueue(o) \/ PollFails(o)

Operator(o) ==
    \/ \E force \in BOOLEAN : ReplayLookup(o, force)
    \/ ReplayDelete(o) \/ ReplayEnqueue(o) \/ ReplayFails(o)
    \/ FixDefect(o)

DlqHandler(o) ==
    \/ DlqRecord(o) \/ DlqQuarantine(o) \/ DlqAttempt(o) \/ DlqFind(o) \/ DlqUpsert(o)
    \/ DlqFails(o)

Next ==
    \/ Handler
    \/ SwitchConnection
    \/ \E o \in Orders : Shopify(o) \/ Poller(o) \/ Operator(o) \/ DlqHandler(o)

Spec == Init /\ [][Next]_vars

(***************************************************************************)
(* Fairness.  An invocation that runs gets an answer or an error from each *)
(* call (every client has a timeout); the host hands a waiting message to  *)
(* a free worker; the producers and the dead-letter handler finish what    *)
(* they began.  Nothing obliges Shopify, an operator or the environment to *)
(* act, nor a call to succeed.                                             *)
(***************************************************************************)
HandlerProgress(w) == Progress(w) /\ UNCHANGED <<producers, deadLetters>>

Delivery(o) == (\E w \in Workers : Deliver(w, o)) /\ UNCHANGED <<producers, deadLetters>>

Fairness ==
    /\ \A w \in Workers : WF_vars(HandlerProgress(w))
    /\ \A o \in Orders :
          /\ WF_vars(Delivery(o))
          /\ WF_vars(PollEnqueue(o) \/ PollFails(o))
          /\ WF_vars(ReplayDelete(o) \/ ReplayEnqueue(o) \/ ReplayFails(o))
          /\ WF_vars(DlqHandler(o))

FairSpec == Spec /\ Fairness

(* The timer does fire: an order it should re-publish is looked up.        *)
PolledSpec == FairSpec /\ \A o \in Orders : WF_vars(PollLookup(o))

-----------------------------------------------------------------------------
(* The order whose claim the invocation holds.                             *)
Held(w) ==
    IF pc[w] \in InTry \cup Parking \cup {"tag", "record_auth"} THEN job[w] ELSE NoOrder

Claims == INSTANCE ImportClaims WITH
    row     <- [o \in Orders |-> Xref!lookup(o)],
    holds   <- [w \in Workers |-> Held(w)],
    written <- nsTransactions

(***************************************************************************)
(* The pipeline implements the claim: however deliveries, polls, replays,  *)
(* failed calls, crashes and lost session locks interleave, an invocation  *)
(* gets behind the claim only by inserting the row that was not there, it  *)
(* alone writes the order to NetSuite and settles the row, and a row is    *)
(* synced only when NetSuite has the order.                                *)
(***************************************************************************)
ImportsAreClaimed == Claims!Spec

-----------------------------------------------------------------------------
(* No event of this kind has happened so far.                              *)
Unseen(event) == budget[event] = Budget[event]

(***************************************************************************)
(* Whatever fails, crashes or overlaps, no record claims an import that    *)
(* NetSuite does not hold: a synced row, a target id, a ledger row that    *)
(* says imported, an `imported' attempt and a tag error all presuppose the *)
(* NetSuite upsert, which precedes recordSuccess and writeSyncLog.         *)
(***************************************************************************)
ImportsAreReal ==
    \A o \in Orders :
        \/ Xref!lookup(o) = "synced" \/ xref[o].linked
        \/ ledger[o].status = "imported" \/ dlqRead[o] = "imported" \/ ledger[o].nsId
        \/ "imported" \in attempts[o] \/ "tag" \in errors[o]
        => o \in nsTransactions

(***************************************************************************)
(* A Shopify test order never becomes a NetSuite transaction, nor does its *)
(* buyer become a NetSuite customer: the eligibility check is on every     *)
(* path, including replays and the poller's.                               *)
(***************************************************************************)
TestOrdersStayOut ==
    \A o \in Orders : shop[o] = "test" => o \notin nsTransactions \cup nsCustomers

(***************************************************************************)
(* The claim bounds the invocations at work on one order: one, and one     *)
(* more for each replay, which deletes the row under the others.           *)
(***************************************************************************)
ClaimsBounded ==
    \A o \in Orders :
        Cardinality(Claimants(o)) <= 1 + (Budget["replay"] - budget["replay"])

(***************************************************************************)
(* Without a replay the NetSuite write of an order is attempted once, by   *)
(* one invocation, however often the message is delivered, by whomever it  *)
(* was produced and whether or not NetSuite's answer was lost.             *)
(***************************************************************************)
WritesOnce ==
    Unseen("replay") =>
        \A w \in Workers : pc[w] = "upsert" => job[w] \notin nsTransactions

(***************************************************************************)
(* While no handler has outlived its session lock, an order is handled by  *)
(* one invocation at a time.                                               *)
(***************************************************************************)
SessionExclusive ==
    Unseen("overrun") =>
        \A w1, w2 \in Workers : w1 # w2 /\ job[w1] = job[w2] => job[w1] = NoOrder

(***************************************************************************)
(* While no call has failed and no host has died, a pending row has an     *)
(* invocation that will settle it, and an order in error has an open error *)
(* record that says why, or an invocation about to write one.              *)
(***************************************************************************)
ClaimsAreOwned ==
    Unseen("failure") /\ Unseen("crash") =>
        \A o \in Orders :
            /\ Xref!lookup(o) = "pending" => Claimants(o) # {}
            /\ Xref!lookup(o) = "error" => Claimants(o) # {} \/ "parked" \in errors[o]

(***************************************************************************)
(* An order that reached the queue is never forgotten: until it has a row, *)
(* a message of it is queued, dead-lettered or about to be re-published,   *)
(* unless it was quarantined or a message came while the connection was    *)
(* disabled, or a replay failed between its two writes.                    *)
(***************************************************************************)
NeverForgotten ==
    Unseen("failure") /\ Unseen("switch") =>
        \A o \in Orders :
            (\E w \in Workers : job[w] = o) \/ attempts[o] # {}
            => \/ Xref!Exists(o)
               \/ queue[o] # << >> \/ deadLetter[o] # << >>
               \/ replay[o] = "enqueue" \/ "quarantined" \in errors[o]

(***************************************************************************)
(* The two tables an operator compares, entity_xref and order_sync_log,    *)
(* tell the same story of an order nobody is working on, although no       *)
(* transaction spans their writes: while no call failed, no host died, no  *)
(* lock ran out and nothing was replayed, each status has its counterpart. *)
(***************************************************************************)
LedgerOf(status) ==
    CASE status \in {"absent", "pending"} -> "absent"
      [] status = "synced"  -> "imported"
      [] status = "error"   -> "parked"
      [] status = "ignored" -> "ignored"

RecordsAgree ==
    (\A event \in {"failure", "crash", "overrun", "replay"} : Unseen(event)) =>
        \A o \in Orders :
            (\A w \in Workers : job[w] # o) => ledger[o].status = LedgerOf(Xref!lookup(o))

(***************************************************************************)
(* A synced order stays synced, whatever webhooks, polls, edits, crashes   *)
(* and switches follow, as long as no replay, no failed call and no        *)
(* overrun interferes: duplicates find already_synced.                     *)
(***************************************************************************)
Undisturbed == Unseen("replay") /\ Unseen("failure") /\ Unseen("overrun")

SyncedIsStable ==
    [][\A o \in Orders :
          Undisturbed' /\ Xref!lookup(o) = "synced" => Xref!lookup(o)' = "synced"]_vars

(***************************************************************************)
(* Liveness.  Every message is settled or handled as a dead letter: the    *)
(* queues of an order drain, whatever failed on the way.                   *)
(***************************************************************************)
EveryMessageSettles == \A o \in Orders : []<>(queue[o] = << >> /\ deadLetter[o] = << >>)

(***************************************************************************)
(* A dead letter reaches the error console as quarantined, however often   *)
(* the dead-letter handler fails before it is done.                        *)
(***************************************************************************)
DeadLettersAreQuarantined ==
    \A o \in Orders : deadLetter[o] # << >> ~> "quarantined" \in errors[o]

(***************************************************************************)
(* A pending row is settled one way or the other, unless a call failed or  *)
(* a host died: `pending' is no resting place.                             *)
(***************************************************************************)
ClaimsResolve ==
    \A o \in Orders :
        Xref!lookup(o) = "pending"
        ~> Xref!lookup(o) # "pending" \/ ~Unseen("failure") \/ ~Unseen("crash")

(***************************************************************************)
(* An eligible, mappable order with no row, at the head of whose queue     *)
(* waits a message the gate lets through, is imported, whoever published   *)
(* that message and whatever is polled or replayed meanwhile, unless       *)
(* something fails, the order changes or the connection is switched.       *)
(***************************************************************************)
Calm == \A event \in {"failure", "crash", "overrun", "edit", "switch"} : Unseen(event)

Importable(o) ==
    /\ ~Xref!Exists(o) /\ shop[o] = "eligible" /\ defect[o] = "none"
    /\ lock[o] = Nobody /\ queue[o] # << >>
    /\ \/ Head(queue[o]).body.source # "webhook"
       \/ Head(queue[o]).body.topic = "create"

CalmImports == \A o \in Orders : Importable(o) ~> o \in nsTransactions \/ ~Calm

=============================================================================
