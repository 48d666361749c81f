------------------------ MODULE DocumentedBehaviour ------------------------
(***************************************************************************)
(* What the documents, comments and tests of the repository say of the     *)
(* pipeline and its code does not do.  Each statement is checked alone, in *)
(* the run that is named after it, and TLC finds a behaviour against it.   *)
(***************************************************************************)
EXTENDS OrderPipeline

(***************************************************************************)
(* Brief, M2: an injected transient error auto-recovers; classifyAndRoute: *)
(* a transient error is rethrown, Service Bus's redelivery being the       *)
(* normal recovery path.  But the row is still `pending', so a redelivery  *)
(* is answered already_claimed and completed.                              *)
(***************************************************************************)
TransientRecovers ==
    \A o \in Orders : "transient_throw" \in attempts[o] ~> o \in nsTransactions

(***************************************************************************)
(* requestReplay: operator-initiated replays should always proceed past    *)
(* the update_before_create gate.  But an orders/updated that was queued   *)
(* before the replay finds no row, and marks the order ignored first.      *)
(***************************************************************************)
ReplayProceeds ==
    \A w \in Workers :
        /\ result[w] = "ignored"
        /\ lock[job[w]] = w
        => Head(queue[job[w]]).body.source # "replay"

(***************************************************************************)
(* requestReplay and the README: a replay un-claims the row and publishes  *)
(* the order again atomically.  But the delete and the publication are two *)
(* calls, and when the second fails nothing knows of the order any more.   *)
(***************************************************************************)
ReplayIsAtomic ==
    \A o \in Orders :
        attempts[o] # {} => \/ Xref!Exists(o) \/ queue[o] # << >> \/ deadLetter[o] # << >>
                            \/ replay[o] = "enqueue" \/ "quarantined" \in errors[o]

(***************************************************************************)
(* handleOrderMessage: a failure to tag does not roll back the import.     *)
(* But when the error record of that failure cannot be written either, the *)
(* catch block parks an order whose row was synced.                        *)
(***************************************************************************)
TagFailureKeepsImport ==
    \A o \in Orders : "tag" \in errors[o] => Xref!lookup(o) = "synced"

(***************************************************************************)
(* order-catchup-poller: rows in pending or error are enqueued again so    *)
(* that the handler picks them up.  But it answers already_claimed to both. *)
(***************************************************************************)
PolledIsPickedUp ==
    \A w \in Workers :
        /\ result[w] = "already_claimed"
        /\ lock[job[w]] = w
        /\ Head(queue[job[w]]).body.source = "catchup"
        => Claimants(job[w]) # {}

(***************************************************************************)
(* README: if Shopify fails to deliver a webhook, the next poll picks the  *)
(* order up.  But if it was the orders/create that got lost, the next      *)
(* orders/updated marks the order ignored, and the poller skips it.  (A    *)
(* behaviour that used up the polls it was given is no counterexample.)    *)
(***************************************************************************)
DroppedCreateIsRescued ==
    \A o \in Orders : <>(o \in nsTransactions \/ budget["poll"] = 0)

(***************************************************************************)
(* Architecture, sync eligibility: ineligible orders are tracked and       *)
(* re-evaluated by the poller, never dropped.  But they are `ignored', not *)
(* `pending', and the poller skips ignored rows.                           *)
(***************************************************************************)
HeldIsReevaluated ==
    \A o \in Orders :
        "ignored_by_eligibility" \in attempts[o] /\ shop[o] = "eligible"
        ~> o \in nsTransactions \/ shop[o] # "eligible" \/ budget["poll"] = 0

(***************************************************************************)
(* handleDeadLetteredOrder: it bumps the attempt count of the sync-log row *)
(* if there is one.  But its upsert leaves out the NetSuite columns, which *)
(* the table then overwrites with NULL.                                    *)
(***************************************************************************)
LedgerKeepsNetSuiteId ==
    \A o \in Orders : ledger[o].status = "imported" => ledger[o].nsId

=============================================================================
