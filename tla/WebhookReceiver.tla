--------------------------- MODULE WebhookReceiver ---------------------------
(***************************************************************************)
(* handleShopifyWebhook, the HTTP function that Shopify calls with every   *)
(* change of an order.  A notice is one change Shopify has to announce; it *)
(* sends it, signed with the secret of that moment, until it gets a 200.   *)
(* The receiver answers 200 only after it has stored the envelope and      *)
(* published the message (brief invariant 3).                              *)
(*                                                                         *)
(* stage[n] names what the request for notice n awaits; the connection     *)
(* lookup is in memory, so a request starts with the secret.               *)
(***************************************************************************)
EXTENDS SecretCache, FiniteSets

CONSTANTS
    Notices,          \* changes of orders of an enabled connection's shop, with
                      \* bodies that parse (any other request is refused)
    Failures          \* bound: calls that fail, answers that are lost, restarts

ASSUME ReceiverAssumption ==
    /\ Notices \subseteq SecretUsers
    /\ Failures \in Nat

VARIABLES
    stage,            \* how far the delivery of each notice has come
    signature,        \* the secret version the current request is signed with
    envelopes,        \* notices whose envelope is in the container
    published,        \* notices whose message is on the topic
    failures          \* what is left of Failures

stored == <<envelopes, published>>
receiver == <<stage, signature, stored>>

(* `due': Shopify has it to deliver, for the first time or again.           *)
Stages == {"unborn", "due", "secret", "verify", "envelope", "enqueue", "answer_200", "accepted"}

ReceiverTypeOK ==
    /\ stage \in [Notices -> Stages]
    /\ signature \in [Notices -> 0..Versions]
    /\ envelopes \subseteq Notices
    /\ published \subseteq Notices
    /\ failures \in 0..Failures

ReceiverInit ==
    /\ stage = [n \in Notices |-> "unborn"]
    /\ signature = [n \in Notices |-> 0]
    /\ envelopes = {}
    /\ published = {}
    /\ failures = Failures

Fail == failures > 0 /\ failures' = failures - 1

Goto(n, next) ==
    /\ stage' = [stage EXCEPT ![n] = next]
    /\ signature' = [signature EXCEPT ![n] = IF next \in {"secret", "verify"} THEN @ ELSE 0]

(* Any answer but 200: Shopify delivers the notice again.                  *)
Refuse(n) == Goto(n, "due")

-----------------------------------------------------------------------------
Announce(n) ==
    /\ stage[n] = "unborn"
    /\ Goto(n, "due")
    /\ UNCHANGED <<stored, secrets, failures>>

(* findByShopDomain, which is in memory, then getSecret as far as it goes  *)
(* without waiting.                                                        *)
Request(n) ==
    /\ stage[n] = "due"
    /\ signature' = [signature EXCEPT ![n] = vault]
    /\ \/ UseCached(n) /\ stage' = [stage EXCEPT ![n] = "verify"]
       \/ ~Served /\ stage' = [stage EXCEPT ![n] = "secret"] /\ UNCHANGED secrets
    /\ UNCHANGED <<stored, failures>>

SecretRead(n) ==
    /\ stage[n] = "secret"
    /\ \/ VaultAnswers(n) /\ UNCHANGED <<stage, signature, failures>>
       \/ fetched[n] = 0 /\ Fail /\ Refuse(n) /\ UNCHANGED secrets
       \/ CacheAnswer(n) /\ Goto(n, "verify") /\ UNCHANGED failures
    /\ UNCHANGED stored

(* verifyShopifyHmac, and 401 on a mismatch.                               *)
Verify(n) ==
    /\ stage[n] = "verify"
    /\ Forget(n)
    /\ \/ signature[n] = fetched[n] /\ Goto(n, "envelope")
       \/ signature[n] # fetched[n] /\ Refuse(n)
    /\ UNCHANGED <<stored, failures>>

(* Fault: an envelope that cannot be stored does not stop the delivery.    *)
PersistBestEffort(n) ==
    /\ stage[n] = "envelope"
    /\ \/ envelopes' = envelopes \cup {n} /\ UNCHANGED failures
       \/ Fail /\ UNCHANGED envelopes
    /\ Goto(n, "enqueue")
    /\ UNCHANGED <<published, secrets>>

(* envelopeStore.put.  A failed write may have been carried out.           *)
Persist(n) ==
    /\ stage[n] = "envelope"
    /\ \/ envelopes' = envelopes \cup {n} /\ Goto(n, "enqueue") /\ UNCHANGED failures
       \/ Fail /\ Refuse(n) /\ envelopes' \in {envelopes, envelopes \cup {n}}
    /\ UNCHANGED <<published, secrets>>

PublishOrder(n) ==
    /\ stage[n] = "enqueue"
    /\ \/ published' = published \cup {n} /\ Goto(n, "answer_200") /\ UNCHANGED failures
       \/ Fail /\ Refuse(n) /\ published' \in {published, published \cup {n}}
    /\ UNCHANGED <<envelopes, secrets>>

(* The 200 reaches Shopify in time, or Shopify delivers again.             *)
Answer(n) ==
    /\ stage[n] = "answer_200"
    /\ \/ Goto(n, "accepted") /\ UNCHANGED failures
       \/ Fail /\ Refuse(n)
    /\ UNCHANGED <<stored, secrets>>

Serve(n) ==
    \/ Request(n) \/ SecretRead(n) \/ Verify(n)
    \/ Persist(n) \/ PublishOrder(n) \/ Answer(n)

ReceiverNext == \E n \in Notices : Announce(n) \/ Serve(n)

(* The host dies: Shopify's open requests time out.                        *)
AbandonRequests ==
    /\ stage' = [n \in Notices |-> IF stage[n] \in {"unborn", "accepted"} THEN stage[n] ELSE "due"]
    /\ signature' = [n \in Notices |-> 0]
    /\ UNCHANGED stored

-----------------------------------------------------------------------------
(***************************************************************************)
(* Brief invariant 3: what Shopify takes for delivered is on the topic,    *)
(* and what is on the topic can be recovered from its envelope, whatever   *)
(* failed, was repeated, restarted or rotated on the way.                  *)
(***************************************************************************)
AcceptedIsKept ==
    /\ \A n \in Notices : stage[n] \in {"answer_200", "accepted"} => n \in published
    /\ published \subseteq envelopes

(***************************************************************************)
(* Every delivery is accepted in the end: a secret that was rotated makes  *)
(* the receiver answer 401 for as long as the old one is cached, and       *)
(* Shopify tries again.                                                    *)
(***************************************************************************)
DeliveriesArrive ==
    \A n \in Notices : stage[n] = "due" ~> stage[n] = "accepted"

=============================================================================
