---------------------------- MODULE ShopifyAccess ----------------------------
(***************************************************************************)
(* The two directions between a host and Shopify, deliveries and gateway   *)
(* calls, over the one cached secret both depend on, with the clock, the   *)
(* rotation of the secret, the revocation of tokens and restarts.          *)
(***************************************************************************)
EXTENDS WebhookReceiver, ShopifyGateway

vars == <<secrets, receiver, gateway, failures>>

TypeOK == SecretTypeOK /\ ReceiverTypeOK /\ GatewayTypeOK

Init == SecretInit /\ ReceiverInit /\ GatewayInit

Receive == ReceiverNext /\ UNCHANGED gateway

Proceed(w) == CallStep(w) /\ UNCHANGED <<receiver, failures, revocations>>

CallAgain(w) == Resolve(w) /\ UNCHANGED <<receiver, failures, revocations>>

CallThrows(w) == Fail /\ CallFails(w) /\ UNCHANGED <<receiver, revocations>>

Tick == AgeSecret /\ AgeTokens /\ UNCHANGED <<receiver, failures>>

Rotate == RotateSecret /\ UNCHANGED <<receiver, gateway, failures>>

Revoke == RevokeTokens /\ UNCHANGED <<secrets, receiver, failures>>

Restart == Fail /\ LoseSecrets /\ AbandonRequests /\ LoseTokens /\ UNCHANGED revocations

Next ==
    \/ Receive \/ Tick \/ Rotate \/ Revoke \/ Restart
    \/ \E w \in Callers : Proceed(w) \/ CallAgain(w) \/ CallThrows(w)

(* Shopify delivers again, callers call again, every await comes to an     *)
(* end, and time goes on under any sequence of retries.                   *)
Spec ==
    /\ Init /\ [][Next]_vars
    /\ SF_vars(Tick)
    /\ \A n \in Notices : WF_vars(Serve(n) /\ UNCHANGED gateway)
    /\ \A w \in Callers : WF_vars(Proceed(w)) /\ WF_vars(CallAgain(w))

=============================================================================
