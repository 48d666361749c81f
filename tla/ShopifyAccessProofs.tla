------------------------- MODULE ShopifyAccessProofs -------------------------
(***************************************************************************)
(* Safety of ShopifyAccess for any number of deliveries and gateway calls, *)
(* any lives of secrets and tokens, and any bounds on failures, restarts,  *)
(* rotations and revocations.                                              *)
(***************************************************************************)
EXTENDS ShopifyAccess, TLAPS

-----------------------------------------------------------------------------
(***************************************************************************)
(* Types.  The three type invariants depend on each other through the      *)
(* secret only.                                                            *)
(***************************************************************************)

(* What the users of the secret do to it keeps its types.                  *)
LEMMA SecretTyped ==
    ASSUME SecretTypeOK, NEW u \in SecretUsers,
           \/ UseCached(u) \/ VaultAnswers(u) \/ CacheAnswer(u) \/ Forget(u)
           \/ RotateSecret \/ AgeSecret \/ LoseSecrets \/ UNCHANGED secrets
    PROVE  SecretTypeOK'
  <1> USE SecretAssumption DEF SecretTypeOK
  <1>1. CASE UseCached(u) BY <1>1 DEF UseCached
  <1>2. CASE VaultAnswers(u) BY <1>2 DEF VaultAnswers
  <1>3. CASE CacheAnswer(u) BY <1>3 DEF CacheAnswer
  <1>4. CASE Forget(u) BY <1>4 DEF Forget
  <1>5. CASE RotateSecret BY <1>5 DEF RotateSecret
  <1>6. CASE AgeSecret BY <1>6 DEF AgeSecret
  <1>7. CASE LoseSecrets BY <1>7 DEF LoseSecrets
  <1>8. CASE UNCHANGED secrets BY <1>8 DEF secrets
  <1>9. QED BY <1>1, <1>2, <1>3, <1>4, <1>5, <1>6, <1>7, <1>8

(* A request of the receiver keeps the types of both.                      *)
LEMMA ReceiverTyped ==
    ASSUME SecretTypeOK, ReceiverTypeOK, NEW n \in Notices, Announce(n) \/ Serve(n)
    PROVE  SecretTypeOK' /\ ReceiverTypeOK'
  <1>n. n \in SecretUsers BY ReceiverAssumption
  <1>s. SecretTypeOK'
    <2>1. \/ UseCached(n) \/ VaultAnswers(n) \/ CacheAnswer(n) \/ Forget(n) \/ UNCHANGED secrets
      BY DEF Announce, Serve, Request, SecretRead, Verify, Persist, PublishOrder, Answer
    <2>2. QED BY <1>n, <2>1, SecretTyped
  <1>1. ReceiverTypeOK'
    <2> USE ReceiverAssumption, SecretAssumption DEF ReceiverTypeOK, Stages, Goto, Refuse, Fail, stored
    <2>1. CASE Announce(n) BY <2>1 DEF Announce
    <2>2. CASE Request(n) BY <2>2 DEF Request, SecretTypeOK
    <2>3. CASE SecretRead(n) BY <2>3 DEF SecretRead
    <2>4. CASE Verify(n) BY <2>4 DEF Verify
    <2>5. CASE Persist(n) BY <2>5 DEF Persist
    <2>6. CASE PublishOrder(n) BY <2>6 DEF PublishOrder
    <2>7. CASE Answer(n) BY <2>7 DEF Answer
    <2>8. QED BY <2>1, <2>2, <2>3, <2>4, <2>5, <2>6, <2>7 DEF Serve
  <1>2. QED BY <1>s, <1>1

(* A call of the gateway keeps the types of both.                          *)
LEMMA GatewayTyped ==
    ASSUME SecretTypeOK, GatewayTypeOK, NEW w \in Callers,
           CallStep(w) \/ Resolve(w) \/ CallFails(w), UNCHANGED revocations
    PROVE  SecretTypeOK' /\ GatewayTypeOK'
  <1>w. w \in SecretUsers BY GatewayAssumption
  <1>s. SecretTypeOK'
    <2>1. \/ UseCached(w) \/ VaultAnswers(w) \/ CacheAnswer(w) \/ Forget(w) \/ UNCHANGED secrets
      BY DEF CallStep, Resolve, CallFails, ResolveRead, GetAccessToken, Issue, Arrive, Request200,
             Rejected, ExchangeThrows, Throw, secrets
    <2>2. QED BY <1>w, <2>1, SecretTyped
  <1>1. GatewayTypeOK'
    <2> USE GatewayAssumption DEF GatewayTypeOK, CallSteps, Step, tokens
    <2>1. CASE Resolve(w) BY <2>1 DEF Resolve
    <2>2. CASE ResolveRead(w) BY <2>2 DEF ResolveRead
    <2>3. CASE GetAccessToken(w) BY <2>3 DEF GetAccessToken
    <2>4. CASE Issue(w) BY <2>4 DEF Issue
    <2>5. CASE Arrive(w) BY <2>5 DEF Arrive
    <2>6. CASE ExchangeThrows(w) BY <2>6 DEF ExchangeThrows
    <2>7. CASE Throw(w) BY <2>7 DEF Throw
    <2>8. CASE Request200(w) BY <2>8 DEF Request200
    <2>9. QED
      BY <2>1, <2>2, <2>3, <2>4, <2>5, <2>6, <2>7, <2>8 DEF CallStep, CallFails, Rejected
  <1>2. QED BY <1>s, <1>1

(***************************************************************************)
(* Every state has the types declared, whatever is delivered, called,      *)
(* rotated, revoked or restarted.                                          *)
(***************************************************************************)
THEOREM Typing == Spec => []TypeOK
  <1>1. Init => TypeOK
    BY SecretAssumption, ReceiverAssumption, GatewayAssumption
    DEF Init, TypeOK, SecretInit, ReceiverInit, GatewayInit, SecretTypeOK, ReceiverTypeOK,
        GatewayTypeOK, Stages, CallSteps
  <1>2. TypeOK /\ [Next]_vars => TypeOK'
    <2> SUFFICES ASSUME TypeOK, [Next]_vars PROVE TypeOK'
      OBVIOUS
    <2> USE DEF TypeOK
    <2>r. UNCHANGED receiver /\ (UNCHANGED failures \/ Fail) => ReceiverTypeOK'
      BY ReceiverAssumption DEF receiver, stored, ReceiverTypeOK, Fail
    <2>g. UNCHANGED gateway => GatewayTypeOK'
      BY DEF gateway, tokens, GatewayTypeOK
    <2>1. CASE Receive
      <3>1. PICK n \in Notices : Announce(n) \/ Serve(n) BY <2>1 DEF Receive, ReceiverNext
      <3>2. QED BY <2>1, <2>g, <3>1, ReceiverTyped DEF Receive
    <2>2. CASE \E w \in Callers : Proceed(w) \/ CallAgain(w) \/ CallThrows(w)
      <3>1. PICK w \in Callers : Proceed(w) \/ CallAgain(w) \/ CallThrows(w) BY <2>2
      <3>2. /\ CallStep(w) \/ Resolve(w) \/ CallFails(w)
            /\ UNCHANGED receiver /\ (UNCHANGED failures \/ Fail) /\ UNCHANGED revocations
        BY <3>1 DEF Proceed, CallAgain, CallThrows
      <3>3. QED BY <2>r, <3>2, GatewayTyped
    <2>3. CASE Tick
      <3>1. GatewayTypeOK'
        BY <2>3, GatewayAssumption DEF Tick, AgeTokens, Less, GatewayTypeOK
      <3>2. SecretTypeOK'
        BY <2>3, SecretAssumption DEF Tick, AgeSecret, SecretTypeOK
      <3>3. QED BY <2>3, <2>r, <3>1, <3>2 DEF Tick
    <2>4. CASE Rotate
      <3>1. SecretTypeOK' BY <2>4, SecretAssumption DEF Rotate, RotateSecret, SecretTypeOK
      <3>2. QED BY <2>4, <2>r, <2>g, <3>1 DEF Rotate
    <2>5. CASE Revoke
      <3>1. GatewayTypeOK' BY <2>5, GatewayAssumption DEF Revoke, RevokeTokens, GatewayTypeOK
      <3>2. SecretTypeOK' BY <2>5 DEF Revoke, secrets, SecretTypeOK
      <3>3. QED BY <2>5, <2>r, <3>1, <3>2 DEF Revoke
    <2>6. CASE Restart
      <3>1. SecretTypeOK' BY <2>6, SecretAssumption DEF Restart, LoseSecrets, SecretTypeOK
      <3>2. ReceiverTypeOK'
        BY <2>6, ReceiverAssumption, SecretAssumption DEF Restart, Fail, AbandonRequests, stored, ReceiverTypeOK, Stages
      <3>3. GatewayTypeOK'
        BY <2>6, GatewayAssumption DEF Restart, LoseTokens, GatewayTypeOK, CallSteps
      <3>4. QED BY <3>1, <3>2, <3>3
    <2>7. CASE UNCHANGED vars
      <3>1. SecretTypeOK' BY <2>7 DEF vars, secrets, SecretTypeOK
      <3>2. QED BY <2>7, <2>r, <2>g, <3>1 DEF vars
    <2>8. QED BY <2>1, <2>2, <2>3, <2>4, <2>5, <2>6, <2>7 DEF Next
  <1>3. QED BY <1>1, <1>2, PTL DEF Spec

-----------------------------------------------------------------------------
(***************************************************************************)
(* A request that is past its envelope has one.                            *)
(***************************************************************************)
AcceptInv ==
    /\ AcceptedIsKept
    /\ \A n \in Notices : stage[n] \in {"enqueue", "answer_200", "accepted"} => n \in envelopes

(***************************************************************************)
(* What Shopify takes for delivered is published, and what is published    *)
(* has its envelope: the order of handleShopifyWebhook's calls, under any  *)
(* number of deliveries, failures, lost answers and restarts.              *)
(***************************************************************************)
THEOREM AcceptedKept == Spec => []AcceptedIsKept
  <1>1. Init => AcceptInv
    BY DEF Init, ReceiverInit, AcceptInv, AcceptedIsKept
  <1>2. TypeOK /\ AcceptInv /\ [Next]_vars => AcceptInv'
    <2> SUFFICES ASSUME TypeOK, AcceptInv, [Next]_vars PROVE AcceptInv'
      OBVIOUS
    <2>t. stage \in [Notices -> Stages] BY DEF TypeOK, ReceiverTypeOK
    <2> USE DEF AcceptInv, AcceptedIsKept
    <2>1. CASE UNCHANGED receiver BY <2>1 DEF receiver, stored
    <2>2. ASSUME NEW n \in Notices, Announce(n) \/ Serve(n) PROVE AcceptInv'
      <3> USE <2>t DEF Goto, Refuse, stored
      <3>1. CASE Announce(n) BY <3>1 DEF Announce
      <3>2. CASE Request(n) BY <3>2 DEF Request
      <3>3. CASE SecretRead(n) BY <3>3 DEF SecretRead
      <3>4. CASE Verify(n) BY <3>4 DEF Verify
      <3>5. CASE Persist(n) BY <3>5 DEF Persist
      <3>6. CASE PublishOrder(n) BY <3>6 DEF PublishOrder
      <3>7. CASE Answer(n) BY <3>7 DEF Answer
      <3>8. QED BY <2>2, <3>1, <3>2, <3>3, <3>4, <3>5, <3>6, <3>7 DEF Serve
    <2>3. CASE AbandonRequests BY <2>3, <2>t DEF AbandonRequests, stored
    <2>4. QED
      BY <2>1, <2>2, <2>3
      DEF Next, vars, Receive, ReceiverNext, Proceed, CallAgain, CallThrows, Tick, Rotate, Revoke, Restart
  <1>3. AcceptInv => AcceptedIsKept BY DEF AcceptInv
  <1>4. QED BY <1>1, <1>2, <1>3, Typing, PTL DEF Spec

-----------------------------------------------------------------------------
(***************************************************************************)
(* A call that awaits its own exchange is the one the map holds, and only  *)
(* such a call can have an answer under way, which is no older than the    *)
(* buffer; without a revocation Shopify honours the cached token for at    *)
(* most the buffer less than the service believes.                         *)
(***************************************************************************)
TokenInv ==
    /\ \A w \in Callers : call[w] = "exchange" => inFlight = w
    /\ \A w \in Callers : issued[w] > 0 => call[w] = "exchange" /\ TokenTtl <= issued[w] + Buffer
    /\ revocations = Revocations => expires <= token + Buffer

LEMMA TokenInit == Init => TokenInv
  BY GatewayAssumption DEF Init, GatewayInit, TokenInv

(* A call of the gateway keeps the invariant.                              *)
LEMMA TokenCall ==
    ASSUME GatewayTypeOK, TokenInv, NEW w \in Callers,
           CallStep(w) \/ Resolve(w) \/ CallFails(w), UNCHANGED revocations
    PROVE  TokenInv'
  <1> USE GatewayAssumption DEF GatewayTypeOK, TokenInv, Step, tokens
  <1>1. CASE Resolve(w) BY <1>1 DEF Resolve
  <1>2. CASE ResolveRead(w) BY <1>2 DEF ResolveRead
  <1>3. CASE GetAccessToken(w) BY <1>3 DEF GetAccessToken
  <1>4. CASE Issue(w) BY <1>4 DEF Issue
  <1>5. CASE Arrive(w) BY <1>5 DEF Arrive, Awaiting
  <1>6. CASE ExchangeThrows(w) BY <1>6 DEF ExchangeThrows, Awaiting
  <1>7. CASE Throw(w) /\ call[w] \in {"secret", "request"} BY <1>7 DEF Throw
  <1>8. CASE Request200(w) BY <1>8 DEF Request200
  <1>9. QED BY <1>1, <1>2, <1>3, <1>4, <1>5, <1>6, <1>7, <1>8 DEF CallStep, CallFails, Rejected

LEMMA TokenStep == TypeOK /\ TokenInv /\ [Next]_vars => TokenInv'
  <1> SUFFICES ASSUME TypeOK, TokenInv, [Next]_vars PROVE TokenInv'
    OBVIOUS
  <1>t. GatewayTypeOK BY DEF TypeOK
  <1>1. CASE \E w \in Callers : Proceed(w) \/ CallAgain(w) \/ CallThrows(w)
    BY <1>1, <1>t, TokenCall DEF Proceed, CallAgain, CallThrows
  <1>2. CASE UNCHANGED gateway BY <1>2 DEF gateway, tokens, TokenInv
  <1>3. CASE Tick
    BY <1>3, <1>t, GatewayAssumption DEF Tick, AgeTokens, Less, TokenInv, GatewayTypeOK
  <1>4. CASE Revoke
    BY <1>4, <1>t, GatewayAssumption DEF Revoke, RevokeTokens, TokenInv, GatewayTypeOK
  <1>5. CASE Restart
    BY <1>5, <1>t, GatewayAssumption DEF Restart, LoseTokens, TokenInv, GatewayTypeOK
  <1>6. QED BY <1>1, <1>2, <1>3, <1>4, <1>5 DEF Next, Receive, Rotate, vars

(***************************************************************************)
(* One exchange at a time, for any number of concurrent calls: the promise *)
(* in the map is deleted exactly when its exchange is over.                *)
(***************************************************************************)
THEOREM ExchangesShared == Spec => []OneExchange
  <1>1. TokenInv => OneExchange BY DEF TokenInv, OneExchange
  <1>2. QED BY <1>1, TokenInit, TokenStep, Typing, PTL DEF Spec

(***************************************************************************)
(* A token that the cache serves is alive unless it was revoked, for any   *)
(* life of a token and any buffer that an exchange cannot outlast.         *)
(***************************************************************************)
THEOREM TokensLive == Spec => []ServedTokensLive
  <1>1. TypeOK /\ TokenInv => ServedTokensLive
    BY GatewayAssumption DEF TypeOK, GatewayTypeOK, TokenInv, ServedTokensLive, Usable
  <1>2. QED BY <1>1, TokenInit, TokenStep, Typing, PTL DEF Spec

=============================================================================
