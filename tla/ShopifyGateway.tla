---------------------------- MODULE ShopifyGateway ----------------------------
(***************************************************************************)
(* The calls of ShopifyHttpGateway (getOrder, listOrdersUpdatedSince,      *)
(* tagOrder, and the first page of getDailyOrderAggregate) up to Shopify's *)
(* answer: resolveAccessToken reads the client secret, ShopifyTokenService *)
(* exchanges it for a token, one exchange at a time however many callers   *)
(* wait, and keeps the token until Buffer before it expires.               *)
(*                                                                         *)
(* A token is the number of ticks Shopify still honours it.  The service   *)
(* counts from the arrival of the answer, Shopify from the exchange.       *)
(***************************************************************************)
EXTENDS SecretCache, FiniteSets

CONSTANTS
    Callers,          \* calls of the gateway
    NoCaller,
    TokenTtl,         \* expires_in, in ticks
    Buffer,           \* refreshBufferMs
    Revocations       \* bound: times Shopify revokes every token

ASSUME GatewayAssumption ==
    /\ Callers \subseteq SecretUsers /\ NoCaller \notin Callers
    /\ TokenTtl \in Nat /\ Buffer \in Nat /\ Buffer < TokenTtl
    /\ Revocations \in Nat

VARIABLES
    call,             \* how far each call has come
    expires,          \* ticks until the cached token's expiresAt
    token,            \* the cached token
    inFlight,         \* the caller whose exchange the map holds, or NoCaller
    issued,           \* the token Shopify answered each exchange with, 0 before
    held,             \* the token each request carries
    revocations       \* what is left of Revocations

tokens == <<expires, token, inFlight, issued, held>>
gateway == <<call, tokens, revocations>>

(* `exchange': the call awaits its own exchange; `await': somebody else's.  *)
CallSteps == {"idle", "secret", "token", "exchange", "await", "request", "done"}

GatewayTypeOK ==
    /\ call \in [Callers -> CallSteps]
    /\ expires \in 0..TokenTtl
    /\ token \in 0..TokenTtl
    /\ inFlight \in Callers \cup {NoCaller}
    /\ issued \in [Callers -> 0..TokenTtl]
    /\ held \in [Callers -> 0..TokenTtl]
    /\ revocations \in 0..Revocations

GatewayInit ==
    /\ call = [w \in Callers |-> "idle"]
    /\ expires = 0
    /\ token = 0
    /\ inFlight = NoCaller
    /\ issued = [w \in Callers |-> 0]
    /\ held = [w \in Callers |-> 0]
    /\ revocations = Revocations

Step(w, next) == call' = [call EXCEPT ![w] = next]

Awaiting == {w \in Callers : call[w] = "await"}

-----------------------------------------------------------------------------
(* resolveAccessToken awaits the secret.                                   *)
Resolve(w) ==
    /\ call[w] = "idle"
    /\ \/ UseCached(w) /\ Step(w, "token")
       \/ ~Served /\ Step(w, "secret") /\ UNCHANGED secrets
    /\ UNCHANGED tokens

ResolveRead(w) ==
    /\ call[w] = "secret"
    /\ \/ VaultAnswers(w) /\ UNCHANGED call
       \/ CacheAnswer(w) /\ Step(w, "token")
    /\ UNCHANGED tokens

(* Fault: the token is served until it expires.                            *)
UsableToTheEnd == expires > 0

Usable == expires > Buffer

(* Fault: every caller without a usable token makes its own exchange.      *)
GetAccessTokenUnshared(w) ==
    /\ call[w] = "token"
    /\ \/ /\ Usable
          /\ held' = [held EXCEPT ![w] = token]
          /\ Step(w, "request")
          /\ Forget(w)
          /\ UNCHANGED <<expires, token, inFlight, issued>>
       \/ /\ ~Usable
          /\ inFlight' = w
          /\ Step(w, "exchange")
          /\ UNCHANGED <<secrets, expires, token, issued, held>>

(* getAccessToken up to its first await.  The secret is used by the        *)
(* exchange only.                                                          *)
GetAccessToken(w) ==
    /\ call[w] = "token"
    /\ \/ /\ Usable
          /\ held' = [held EXCEPT ![w] = token]
          /\ Step(w, "request")
          /\ Forget(w)
          /\ UNCHANGED <<expires, token, inFlight, issued>>
       \/ /\ ~Usable /\ inFlight # NoCaller
          /\ Step(w, "await")
          /\ Forget(w)
          /\ UNCHANGED tokens
       \/ /\ ~Usable /\ inFlight = NoCaller
          /\ inFlight' = w
          /\ Step(w, "exchange")
          /\ UNCHANGED <<secrets, expires, token, issued, held>>

(* Shopify answers the exchange if the secret is the current one.          *)
Issue(w) ==
    /\ call[w] = "exchange" /\ issued[w] = 0
    /\ fetched[w] = vault
    /\ issued' = [issued EXCEPT ![w] = TokenTtl]
    /\ UNCHANGED <<call, secrets, expires, token, inFlight, held>>

(* The answer arrives: the owner caches the token and deletes the promise, *)
(* and everybody who waits for it has the token.                           *)
Arrive(w) ==
    /\ call[w] = "exchange" /\ issued[w] > 0
    /\ token' = issued[w]
    /\ expires' = TokenTtl
    /\ inFlight' = NoCaller
    /\ issued' = [issued EXCEPT ![w] = 0]
    /\ held' = [c \in Callers |-> IF c \in {w} \cup Awaiting THEN issued[w] ELSE held[c]]
    /\ call' = [c \in Callers |-> IF c \in {w} \cup Awaiting THEN "request" ELSE call[c]]
    /\ Forget(w)

(* Fault: the promise is deleted only when the exchange succeeds.          *)
ExchangeThrowsAndStays(w) ==
    /\ call[w] = "exchange"
    /\ call' = [c \in Callers |-> IF c \in {w} \cup Awaiting THEN "idle" ELSE call[c]]
    /\ issued' = [issued EXCEPT ![w] = 0]
    /\ Forget(w)
    /\ UNCHANGED <<expires, token, held, inFlight>>

(* The exchange is refused, times out or has no token: everybody throws.   *)
ExchangeThrows(w) ==
    /\ call[w] = "exchange"
    /\ call' = [c \in Callers |-> IF c \in {w} \cup Awaiting THEN "idle" ELSE call[c]]
    /\ issued' = [issued EXCEPT ![w] = 0]
    /\ inFlight' = NoCaller
    /\ Forget(w)
    /\ UNCHANGED <<expires, token, held>>

Throw(w) ==
    /\ Step(w, "idle")
    /\ held' = [held EXCEPT ![w] = 0]
    /\ Forget(w)
    /\ UNCHANGED <<expires, token, inFlight, issued>>

(* Shopify answers the GraphQL request, with a 401 if the token is dead;   *)
(* the gateway throws, and leaves the cached token where it is.            *)
Request200(w) ==
    /\ call[w] = "request" /\ held[w] > 0
    /\ Step(w, "done")
    /\ held' = [held EXCEPT ![w] = 0]
    /\ UNCHANGED <<secrets, expires, token, inFlight, issued>>

(* Every other outcome of a call is an exception, for the caller to retry: *)
(* the importer by its message's redelivery, the poller by its timer.      *)
Rejected(w) ==
    \/ call[w] = "request" /\ held[w] = 0 /\ Throw(w)
    \/ issued[w] = 0 /\ fetched[w] # vault /\ ExchangeThrows(w)

CallFails(w) == ExchangeThrows(w) \/ (call[w] \in {"secret", "request"} /\ Throw(w))

CallStep(w) ==
    \/ ResolveRead(w) \/ GetAccessToken(w) \/ Issue(w) \/ Arrive(w)
    \/ Request200(w) \/ Rejected(w)

(* Shopify revokes every token: somebody reinstalls the app.               *)
RevokeTokens ==
    /\ revocations > 0
    /\ revocations' = revocations - 1
    /\ token' = 0
    /\ held' = [w \in Callers |-> 0]
    /\ UNCHANGED <<call, expires, inFlight, issued>>

Less(n) == IF n > 0 THEN n - 1 ELSE 0

(* A request is answered within a tick, an exchange within the buffer.     *)
AgeTokens ==
    /\ \A w \in Callers :
        /\ call[w] = "exchange" /\ issued[w] > 0 => TokenTtl - issued[w] + 1 < Buffer
        /\ held[w] = 0
    /\ expires' = Less(expires)
    /\ token' = Less(token)
    /\ issued' = [w \in Callers |-> Less(issued[w])]
    /\ UNCHANGED <<call, inFlight, held, revocations>>

(* A new process has no token; a call that was cut off is made again.      *)
LoseTokens ==
    /\ call' = [w \in Callers |-> IF call[w] = "done" THEN "done" ELSE "idle"]
    /\ expires' = 0 /\ token' = 0 /\ inFlight' = NoCaller
    /\ issued' = [w \in Callers |-> 0]
    /\ held' = [w \in Callers |-> 0]

-----------------------------------------------------------------------------
(***************************************************************************)
(* Concurrent calls share one exchange: no second one begins before the    *)
(* first is over, whether it succeeds, fails or is cut off.                *)
(***************************************************************************)
OneExchange ==
    \A v, w \in Callers : call[v] = "exchange" /\ call[w] = "exchange" => v = w

(***************************************************************************)
(* Unless Shopify revoked it, a token the cache serves is one Shopify      *)
(* honours, although the service counts its life from the wrong moment.    *)
(***************************************************************************)
ServedTokensLive == revocations = Revocations /\ Usable => token > 0

(***************************************************************************)
(* A call that its caller repeats gets through in the end, whatever        *)
(* exchange failed, secret was rotated or token revoked under it.          *)
(***************************************************************************)
CallsGetThrough == \A w \in Callers : call[w] = "secret" ~> call[w] = "done"

=============================================================================
