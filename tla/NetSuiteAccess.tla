---------------------------- MODULE NetSuiteAccess ----------------------------
(***************************************************************************)
(* One host's use of one NetSuite account: several orders of one customer  *)
(* run resolveCustomer, each call of which goes through the client of the  *)
(* factory and the governor middleware.  With shopifyAddressIdField set it *)
(* finds the customer, reads the addressbook and upserts the merge; without *)
(* it only upserts.                                                        *)
(*                                                                         *)
(* step[o] names the gateway call order o awaits, phase[o] what that call  *)
(* awaits: the credentials, a slot, or NetSuite.                           *)
(***************************************************************************)
EXTENDS Addressbook

CONSTANTS
    Orders, NoOrder,   \* orders in hand, all of one customer
    AddressesOf,       \* the addresses each brings
    Ceiling,           \* perAccountCeiling
    Polls,             \* how often acquireSlot polls before its deadline
    MaxRetries,        \* the SDK's own retries
    NsErrors,          \* how NetSuite and the network may fail
    Failures           \* bound: requests that fail

ASSUME NetSuiteAssumption ==
    /\ IsFiniteSet(Orders) /\ NoOrder \notin Orders
    /\ AddressesOf \in [Orders -> OrderAddresses]
    /\ Ceiling \in Nat \ {0} /\ Polls \in Nat /\ MaxRetries \in Nat
    /\ NsErrors \subseteq [status : {0} \cup 400..599, concurrent : BOOLEAN, dataCode : BOOLEAN]
    /\ Failures \in Nat

VARIABLES
    merging,           \* the connection has a shopifyAddressIdField
    step, phase,
    client,            \* whose client the factory's cache holds
    via,               \* whose client each call goes through
    slots,             \* the governor's holders: an order and its attempt
    attempt,           \* the attempt in hand of each call
    waited,            \* polls since acquireSlot began
    seen,              \* the addressbook each order has read
    error,             \* what each import failed of
    customer,          \* the customer exists in NetSuite
    book,              \* its addressbook
    failures           \* what is left of Failures

calls == <<step, phase, client, via, slots, attempt, waited>>
netsuite == <<customer, book>>
vars == <<merging, calls, seen, error, netsuite, failures>>

Steps == {"idle", "find", "read", "upsert", "resolved"}
LineIds == Nat \ {New}

(* The error of acquireSlot, NetSuite's on an addressbook line it does not *)
(* know, and none.                                                         *)
GovernorTimeout == [status |-> 1, concurrent |-> FALSE, dataCode |-> FALSE]
UnknownLine == [status |-> 400, concurrent |-> FALSE, dataCode |-> TRUE]
NoError == [status |-> 2, concurrent |-> FALSE, dataCode |-> FALSE]
Errors == NsErrors \cup {GovernorTimeout, UnknownLine, NoError}

TypeOK ==
    /\ merging \in BOOLEAN
    /\ step \in [Orders -> Steps]
    /\ phase \in [Orders -> {"none", "client", "acquire", "request"}]
    /\ client \in Orders \cup {NoOrder}
    /\ via \in [Orders -> Orders \cup {NoOrder}]
    /\ slots \subseteq Orders \X (0..MaxRetries)
    /\ attempt \in [Orders -> 0..MaxRetries]
    /\ waited \in [Orders -> 0..Polls]
    /\ seen \in [Orders -> SUBSET Lines(LineIds)]
    /\ error \in [Orders -> Errors]
    /\ customer \in BOOLEAN
    /\ book \subseteq Lines(LineIds)
    /\ failures \in 0..Failures

Init ==
    /\ merging \in BOOLEAN
    /\ step = [o \in Orders |-> "idle"]
    /\ phase = [o \in Orders |-> "none"]
    /\ client = NoOrder
    /\ via = [o \in Orders |-> NoOrder]
    /\ slots = {}
    /\ attempt = [o \in Orders |-> 0]
    /\ waited = [o \in Orders |-> 0]
    /\ seen = [o \in Orders |-> {}]
    /\ error = [o \in Orders |-> NoError]
    /\ customer = FALSE
    /\ book = {}
    /\ failures = Failures

-----------------------------------------------------------------------------
(***************************************************************************)
(* How a failed call is classified, and what becomes of the message.       *)
(***************************************************************************)
(* The SDK's isRetryable: no answer, throttling, or a server's failure.    *)
IsRetryable(e) == e.status \in {0, 429} \cup 500..599

mapNetSuiteError(e) ==
    CASE e.status \in {401, 403} -> "auth"
      [] e.status \notin {401, 403} /\ (e.concurrent \/ IsRetryable(e)) -> "transient"
      [] e.status \in {400, 422} /\ ~e.concurrent /\ e.dataCode -> "data"
      [] OTHER -> "unknown"

(* Fault: a wrapped error does not show its status.                        *)
ClassOfMessageUnread(e) == "unknown"

(* decorateNsError makes a plain Error of it, which classifyHandlerError   *)
(* judges by the "status=" in its message, and then by its words.          *)
ClassOfMessage(e) ==
    CASE e.status \in {401, 403} -> "auth"
      [] e.status \in {0, 429} \cup 500..599 -> "transient"
      [] e.status \in 400..499 \ {401, 403, 429} -> "data"
      [] OTHER -> "unknown"

(* Only upsertByExternalId wraps its errors.                               *)
ClassIn(o) ==
    IF step[o] = "upsert" \/ error[o] = GovernorTimeout
    THEN ClassOfMessage(error[o]) ELSE mapNetSuiteError(error[o])

ShouldRetry(class) == class \in {"transient", "auth"}

-----------------------------------------------------------------------------
(***************************************************************************)
(* The factory, the governor and the SDK's retries.                        *)
(***************************************************************************)
SlotsOf(o) == {slot \in slots : slot[1] = o}

(* A gateway call begins: factory.get returns the cached client, or reads  *)
(* the credentials for a new one.                                          *)
Call(o, next) ==
    /\ step' = [step EXCEPT ![o] = next]
    /\ attempt' = [attempt EXCEPT ![o] = 0]
    /\ via' = [via EXCEPT ![o] = client]
    /\ phase' = [phase EXCEPT ![o] = IF client = NoOrder THEN "client" ELSE "acquire"]

End(o, how) ==
    /\ step' = [step EXCEPT ![o] = how]
    /\ phase' = [phase EXCEPT ![o] = "none"]
    /\ attempt' = [attempt EXCEPT ![o] = 0]
    /\ via' = [via EXCEPT ![o] = NoOrder]

(* The credentials are there: the client replaces whatever is cached.      *)
ClientReady(o) ==
    /\ phase[o] = "client"
    /\ client' = o
    /\ via' = [via EXCEPT ![o] = o]
    /\ phase' = [phase EXCEPT ![o] = "acquire"]
    /\ UNCHANGED <<merging, step, slots, attempt, waited, seen, error, netsuite, failures>>

(* Fault: every client counts its own calls (PerProcessGovernorStore).     *)
BucketOfClient(o) == {slot \in slots : via[slot[1]] = via[o]}

(* The governor store is the factory's, whichever client calls.            *)
Bucket(o) == slots

TryAcquire(o) ==
    /\ phase[o] = "acquire"
    /\ Cardinality(Bucket(o)) < Ceiling
    /\ slots' = slots \cup {<<o, attempt[o]>>}
    /\ waited' = [waited EXCEPT ![o] = 0]
    /\ phase' = [phase EXCEPT ![o] = "request"]
    /\ UNCHANGED <<merging, step, client, via, attempt, seen, error, netsuite, failures>>

Full(o) == phase[o] = "acquire" /\ Cardinality(Bucket(o)) >= Ceiling

PollAgain(o) ==
    /\ Full(o)
    /\ waited[o] < Polls
    /\ waited' = [waited EXCEPT ![o] = @ + 1]
    /\ UNCHANGED <<merging, step, phase, client, via, slots, attempt, seen, error, netsuite, failures>>

(* Fault: a call that fails keeps its slots.                               *)
ThrowKeepingSlots(o, e) ==
    /\ error' = [error EXCEPT ![o] = e]
    /\ phase' = [phase EXCEPT ![o] = "none"]
    /\ UNCHANGED <<slots, step, attempt, via>>

(* The exception passes the `finally' of every attempt; `classified' next. *)
Throw(o, e) ==
    /\ error' = [error EXCEPT ![o] = e]
    /\ slots' = slots \ SlotsOf(o)
    /\ phase' = [phase EXCEPT ![o] = "none"]
    /\ UNCHANGED <<step, attempt, via>>

(* Fault: acquireSlot has no deadline.                                     *)
GiveUpNever(o) == FALSE /\ UNCHANGED vars

GiveUp(o) ==
    /\ Full(o)
    /\ waited[o] = Polls
    /\ waited' = [waited EXCEPT ![o] = 0]
    /\ Throw(o, GovernorTimeout)
    /\ UNCHANGED <<merging, client, seen, netsuite, failures>>

(* The SDK retries: the attempt goes through the middleware again, while   *)
(* the slot of the one before may or may not have been released.           *)
Retry(o) ==
    /\ attempt[o] < MaxRetries
    /\ attempt' = [attempt EXCEPT ![o] = @ + 1]
    /\ phase' = [phase EXCEPT ![o] = "acquire"]
    /\ slots' \in {slots, slots \ SlotsOf(o)}
    /\ UNCHANGED <<step, via, error>>

-----------------------------------------------------------------------------
(***************************************************************************)
(* resolveCustomer.                                                        *)
(***************************************************************************)
Begin(o) ==
    /\ step[o] = "idle"
    /\ Call(o, IF merging THEN "find" ELSE "upsert")
    /\ UNCHANGED <<merging, client, slots, waited, seen, error, netsuite, failures>>

(* The payload of the customer upsert: the lines, {} to leave them alone.  *)
Payload(o) == IF merging THEN Merged(seen[o], AddressesOf[o]) ELSE Legacy(AddressesOf[o])

Ids(lines) == {line.id : line \in lines}

(* NetSuite replaces the sublist by the one it is sent and numbers the new *)
(* lines, of which at most one is the default for billing; a line it does  *)
(* not know makes it reject the request.                                   *)
Accepts(o) == Ids(Payload(o)) \subseteq Ids(book) \cup {New}

LastId == IF book = {} THEN 0 ELSE Max(Ids(book))

Stored(lines) ==
    {IF line.id # New THEN line ELSE [line EXCEPT !.id = LastId + (IF line.billing THEN 1 ELSE 2)]
        : line \in lines}

(* What NetSuite does of the call in hand.                                 *)
Effect(o) ==
    IF step[o] = "upsert"
    THEN /\ Accepts(o)
         /\ customer' = TRUE
         /\ book' = IF Payload(o) = {} THEN book ELSE Stored(Payload(o))
    ELSE UNCHANGED netsuite

(* The answer arrives and the next call begins.                            *)
Respond(o) ==
    /\ phase[o] = "request"
    /\ Effect(o)
    /\ slots' = slots \ SlotsOf(o)
    /\ seen' = [seen EXCEPT ![o] = IF step[o] = "read" THEN book ELSE {}]
    /\ \/ step[o] = "find" /\ Call(o, IF customer THEN "read" ELSE "upsert")
       \/ step[o] = "read" /\ Call(o, "upsert")
       \/ step[o] = "upsert" /\ End(o, "resolved")
    /\ UNCHANGED <<merging, client, waited, error, failures>>

(* The call fails, carried out or not when there is no answer at all.      *)
RequestFails(o) ==
    /\ phase[o] = "request"
    /\ failures > 0
    /\ failures' = failures - 1
    /\ \E e \in NsErrors :
        /\ \/ UNCHANGED netsuite
           \/ e.status = 0 /\ Effect(o)
        /\ (IsRetryable(e) /\ Retry(o)) \/ Throw(o, e)
    /\ UNCHANGED <<merging, client, waited, seen>>

(* NetSuite refuses an upsert with a line it does not know.                *)
Rejected(o) ==
    /\ phase[o] = "request"
    /\ step[o] = "upsert" /\ ~Accepts(o)
    /\ Throw(o, UnknownLine)
    /\ UNCHANGED <<merging, client, waited, seen, netsuite, failures>>

(* A redelivery starts over; anything else is parked, and the step it      *)
(* failed in stays to show.                                                *)
Parked(o) == error[o] # NoError /\ ~ShouldRetry(ClassIn(o))

Redeliver(o) ==
    /\ error[o] # NoError /\ ShouldRetry(ClassIn(o))
    /\ error' = [error EXCEPT ![o] = NoError]
    /\ seen' = [seen EXCEPT ![o] = {}]
    /\ End(o, "idle")
    /\ UNCHANGED <<merging, client, slots, waited, netsuite, failures>>

Work(o) ==
    \/ Begin(o) \/ ClientReady(o) \/ TryAcquire(o) \/ PollAgain(o) \/ GiveUp(o)
    \/ Respond(o) \/ Rejected(o) \/ Redeliver(o)

Next == \E o \in Orders : Work(o) \/ RequestFails(o)

Spec == Init /\ [][Next]_vars

(* Every await ends, every poll fires, and Service Bus redelivers.         *)
FairSpec == Spec /\ \A o \in Orders : WF_vars(Work(o))

-----------------------------------------------------------------------------
(***************************************************************************)
(* The governor bounds the requests of the host, although first calls that *)
(* race have clients of their own, attempts are made again and calls give  *)
(* up or fail at any moment.                                               *)
(***************************************************************************)
RequestsAreGoverned == Cardinality({o \in Orders : phase[o] = "request"}) <= Ceiling

(***************************************************************************)
(* No slot leaks: who holds one has a call in progress.                    *)
(***************************************************************************)
SlotsAreInUse == \A slot \in slots : phase[slot[1]] \in {"acquire", "request"}

(***************************************************************************)
(* Everybody may wait for a slot that only the others can free, when       *)
(* attempts are retried with their slots kept; every import ends all the   *)
(* same, with the customer written or the order parked.                    *)
(***************************************************************************)
ImportsEnd == \A o \in Orders : step[o] = "idle" ~> (step[o] = "resolved" \/ Parked(o))

(***************************************************************************)
(* An addressbook that has lines has one default of each kind, which       *)
(* NetSuite insists on, however the imports of the customer overlap.       *)
(***************************************************************************)
OneDefaultOfEachKind ==
    book # {} => /\ Cardinality({line \in book : line.billing}) = 1
                 /\ Cardinality({line \in book : line.shipping}) = 1

(***************************************************************************)
(* With the merge a line disappears only because an import that had read   *)
(* the addressbook before it was added writes its own version over it.     *)
(***************************************************************************)
LinesAreLostToOverlapOnly ==
    [][merging => \A id \in Ids(book) \ Ids(book') :
            \E o \in Orders : step[o] = "upsert" /\ phase[o] = "request" /\ id \notin Ids(seen[o])]_vars

(***************************************************************************)
(* Rejected credentials, throttling by status, failing servers and lost    *)
(* connections park no order, whether their error was wrapped or not.      *)
(***************************************************************************)
RecoverableIsRedelivered ==
    \A o \in Orders : Parked(o) => ~IsRetryable(error[o]) /\ error[o].status \notin {401, 403}

=============================================================================
