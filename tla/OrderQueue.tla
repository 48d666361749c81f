----------------------------- MODULE OrderQueue -----------------------------
(***************************************************************************)
(* The session-enabled Service Bus subscription order-import of the topic  *)
(* orders-in.  A message's session is `<connection>:<order>', so each      *)
(* order has a FIFO queue of its own, of which only the head is delivered, *)
(* to the one worker that holds the session.  A message is settled once:   *)
(* completed when its handler returned, released when the handler threw,   *)
(* its host died or the session lock ran out.  A released message goes     *)
(* back to the head of its queue, or to the dead-letter queue when it has  *)
(* been delivered MaxDeliveryCount times.                                  *)
(***************************************************************************)
EXTENDS Naturals, Sequences

CONSTANTS
    Orders,            \* one session per order
    Workers,           \* handler invocations the hosts can run at once
    Nobody,            \* the holder of a session nobody holds
    MaxDeliveryCount   \* maxDeliveryCount of the subscription

ASSUME QueueAssumption ==
    /\ MaxDeliveryCount \in Nat \ {0}
    /\ Nobody \notin Workers

VARIABLES
    queue,         \* the messages of each session, in order
    deadLetter,    \* the order's messages in the dead-letter queue
    lock           \* the worker that holds each session

bus == <<queue, deadLetter, lock>>

(* OrderWebhookMessage, reduced to the fields the handler decides by.      *)
Body == [topic : {"create", "updated"}, source : {"webhook", "catchup", "replay"}]

Message == [body : Body, deliveryCount : Nat]

QueueTypeOK ==
    /\ queue \in [Orders -> Seq(Message)]
    /\ deadLetter \in [Orders -> Seq(Message)]
    /\ lock \in [Orders -> Workers \cup {Nobody}]

QueueInit ==
    /\ queue = [o \in Orders |-> << >>]
    /\ deadLetter = [o \in Orders |-> << >>]
    /\ lock = [o \in Orders |-> Nobody]

enqueue(o, body) ==
    /\ queue' = [queue EXCEPT ![o] = Append(@, [body |-> body, deliveryCount |-> 0])]
    /\ UNCHANGED <<deadLetter, lock>>

Delivered(message) == [message EXCEPT !.deliveryCount = @ + 1]

(* Fault: requiresSession is off, and any worker may take the head.        *)
ReceiveUnlocked(w, o) ==
    /\ queue[o] # << >>
    /\ lock' = [lock EXCEPT ![o] = w]
    /\ queue' = [queue EXCEPT ![o] = <<Delivered(Head(@))>> \o Tail(@)]
    /\ UNCHANGED deadLetter

(* The head is handed to w with its 1-based delivery count.                *)
Receive(w, o) ==
    /\ lock[o] = Nobody
    /\ queue[o] # << >>
    /\ lock' = [lock EXCEPT ![o] = w]
    /\ queue' = [queue EXCEPT ![o] = <<Delivered(Head(@))>> \o Tail(@)]
    /\ UNCHANGED deadLetter

Complete(o) ==
    /\ queue' = [queue EXCEPT ![o] = Tail(@)]
    /\ lock' = [lock EXCEPT ![o] = Nobody]
    /\ UNCHANGED deadLetter

Release(o) ==
    /\ lock' = [lock EXCEPT ![o] = Nobody]
    /\ \/ /\ Head(queue[o]).deliveryCount < MaxDeliveryCount
          /\ UNCHANGED <<queue, deadLetter>>
       \/ /\ Head(queue[o]).deliveryCount >= MaxDeliveryCount
          /\ deadLetter' = [deadLetter EXCEPT ![o] = Append(@, Head(queue[o]))]
          /\ queue' = [queue EXCEPT ![o] = Tail(@)]

=============================================================================
