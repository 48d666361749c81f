-------------------------- MODULE MC_OrderPipeline --------------------------
(* Bounds for the model-checking runs of OrderPipeline.                    *)
EXTENDS DocumentedBehaviour, TLC

Symmetry == Permutations(Workers)

Bound(webhooks, polls, replays, failures, crashes, overruns, edits, switches) ==
    [webhook |-> webhooks, poll |-> polls, replay |-> replays, failure |-> failures,
     crash |-> crashes, overrun |-> overruns, edit |-> edits, switch |-> switches]

(* Operators, timers and a lost session lock racing the handlers of an order. *)
RaceBudget == Bound(1, 1, 2, 0, 0, 1, 0, 0)

(* Calls that fail or lose their answer, a host that dies, a replay.          *)
FailureBudget == Bound(1, 1, 1, 2, 1, 0, 0, 0)

(* Shopify delivers thrice, the order changes, the connection is switched.    *)
ShopifyBudget == Bound(3, 1, 0, 0, 1, 0, 2, 1)

(* Everything that must come to an end.                                       *)
ProgressBudget == Bound(1, 0, 1, 1, 2, 0, 0, 0)

(* The shortest counterexamples to what is documented.                     *)
TransientBudget == Bound(1, 0, 0, 1, 0, 0, 0, 0)
ReplayGateBudget == Bound(2, 0, 1, 0, 0, 0, 0, 0)
ReplayLostBudget == Bound(1, 0, 1, 1, 0, 0, 0, 0)
TagBudget == Bound(1, 0, 0, 2, 0, 0, 0, 0)
PollBudget == Bound(1, 1, 0, 0, 0, 0, 0, 0)
HeldBudget == Bound(0, 2, 0, 0, 0, 0, 1, 0)
DeadLetterBudget == Bound(1, 0, 0, 0, 2, 0, 0, 0)
=============================================================================
