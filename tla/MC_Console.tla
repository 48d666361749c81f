----------------------------- MODULE MC_Console -----------------------------
(* Payloads for the run of Console: an envelope, a large body, a replay.   *)
EXTENDS Console

Payloads ==
    {[origin |-> "blobs", size |-> "small"], [origin |-> "blobs", size |-> "large"],
     [origin |-> "replay", size |-> "small"]}
=============================================================================
