----------------------------- MODULE Settlement -----------------------------
(***************************************************************************)
(* One batch as its release and its execution see it together.  The        *)
(* lifecycle (BatchLifecycle) stops at QUEUED and knows of execution only  *)
(* that the batch is paid and settled some day; the execution (Execution)  *)
(* starts at QUEUED and knows nothing of officers.  Both implement this    *)
(* specification, so what one assumes of the other is what it does.        *)
(***************************************************************************)
VARIABLES
  stage,   \* payment_batches.state, "UNRELEASED" before QUEUED
  paid     \* has any of its instructions been paid?

settlement == <<stage, paid>>

Init == stage \in {"UNRELEASED", "QUEUED"} /\ paid = FALSE

Release == stage = "UNRELEASED" /\ stage' = "QUEUED" /\ UNCHANGED paid

\* The first payment request is about to be sent.
Begin == stage = "QUEUED" /\ stage' = "PROCESSING" /\ UNCHANGED paid

\* A payment is found to be made while the batch runs, or after it was given up on.
Pay ==
  /\ stage \in {"PROCESSING", "TIMEOUT"}
  /\ paid' = TRUE
  /\ UNCHANGED stage

\* The one roll-up says FAILED only of a batch that paid nobody, and success only of one that did.
RollUp ==
  /\ stage = "PROCESSING"
  /\ stage' \in {"TIMEOUT"} \cup IF paid THEN {"SUCCESS", "PARTIAL_SUCCESS"} ELSE {"FAILED"}
  /\ UNCHANGED paid

Next == Release \/ Begin \/ Pay \/ RollUp

Spec == Init /\ [][Next]_settlement
=============================================================================
