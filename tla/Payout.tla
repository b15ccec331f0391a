------------------------------- MODULE Payout -------------------------------
(***************************************************************************)
(* What the execution of a released batch promises about money, without    *)
(* queues, callbacks or retries: an instruction is committed to before it  *)
(* is requested, requested at most once, and its ledger row says in the    *)
(* end what M-PESA did.  Execution.tla implements this specification.      *)
(***************************************************************************)
EXTENDS Naturals

CONSTANT Instructions

VARIABLES
  intent,     \* is the intention to pay on record: "none" or "recorded"
  requests,   \* how many payment requests have been sent
  outcome,    \* what M-PESA did: "none", "pending", "paid" or "unpaid"
  record      \* what the ledger says: "OPEN", "SUCCESS" or "FAILED"

payout == <<intent, requests, outcome, record>>

Init ==
  /\ intent = [i \in Instructions |-> "none"]
  /\ requests = [i \in Instructions |-> 0]
  /\ outcome = [i \in Instructions |-> "none"]
  /\ record = [i \in Instructions |-> "OPEN"]

Commit(i) ==
  /\ intent[i] = "none"
  /\ intent' = [intent EXCEPT ![i] = "recorded"]
  /\ UNCHANGED <<requests, outcome, record>>

\* The one request: it is lost on the way, taken in, or refused on the spot.
Request(i) ==
  /\ intent[i] = "recorded"
  /\ requests[i] = 0
  /\ requests' = [requests EXCEPT ![i] = 1]
  /\ \E answer \in {"none", "pending", "unpaid"} : outcome' = [outcome EXCEPT ![i] = answer]
  /\ UNCHANGED <<intent, record>>

Decide(i) ==
  /\ outcome[i] = "pending"
  /\ \E answer \in {"paid", "unpaid"} : outcome' = [outcome EXCEPT ![i] = answer]
  /\ UNCHANGED <<intent, requests, record>>

Record(i) ==
  /\ record[i] = "OPEN"
  /\ outcome[i] \in {"paid", "unpaid"}
  /\ record' = [record EXCEPT ![i] = IF outcome[i] = "paid" THEN "SUCCESS" ELSE "FAILED"]
  /\ UNCHANGED <<intent, requests, outcome>>

Next == \E i \in Instructions : Commit(i) \/ Request(i) \/ Decide(i) \/ Record(i)

Spec == Init /\ [][Next]_payout
=============================================================================
