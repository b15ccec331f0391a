------------------------------ MODULE FourEyes ------------------------------
(***************************************************************************)
(* What the approval chain promises: whoever prepared a batch neither      *)
(* approves nor releases it, approval and release are two people's acts,   *)
(* what is approved stays as it is until it is released or withdrawn, and  *)
(* a batch is released once.                                               *)
(***************************************************************************)
CONSTANTS Batches, Users, None

VARIABLES
  hands,     \* everyone who prepared the batch
  content,   \* its payment instructions
  approved,  \* the officer whose approval stands, or None
  released   \* the officer who released it, or None

signed == <<hands, content, approved, released>>

Init ==
  /\ hands = [b \in Batches |-> {}]
  /\ content = [b \in Batches |-> None]
  /\ approved = [b \in Batches |-> None]
  /\ released = [b \in Batches |-> None]

Prepare(b) ==
  /\ approved[b] = None /\ released[b] = None
  /\ \E u \in Users : hands' = [hands EXCEPT ![b] = @ \cup {u}]
  /\ \A c \in Batches \ {b} : content'[c] = content[c]
  /\ UNCHANGED <<approved, released>>

Approve(b) ==
  /\ approved[b] = None /\ released[b] = None
  /\ \E u \in Users \ hands[b] : approved' = [approved EXCEPT ![b] = u]
  /\ UNCHANGED <<hands, content, released>>

Withdraw(b) ==
  /\ released[b] = None
  /\ approved' = [approved EXCEPT ![b] = None]
  /\ UNCHANGED <<hands, content, released>>

Release(b) ==
  /\ approved[b] # None /\ released[b] = None
  /\ \E u \in Users \ (hands[b] \cup {approved[b]}) : released' = [released EXCEPT ![b] = u]
  /\ UNCHANGED <<hands, content, approved>>

Next == \E b \in Batches : Prepare(b) \/ Approve(b) \/ Withdraw(b) \/ Release(b)

Spec == Init /\ [][Next]_signed
=============================================================================
