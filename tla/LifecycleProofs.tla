--------------------------- MODULE LifecycleProofs ---------------------------
(***************************************************************************)
(* Theorems of BatchLifecycle, for every number of batches, officers and   *)
(* ceremonies.  The safety properties follow from one inductive invariant, *)
(* LifecycleInv, of three layers:                                          *)
(*   TypeOK       types;                                                   *)
(*   DecisionInv  what a batch awaiting release, or released, says of its  *)
(*                officers, its approval and its findings;                 *)
(*   CeremonyInv  what a challenge, live or burnt, says of its batch.      *)
(* DecisionInv also carries the refinement of FourEyes.                    *)
(***************************************************************************)
EXTENDS BatchLifecycle, SequenceTheorems, TLAPS

-----------------------------------------------------------------------------
(* What the matrix and the edges come to, command by command.              *)

LEMMA ValidateEdge ==
  ASSUME NEW u, NEW from
  PROVE  AssertTransition(u, from, "VALIDATE") <=> from = "DRAFT" /\ u \in Users
  BY DEF AssertTransition, HumanEdges, PreparationEdges, ReviewEdges, ExecutiveEdges, E,
         PermissionsOfActor, Holds, OperatorPermissions, ControllerPermissions,
         ExecutivePermissions, Users

LEMMA SubmitEdge ==
  ASSUME NEW u, NEW from
  PROVE  AssertTransition(u, from, "SUBMIT_TO_L2") <=> from = "VALIDATED" /\ u \in L1
  BY DEF AssertTransition, HumanEdges, PreparationEdges, ReviewEdges, ExecutiveEdges, E,
         PermissionsOfActor, Holds, OperatorPermissions, ControllerPermissions,
         ExecutivePermissions, Users

LEMMA ApproveEdge ==
  ASSUME NEW u, NEW from
  PROVE  AssertTransition(u, from, "APPROVE_TO_L3") <=> from = "L2_REVIEW" /\ u \in L2
  BY DEF AssertTransition, HumanEdges, PreparationEdges, ReviewEdges, ExecutiveEdges, E,
         PermissionsOfActor, Holds, OperatorPermissions, ControllerPermissions,
         ExecutivePermissions, Users

LEMMA RejectEdge ==
  ASSUME NEW u, NEW from
  PROVE  AssertTransition(u, from, "REJECT") <=>
           from \in {"SUBMITTED_TO_L2", "L2_REVIEW", "L3_READY"} /\ u \in L2 \cup L3
  BY DEF AssertTransition, HumanEdges, PreparationEdges, ReviewEdges, ExecutiveEdges, E,
         PermissionsOfActor, Holds, OperatorPermissions, ControllerPermissions,
         ExecutivePermissions, Users

LEMMA HoldEdge ==
  ASSUME NEW u, NEW from
  PROVE  AssertTransition(u, from, "HOLD") <=>
           from \in {"SUBMITTED_TO_L2", "L2_REVIEW", "L3_READY"} /\ u \in L2 \cup L3
  BY DEF AssertTransition, HumanEdges, PreparationEdges, ReviewEdges, ExecutiveEdges, E,
         PermissionsOfActor, Holds, OperatorPermissions, ControllerPermissions,
         ExecutivePermissions, Users

LEMMA BeginEdge ==
  ASSUME NEW u, NEW from
  PROVE  AssertTransition(u, from, "BEGIN_AUTHORIZATION") <=> from = "L3_READY" /\ u \in L3
  BY DEF AssertTransition, HumanEdges, PreparationEdges, ReviewEdges, ExecutiveEdges, E,
         PermissionsOfActor, Holds, OperatorPermissions, ControllerPermissions,
         ExecutivePermissions, Users

LEMMA AbandonEdge ==
  ASSUME NEW u, NEW from
  PROVE  AssertTransition(u, from, "ABANDON_AUTHORIZATION") <=>
           from = "AUTHORIZATION_PENDING" /\ u \in L3
  BY DEF AssertTransition, HumanEdges, PreparationEdges, ReviewEdges, ExecutiveEdges, E,
         PermissionsOfActor, Holds, OperatorPermissions, ControllerPermissions,
         ExecutivePermissions, Users

LEMMA AuthorizeEdge ==
  ASSUME NEW u, NEW from
  PROVE  AssertTransition(u, from, "AUTHORIZE") <=> from = "AUTHORIZATION_PENDING" /\ u \in L3
  BY DEF AssertTransition, HumanEdges, PreparationEdges, ReviewEdges, ExecutiveEdges, E,
         PermissionsOfActor, Holds, OperatorPermissions, ControllerPermissions,
         ExecutivePermissions, Users

-----------------------------------------------------------------------------
(* Types.                                                                  *)

\* A challenge table rewritten row by row is a challenge table.
LEMMA TableOK ==
  ASSUME chal \in Seq(Challenges),
         NEW f, DOMAIN f = DOMAIN chal, f = [id \in DOMAIN f |-> f[id]],
         \A id \in DOMAIN chal : f[id] \in Challenges
  PROVE  f \in Seq(Challenges)
<1>1. DOMAIN chal = 1..Len(chal) /\ Len(chal) \in Nat
  OBVIOUS
<1>2. f \in [1..Len(chal) -> Challenges]
  BY <1>1
<1> QED
  BY <1>1, <1>2, SeqDef

LEMMA TypeInit == Init => TypeOK
  BY LifecycleAssumption DEF Init, TypeOK, BatchStates, Editable

\* Burning, abandoning and ageing a challenge keep the table well typed.
LEMMA BurnType ==
  ASSUME TypeOK, NEW id \in DOMAIN chal, chal' = [chal EXCEPT ![id].consumed = TRUE]
  PROVE  chal' \in Seq(Challenges)
<1>1. \A c \in DOMAIN chal : chal[c] \in Challenges
  BY DEF TypeOK
<1>2. \A c \in DOMAIN chal : chal'[c] \in Challenges
  BY <1>1 DEF Challenges
<1> QED
  BY <1>2, TableOK DEF TypeOK

LEMMA AbandonType ==
  ASSUME TypeOK, NEW ids, AbandonAll(ids)
  PROVE  chal' \in Seq(Challenges)
<1>1. \A c \in DOMAIN chal : chal[c] \in Challenges
  BY DEF TypeOK
<1>2. \A c \in DOMAIN chal : chal'[c] \in Challenges
  BY <1>1 DEF Challenges, AbandonAll
<1> QED
  BY <1>2, TableOK DEF TypeOK, AbandonAll

LEMMA AgeType ==
  ASSUME TypeOK, NEW id \in DOMAIN chal, ChallengeAges(id)
  PROVE  chal' \in Seq(Challenges)
<1>1. \A c \in DOMAIN chal : chal[c] \in Challenges
  BY DEF TypeOK
<1>2. \A c \in DOMAIN chal : chal'[c] \in Challenges
  BY <1>1 DEF Challenges, ChallengeAges, Ages
<1>3. DOMAIN chal' = DOMAIN chal /\ chal' = [c \in DOMAIN chal' |-> chal'[c]]
  BY DEF ChallengeAges
<1> QED
  BY <1>2, <1>3, TableOK DEF TypeOK

\* Every step of every officer, of housekeeping and of time keeps the types.
LEMMA TypeNext == TypeOK /\ [Next]_vars => TypeOK'
<1> SUFFICES ASSUME TypeOK, [Next]_vars PROVE TypeOK'
  OBVIOUS
<1> USE DEF officers, risk, Goto, IssueChallenge, Burn, RecordAuthorization
<1>1. ASSUME NEW b \in Batches, NEW u \in Users, Create(u, b) PROVE TypeOK'
  BY <1>1 DEF TypeOK, Create, BatchStates, Editable
<1>2. ASSUME NEW b \in Batches, NEW u \in Users, Upload(u, b) PROVE TypeOK'
  BY <1>2 DEF TypeOK, Upload, BatchStates, Editable
<1>3. ASSUME NEW b \in Batches, NEW u \in Users, Validate(u, b) PROVE TypeOK'
  BY <1>3, ValidateEdge DEF TypeOK, Validate, PersistFindings, BatchStates, Editable
<1>4. ASSUME NEW b \in Batches, NEW u \in Users, Submit(u, b) PROVE TypeOK'
  BY <1>4, SubmitEdge DEF TypeOK, Submit, BatchStates
<1>5. ASSUME NEW b \in Batches, NEW u \in Users, Approve(u, b) PROVE TypeOK'
  <2>1. /\ state' \in [Batches -> BatchStates]
        /\ approver' \in [Batches -> L2 \cup {None}]
        /\ reviewed' \in [Batches -> SUBSET Signals]
        /\ approvals' \in Nat
    BY <1>5, ApproveEdge DEF TypeOK, Approve, ReviewOpens, BatchStates
  <2>2. approval' \in [Batches -> Approvals \cup {None}]
    BY <1>5 DEF TypeOK, Approve, Approvals
  <2> QED
    BY <1>5, ApproveEdge, <2>1, <2>2 DEF TypeOK, Approve
<1>6. ASSUME NEW b \in Batches, NEW u \in Users, Reject(u, b) PROVE TypeOK'
  BY <1>6, RejectEdge DEF TypeOK, Reject, BatchStates, Editable
<1>7. ASSUME NEW b \in Batches, NEW u \in Users, Hold(u, b) PROVE TypeOK'
  BY <1>7, HoldEdge DEF TypeOK, Hold, BatchStates
<1>8. ASSUME NEW b \in Batches, NEW u \in Users, BeginAuthorization(u, b) PROVE TypeOK'
  <2> DEFINE row == BuildChallenge(u, Manifest(b, approval[b].ref))
  <2>1. approval[b].ref \in Nat
    BY <1>8, BeginEdge DEF TypeOK, BeginAuthorization, ApprovalIsCurrent, Approvals
  <2>2. version[b] \in Nat /\ content[b] \in Payloads /\ u \in L3
    BY <1>8, BeginEdge DEF TypeOK, BeginAuthorization
  <2>3. row \in Challenges
    BY <2>1, <2>2 DEF Challenges, Manifests, BuildChallenge, Manifest, Ages
  <2>4. chal' = Append(chal, row)
    BY <1>8 DEF BeginAuthorization
  <2>5. chal' \in Seq(Challenges)
    BY <2>3, <2>4 DEF TypeOK
  <2> QED
    BY <1>8, BeginEdge, <2>5 DEF TypeOK, BeginAuthorization, BatchStates
<1>9. ASSUME NEW b \in Batches, NEW u \in Users, AbandonCeremony(u, b) PROVE TypeOK'
  BY <1>9, AbandonEdge, AbandonType DEF TypeOK, AbandonCeremony, BatchStates
<1>10. ASSUME NEW b \in Batches, NEW u \in Users, NEW id \in DOMAIN chal, Release(u, b, id)
       PROVE  TypeOK'
  BY <1>10, AuthorizeEdge, BurnType DEF TypeOK, Release, BatchStates, Released
<1>11. CASE HousekeepingAbandons
  <2>1. {chal[id].batch : id \in Stale} \in SUBSET Batches
    <3>1. \A id \in Stale : chal[id] \in Challenges
      BY DEF TypeOK, Stale
    <3>2. \A id \in Stale : chal[id].batch \in Batches
      BY <3>1 DEF Challenges
    <3> QED
      BY <3>2
  <2> QED
    BY <1>11, <2>1, AbandonType DEF TypeOK, HousekeepingAbandons
<1>12. CASE HousekeepingReopens
  BY <1>12 DEF TypeOK, HousekeepingReopens, BatchStates
<1>13. CASE HousekeepingDies
  BY <1>13, LifecycleAssumption DEF TypeOK, HousekeepingDies
<1>14. ASSUME NEW b \in Batches, CoolsOff(b) PROVE TypeOK'
  BY <1>14 DEF TypeOK, CoolsOff
<1>15. ASSUME NEW b \in Batches, EvidenceChanges(b) PROVE TypeOK'
  BY <1>15 DEF TypeOK, EvidenceChanges
<1>16. ASSUME NEW b \in Batches, Execute(b) PROVE TypeOK'
  BY <1>16 DEF TypeOK, Execute, BatchStates, Released
<1>17. ASSUME NEW b \in Batches, Settle(b) PROVE TypeOK'
  BY <1>17 DEF TypeOK, Settle, BatchStates, Released, Terminal
<1>18. ASSUME NEW id \in DOMAIN chal, ChallengeAges(id) PROVE TypeOK'
  BY <1>18, AgeType DEF TypeOK, ChallengeAges
<1>19. CASE UNCHANGED vars
  BY <1>19 DEF TypeOK, vars
<1>20. ASSUME NEW b \in Batches, PaymentSucceeds(b) PROVE TypeOK'
  BY <1>20 DEF TypeOK, PaymentSucceeds
<1> QED
  BY <1>1, <1>2, <1>3, <1>4, <1>5, <1>6, <1>7, <1>8, <1>9, <1>10, <1>11, <1>12, <1>13, <1>14,
     <1>15, <1>16, <1>17, <1>18, <1>19, <1>20 DEF Next, Route

\* The lifecycle keeps its types (BatchLifecycle's TypeOK), for every number of officers,
\* batches and ceremonies.
THEOREM TypeCorrect == Spec => []TypeOK
<1> QED
  BY TypeInit, TypeNext, PTL DEF Spec

-----------------------------------------------------------------------------
(* Decisions.  The releaser is None until the one step that names him, and *)
(* an approval is of what the batch holds because only editable batches    *)
(* change and no approved batch is editable.                               *)

DecisionOn(b) ==
  /\ state[b] = "NONE" => creator[b] = None /\ editors[b] = {}
  /\ state[b] \in Approved \cup {"SUBMITTED_TO_L2"} => submitter[b] \in L1
  /\ state[b] \in Approved =>
       /\ approver[b] \in L2 \ ({creator[b], submitter[b]} \cup editors[b])
       /\ ApprovalIsCurrent(b)
       /\ approval[b].content = content[b]
       /\ findings[b] = reviewed[b]
  /\ state[b] \in Released => authorizer[b] \in L3 \ ({creator[b], approver[b]} \cup editors[b])
  /\ state[b] \notin Released => authorizer[b] = None

DecisionInv == \A b \in Batches : DecisionOn(b)

LEMMA DecisionInit == Init => DecisionInv
  BY DEF Init, DecisionInv, DecisionOn, Approved, Released, Terminal

\* A batch none of whose columns is written keeps what was decided on it.
LEMMA DecisionFrame ==
  ASSUME NEW b \in Batches, DecisionOn(b),
         state'[b] = state[b], version'[b] = version[b], content'[b] = content[b],
         creator'[b] = creator[b], submitter'[b] = submitter[b], approver'[b] = approver[b],
         authorizer'[b] = authorizer[b], editors'[b] = editors[b], approval'[b] = approval[b],
         findings'[b] = findings[b], reviewed'[b] = reviewed[b]
  PROVE  DecisionOn(b)'
  BY DEF DecisionOn, ApprovalIsCurrent

\* Every step keeps what was decided.
LEMMA DecisionNext == TypeOK /\ DecisionInv /\ [Next]_vars => DecisionInv'
<1> SUFFICES ASSUME TypeOK, DecisionInv, [Next]_vars, NEW c \in Batches PROVE DecisionOn(c)'
  BY DEF DecisionInv
<1> DecisionOn(c)
  BY DEF DecisionInv
<1> USE DEF officers, risk, Goto, IssueChallenge, Burn, RecordAuthorization
<1>1. ASSUME NEW b \in Batches, NEW u \in Users, Create(u, b) PROVE DecisionOn(c)'
  BY <1>1, DecisionFrame DEF TypeOK, Create, DecisionOn, Approved, Released, Terminal
<1>2. ASSUME NEW b \in Batches, NEW u \in Users, Upload(u, b) PROVE DecisionOn(c)'
  BY <1>2, DecisionFrame DEF TypeOK, Upload, DecisionOn, Approved, Released, Terminal, Editable
<1>3. ASSUME NEW b \in Batches, NEW u \in Users, Validate(u, b) PROVE DecisionOn(c)'
  BY <1>3, ValidateEdge, DecisionFrame
     DEF TypeOK, Validate, PersistFindings, DecisionOn, Approved, Released, Terminal
<1>4. ASSUME NEW b \in Batches, NEW u \in Users, Submit(u, b) PROVE DecisionOn(c)'
  BY <1>4, SubmitEdge, DecisionFrame
     DEF TypeOK, Submit, DecisionOn, Approved, Released, Terminal
<1>5. ASSUME NEW b \in Batches, NEW u \in Users, Approve(u, b) PROVE DecisionOn(c)'
  <2>1. CASE c = b
    <3>1. /\ state'[b] = "L3_READY" /\ approver'[b] = u /\ reviewed'[b] = findings[b]
          /\ approval'[b] = [ref |-> approvals + 1, version |-> version[b], content |-> content[b]]
      BY <1>5 DEF TypeOK, Approve
    <3>2. u \in L2 \ ({creator[b], submitter[b]} \cup editors[b])
      BY <1>5, ApproveEdge DEF Approve, ReviewOpens, AssertNotSelfApproval
    <3>3. authorizer[b] = None /\ submitter[b] \in L1
      BY <1>5, <2>1 DEF Approve, ReviewOpens, DecisionOn, Released, Terminal
    <3>4. approval'[b] # None
      BY <3>1, LifecycleAssumption DEF TypeOK, Approvals
    <3> QED
      BY <1>5, <2>1, <3>1, <3>2, <3>3, <3>4
         DEF Approve, DecisionOn, ApprovalIsCurrent, Released, Terminal
  <2>2. CASE c # b
    BY <1>5, <2>2, DecisionFrame DEF TypeOK, Approve
  <2> QED
    BY <2>1, <2>2
<1>6. ASSUME NEW b \in Batches, NEW u \in Users, Reject(u, b) PROVE DecisionOn(c)'
  BY <1>6, RejectEdge, DecisionFrame DEF TypeOK, Reject, DecisionOn, Approved, Released, Terminal
<1>7. ASSUME NEW b \in Batches, NEW u \in Users, Hold(u, b) PROVE DecisionOn(c)'
  BY <1>7, HoldEdge, DecisionFrame DEF TypeOK, Hold, DecisionOn, Approved, Released, Terminal
<1>8. ASSUME NEW b \in Batches, NEW u \in Users, BeginAuthorization(u, b) PROVE DecisionOn(c)'
  BY <1>8, BeginEdge, DecisionFrame
     DEF TypeOK, BeginAuthorization, DecisionOn, ApprovalIsCurrent, Approved, Released, Terminal
<1>9. ASSUME NEW b \in Batches, NEW u \in Users, AbandonCeremony(u, b) PROVE DecisionOn(c)'
  BY <1>9, AbandonEdge, DecisionFrame
     DEF TypeOK, AbandonCeremony, DecisionOn, ApprovalIsCurrent, Approved, Released, Terminal
<1>10. ASSUME NEW b \in Batches, NEW u \in Users, NEW id \in DOMAIN chal, Release(u, b, id)
       PROVE  DecisionOn(c)'
  BY <1>10, AuthorizeEdge, DecisionFrame
     DEF TypeOK, Release, AssertNotSelfAuthorization, DecisionOn, ApprovalIsCurrent, Approved,
         Released, Terminal
<1>11. CASE HousekeepingAbandons
  BY <1>11, DecisionFrame DEF HousekeepingAbandons
<1>12. CASE HousekeepingReopens
  BY <1>12, DecisionFrame
     DEF TypeOK, HousekeepingReopens, DecisionOn, ApprovalIsCurrent, Approved, Released, Terminal
<1>13. CASE HousekeepingDies
  BY <1>13, DecisionFrame DEF HousekeepingDies
<1>14. ASSUME NEW b \in Batches, CoolsOff(b) PROVE DecisionOn(c)'
  BY <1>14, DecisionFrame DEF CoolsOff
<1>15. ASSUME NEW b \in Batches, EvidenceChanges(b) PROVE DecisionOn(c)'
  BY <1>15, DecisionFrame DEF EvidenceChanges
<1>16. ASSUME NEW b \in Batches, Execute(b) PROVE DecisionOn(c)'
  BY <1>16, DecisionFrame
     DEF TypeOK, Execute, DecisionOn, ApprovalIsCurrent, Approved, Released, Terminal
<1>17. ASSUME NEW b \in Batches, Settle(b) PROVE DecisionOn(c)'
  BY <1>17, DecisionFrame
     DEF TypeOK, Settle, DecisionOn, ApprovalIsCurrent, Approved, Released, Terminal
<1>18. ASSUME NEW id \in DOMAIN chal, ChallengeAges(id) PROVE DecisionOn(c)'
  BY <1>18, DecisionFrame DEF ChallengeAges
<1>19. CASE UNCHANGED vars
  BY <1>19, DecisionFrame DEF vars
<1>20. ASSUME NEW b \in Batches, PaymentSucceeds(b) PROVE DecisionOn(c)'
  BY <1>20, DecisionFrame DEF PaymentSucceeds
<1> QED
  BY <1>1, <1>2, <1>3, <1>4, <1>5, <1>6, <1>7, <1>8, <1>9, <1>10, <1>11, <1>12, <1>13, <1>14,
     <1>15, <1>16, <1>17, <1>18, <1>19, <1>20 DEF Next, Route

LEMMA DecisionCorrect == Spec => []DecisionInv
<1> QED
  BY TypeInit, TypeNext, DecisionInit, DecisionNext, PTL DEF Spec

\* SeparationOfDuties: a released batch was submitted at level 1, approved at level 2 and
\* released at level 3, by officers of whom none prepared what he decided on, whatever was
\* edited or rejected in between.
THEOREM DutiesSeparated == Spec => []SeparationOfDuties
<1>1. TypeOK /\ DecisionInv => SeparationOfDuties
  BY DEF TypeOK, DecisionInv, DecisionOn, SeparationOfDuties, Users, Approved
<1> QED
  BY <1>1, TypeCorrect, DecisionCorrect, PTL

\* ApprovalStands: from approval to release and beyond, the decision on record is of exactly
\* the instructions the batch holds, housekeeping or not.
THEOREM NoEditAfterApproval == Spec => []ApprovalStands
<1>1. DecisionInv => ApprovalStands
  BY LifecycleAssumption DEF DecisionInv, DecisionOn, ApprovalStands, Users
<1> QED
  BY <1>1, DecisionCorrect, PTL

\* FindingsAreReviewed: no batch awaits release with a finding nobody disposed of.
THEOREM NoUnreviewedFinding == Spec => []FindingsAreReviewed
<1>1. DecisionInv => FindingsAreReviewed
  BY DEF DecisionInv, DecisionOn, FindingsAreReviewed
<1> QED
  BY <1>1, DecisionCorrect, PTL

-----------------------------------------------------------------------------
(* Ceremonies.  That the approval a live challenge names still stands is   *)
(* true of a pending batch only: housekeeping may leave a live challenge   *)
(* under L3_READY, whose batch is then rejected and approved anew.  The    *)
(* index on open challenges keeps such a batch from becoming pending.      *)

ChallengeOK(id) ==
  /\ <<chal[id].user, chal[id].manifest.content>> \notin Conflicts
  /\ chal[id].consumed => state[chal[id].batch] \in Released
  /\ Live(id) /\ state[chal[id].batch] = "AUTHORIZATION_PENDING" =>
       chal[id].approval = approval[chal[id].batch].ref

\* The challenge id released batch b.
Signed(b, id) ==
  /\ \A c \in DOMAIN chal : chal[c].consumed /\ chal[c].batch = b <=> c = id
  /\ ~chal[id].abandoned
  /\ chal[id].user = authorizer[b]
  /\ chal[id].manifest = Manifest(b, approval[b].ref)

SignedOK(b) == state[b] \in Released => \E id \in DOMAIN chal : Signed(b, id)

CeremonyInv ==
  /\ \A id \in DOMAIN chal : ChallengeOK(id)
  /\ \A b \in Batches : SignedOK(b)

LEMMA ChallengeTypes ==
  ASSUME TypeOK, NEW id \in DOMAIN chal
  PROVE  /\ chal[id].batch \in Batches /\ chal[id].user \in L3
         /\ chal[id].consumed \in BOOLEAN /\ chal[id].abandoned \in BOOLEAN
<1>1. chal[id] \in Challenges
  BY DEF TypeOK
<1> QED
  BY <1>1 DEF Challenges

LEMMA CeremonyInit == Init => CeremonyInv
  BY DEF Init, CeremonyInv, SignedOK, Released, Terminal

\* A step that leaves the challenges alone, moves no batch into AUTHORIZATION_PENDING and
\* none across the line to Released, and writes nothing the ceremony of a pending or
\* released batch depends on, keeps the invariant.
LEMMA CeremonyFrame ==
  ASSUME TypeOK, CeremonyInv, chal' = chal, authorizer' = authorizer,
         \A b \in Batches :
           /\ state'[b] \in Released <=> state[b] \in Released
           /\ state'[b] = "AUTHORIZATION_PENDING" => state[b] = "AUTHORIZATION_PENDING"
           /\ state[b] \in Released \cup {"AUTHORIZATION_PENDING"} =>
                /\ approval'[b] = approval[b]
                /\ version'[b] = version[b] /\ content'[b] = content[b]
  PROVE  CeremonyInv'
<1>1. \A id \in DOMAIN chal : chal[id].batch \in Batches
  BY ChallengeTypes
<1>2. ASSUME NEW id \in DOMAIN chal' PROVE ChallengeOK(id)'
  BY <1>1, <1>2 DEF CeremonyInv, ChallengeOK, Live
<1>3. ASSUME NEW b \in Batches PROVE SignedOK(b)'
  BY <1>3 DEF CeremonyInv, SignedOK, Signed, Manifest
<1> QED
  BY <1>2, <1>3 DEF CeremonyInv

\* Closing or ageing live challenges burns none and keeps what each says.
LEMMA CeremonyUnburnt ==
  ASSUME TypeOK, CeremonyInv, DOMAIN chal' = DOMAIN chal,
         \A id \in DOMAIN chal :
           /\ chal'[id].batch = chal[id].batch /\ chal'[id].user = chal[id].user
           /\ chal'[id].approval = chal[id].approval /\ chal'[id].manifest = chal[id].manifest
           /\ chal'[id].consumed = chal[id].consumed
           /\ chal'[id].abandoned => chal[id].abandoned \/ Live(id)
           /\ chal[id].abandoned => chal'[id].abandoned,
         authorizer' = authorizer, approval' = approval, version' = version, content' = content,
         \A b \in Batches :
           /\ state'[b] \in Released <=> state[b] \in Released
           /\ state'[b] = "AUTHORIZATION_PENDING" => state[b] = "AUTHORIZATION_PENDING"
  PROVE  CeremonyInv'
<1>1. \A id \in DOMAIN chal : /\ chal[id].batch \in Batches
                              /\ chal[id].consumed \in BOOLEAN /\ chal[id].abandoned \in BOOLEAN
  BY ChallengeTypes
<1>2. ASSUME NEW id \in DOMAIN chal' PROVE ChallengeOK(id)'
  BY <1>1, <1>2 DEF CeremonyInv, ChallengeOK, Live
<1>3. ASSUME NEW b \in Batches PROVE SignedOK(b)'
  <2> SUFFICES ASSUME state[b] \in Released PROVE \E id \in DOMAIN chal : Signed(b, id)'
    BY DEF SignedOK
  <2>1. PICK id \in DOMAIN chal : Signed(b, id)
    BY DEF CeremonyInv, SignedOK
  <2>2. chal[id].consumed
    BY <2>1 DEF Signed
  <2>3. Signed(b, id)'
    BY <1>1, <2>1, <2>2 DEF Signed, Live, Manifest
  <2> QED
    BY <2>3
<1> QED
  BY <1>2, <1>3 DEF CeremonyInv

\* Abandoning live challenges is such a step.
LEMMA CeremonyAbandon ==
  ASSUME TypeOK, CeremonyInv, NEW ids, ids \subseteq {id \in DOMAIN chal : Live(id)}, AbandonAll(ids),
         authorizer' = authorizer, approval' = approval, version' = version, content' = content,
         \A b \in Batches :
           /\ state'[b] \in Released <=> state[b] \in Released
           /\ state'[b] = "AUTHORIZATION_PENDING" => state[b] = "AUTHORIZATION_PENDING"
  PROVE  CeremonyInv'
<1>1. \A id \in DOMAIN chal : chal[id] \in Challenges
  BY DEF TypeOK
<1>2. DOMAIN chal' = DOMAIN chal
  BY DEF AbandonAll
<1>3. ASSUME NEW id \in DOMAIN chal
      PROVE  /\ chal'[id].batch = chal[id].batch /\ chal'[id].user = chal[id].user
             /\ chal'[id].approval = chal[id].approval /\ chal'[id].manifest = chal[id].manifest
             /\ chal'[id].consumed = chal[id].consumed
             /\ chal'[id].abandoned => chal[id].abandoned \/ Live(id)
             /\ chal[id].abandoned => chal'[id].abandoned
  BY <1>1 DEF AbandonAll, Challenges
<1> QED
  BY <1>2, <1>3, CeremonyUnburnt

\* Beginning a ceremony issues the one live challenge of its batch, over the approval that
\* stands.
LEMMA CeremonyBegin ==
  ASSUME TypeOK, CeremonyInv, NEW b \in Batches, NEW u \in Users, BeginAuthorization(u, b)
  PROVE  CeremonyInv'
<1> DEFINE row == BuildChallenge(u, Manifest(b, approval[b].ref))
           new == Len(chal) + 1
<1>1. chal' = Append(chal, row)
  BY DEF BeginAuthorization, IssueChallenge
<1>2. /\ DOMAIN chal' = DOMAIN chal \cup {new} /\ new \notin DOMAIN chal
      /\ chal'[new] = row
      /\ \A id \in DOMAIN chal : chal'[id] = chal[id]
  BY <1>1 DEF TypeOK
<1>3. /\ state[b] = "L3_READY" /\ state' = [state EXCEPT ![b] = "AUTHORIZATION_PENDING"]
      /\ approval' = approval /\ authorizer' = authorizer
      /\ version' = version /\ content' = content
      /\ <<u, content[b]>> \notin Conflicts /\ Open(b) = {}
  BY BeginEdge DEF BeginAuthorization, IssueChallenge, DeclaredConflict, Goto, officers
<1>4. \A c \in Batches : /\ state'[c] \in Released <=> state[c] \in Released
                         /\ c # b => state'[c] = state[c]
  BY <1>3 DEF TypeOK, Released, Terminal
<1>5. ASSUME NEW id \in DOMAIN chal' PROVE ChallengeOK(id)'
  <2>1. CASE id = new
    <3>1. /\ chal'[id].user = u /\ ~chal'[id].consumed
          /\ chal'[id].batch = b /\ chal'[id].approval = approval[b].ref
          /\ chal'[id].manifest.content = content[b]
      BY <1>2, <2>1 DEF BuildChallenge, Manifest
    <3> QED
      BY <1>3, <3>1 DEF ChallengeOK
  <2>2. CASE id \in DOMAIN chal
    <3>1. ChallengeOK(id) /\ chal[id].batch \in Batches /\ chal'[id] = chal[id]
      BY <1>2, <2>2, ChallengeTypes DEF CeremonyInv
    <3>2. Live(id) => chal[id].batch # b
      BY <1>3, <2>2 DEF Open
    <3>3. Live(id)' <=> Live(id)
      BY <3>1 DEF Live
    <3> QED
      BY <1>3, <1>4, <3>1, <3>2, <3>3 DEF ChallengeOK
  <2> QED
    BY <1>2, <2>1, <2>2
<1>6. ASSUME NEW c \in Batches PROVE SignedOK(c)'
  <2> SUFFICES ASSUME state[c] \in Released PROVE \E id \in DOMAIN chal' : Signed(c, id)'
    BY <1>4 DEF SignedOK
  <2>1. PICK id \in DOMAIN chal : Signed(c, id)
    BY DEF CeremonyInv, SignedOK
  <2>2. ~chal'[new].consumed
    BY <1>2 DEF BuildChallenge
  <2>3. \A d \in DOMAIN chal' : chal'[d].consumed /\ chal'[d].batch = c <=> d = id
    BY <1>2, <2>1, <2>2 DEF Signed
  <2> QED
    BY <1>2, <1>3, <2>1, <2>3 DEF Signed, Manifest
<1> QED
  BY <1>3, <1>5, <1>6 DEF CeremonyInv

\* Releasing burns the challenge: none of its batch was burnt before.
LEMMA CeremonyRelease ==
  ASSUME TypeOK, CeremonyInv, NEW b \in Batches, NEW u \in Users, NEW id \in DOMAIN chal,
         Release(u, b, id)
  PROVE  CeremonyInv'
<1>1. /\ state[b] = "AUTHORIZATION_PENDING" /\ state' = [state EXCEPT ![b] = "QUEUED"]
      /\ chal' = [chal EXCEPT ![id].consumed = TRUE]
      /\ authorizer' = [authorizer EXCEPT ![b] = u]
      /\ approval' = approval /\ version' = version /\ content' = content
  BY AuthorizeEdge DEF Release, Burn, RecordAuthorization, Goto
<1>2. /\ ~chal[id].abandoned /\ ~chal[id].consumed /\ chal[id].user = u
      /\ chal[id].batch = b /\ chal[id].manifest = Manifest(b, chal[id].approval)
  BY DEF Release, VerifyChallengeBinding
<1>3. ChallengeOK(id) /\ Live(id) /\ chal[id].approval = approval[b].ref
  BY <1>1, <1>2 DEF CeremonyInv, ChallengeOK, Live
<1>4. /\ DOMAIN chal' = DOMAIN chal
      /\ \A c \in DOMAIN chal \ {id} : chal'[c] = chal[c]
  BY <1>1
<1>5. /\ chal'[id].batch = b /\ chal'[id].user = u
      /\ chal'[id].manifest = chal[id].manifest
      /\ chal'[id].manifest = Manifest(b, approval[b].ref)
      /\ chal'[id].consumed /\ ~chal'[id].abandoned
  <2>1. chal[id] \in Challenges
    BY DEF TypeOK
  <2> QED
    BY <1>1, <1>2, <1>3, <2>1 DEF Challenges
<1>6. /\ state'[b] = "QUEUED" /\ authorizer'[b] = u
      /\ \A c \in Batches \ {b} : state'[c] = state[c] /\ authorizer'[c] = authorizer[c]
  BY <1>1 DEF TypeOK
<1>7. state[b] \notin Released /\ state'[b] \in Released
  BY <1>1, <1>6 DEF Released, Terminal
<1>8. ASSUME NEW c \in DOMAIN chal' PROVE ChallengeOK(c)'
  <2>1. CASE c = id
    BY <1>3, <1>2, <1>5, <1>7, <2>1 DEF ChallengeOK, Live
  <2>2. CASE c # id
    <3>1. ChallengeOK(c) /\ chal[c].batch \in Batches /\ chal'[c] = chal[c]
      BY <1>4, <2>2, ChallengeTypes DEF CeremonyInv
    <3>2. Live(c)' <=> Live(c)
      BY <3>1 DEF Live
    <3> QED
      BY <1>1, <1>6, <1>7, <3>1, <3>2 DEF ChallengeOK
  <2> QED
    BY <2>1, <2>2
<1>9. SignedOK(b)'
  <2>1. \A c \in DOMAIN chal : chal[c].consumed => chal[c].batch # b
    BY <1>7 DEF CeremonyInv, ChallengeOK
  <2>2. \A c \in DOMAIN chal' : chal'[c].consumed /\ chal'[c].batch = b <=> c = id
    BY <1>4, <1>5, <2>1
  <2>3. Signed(b, id)'
    BY <1>1, <1>5, <1>6, <2>2 DEF Signed, Manifest
  <2> QED
    BY <1>4, <2>3 DEF SignedOK
<1>10. ASSUME NEW c \in Batches, c # b PROVE SignedOK(c)'
  <2> SUFFICES ASSUME state[c] \in Released PROVE \E d \in DOMAIN chal' : Signed(c, d)'
    BY <1>6, <1>10 DEF SignedOK
  <2>1. PICK d \in DOMAIN chal : Signed(c, d)
    BY DEF CeremonyInv, SignedOK
  <2>2. d # id
    BY <1>2, <2>1 DEF Signed
  <2>3. \A e \in DOMAIN chal' : chal'[e].consumed /\ chal'[e].batch = c <=> e = d
    BY <1>2, <1>4, <1>5, <1>10, <2>1, <2>2 DEF Signed
  <2> QED
    BY <1>1, <1>4, <1>6, <1>10, <2>1, <2>2, <2>3 DEF Signed, Manifest
<1> QED
  BY <1>8, <1>9, <1>10 DEF CeremonyInv

\* Every step keeps what the challenges say.
LEMMA CeremonyNext == TypeOK /\ DecisionInv /\ CeremonyInv /\ [Next]_vars => CeremonyInv'
<1> SUFFICES ASSUME TypeOK, DecisionInv, CeremonyInv, [Next]_vars PROVE CeremonyInv'
  OBVIOUS
<1> USE DEF officers, risk, Goto, IssueChallenge, Burn, RecordAuthorization
<1>1. ASSUME NEW b \in Batches, NEW u \in Users, Create(u, b) PROVE CeremonyInv'
  BY <1>1, CeremonyFrame DEF TypeOK, Create, Released, Terminal
<1>2. ASSUME NEW b \in Batches, NEW u \in Users, Upload(u, b) PROVE CeremonyInv'
  BY <1>2, CeremonyFrame DEF TypeOK, Upload, Released, Terminal, Editable
<1>3. ASSUME NEW b \in Batches, NEW u \in Users, Validate(u, b) PROVE CeremonyInv'
  BY <1>3, ValidateEdge, CeremonyFrame DEF TypeOK, Validate, Released, Terminal
<1>4. ASSUME NEW b \in Batches, NEW u \in Users, Submit(u, b) PROVE CeremonyInv'
  BY <1>4, SubmitEdge, CeremonyFrame DEF TypeOK, Submit, Released, Terminal
<1>5. ASSUME NEW b \in Batches, NEW u \in Users, Approve(u, b) PROVE CeremonyInv'
  BY <1>5, ApproveEdge, CeremonyFrame DEF TypeOK, Approve, ReviewOpens, Released, Terminal
<1>6. ASSUME NEW b \in Batches, NEW u \in Users, Reject(u, b) PROVE CeremonyInv'
  BY <1>6, RejectEdge, CeremonyFrame DEF TypeOK, Reject, Released, Terminal
<1>7. ASSUME NEW b \in Batches, NEW u \in Users, Hold(u, b) PROVE CeremonyInv'
  BY <1>7, HoldEdge, CeremonyFrame DEF TypeOK, Hold, Released, Terminal
<1>8. ASSUME NEW b \in Batches, NEW u \in Users, BeginAuthorization(u, b) PROVE CeremonyInv'
  BY <1>8, CeremonyBegin
<1>9. ASSUME NEW b \in Batches, NEW u \in Users, AbandonCeremony(u, b) PROVE CeremonyInv'
  <2>1. Open(b) \subseteq {id \in DOMAIN chal : Live(id)}
    BY DEF Open
  <2> QED
    BY <1>9, AbandonEdge, <2>1, CeremonyAbandon DEF TypeOK, AbandonCeremony, Released, Terminal
<1>10. ASSUME NEW b \in Batches, NEW u \in Users, NEW id \in DOMAIN chal, Release(u, b, id)
       PROVE  CeremonyInv'
  BY <1>10, CeremonyRelease
<1>11. CASE HousekeepingAbandons
  <2>1. Stale \subseteq {id \in DOMAIN chal : Live(id)}
    BY DEF Stale
  <2> QED
    BY <1>11, <2>1, CeremonyAbandon DEF HousekeepingAbandons
<1>12. CASE HousekeepingReopens
  BY <1>12, CeremonyFrame DEF TypeOK, HousekeepingReopens, Released, Terminal
<1>13. CASE HousekeepingDies
  BY <1>13, CeremonyFrame DEF HousekeepingDies
<1>14. ASSUME NEW b \in Batches, CoolsOff(b) PROVE CeremonyInv'
  BY <1>14, CeremonyFrame DEF CoolsOff
<1>15. ASSUME NEW b \in Batches, EvidenceChanges(b) PROVE CeremonyInv'
  BY <1>15, CeremonyFrame DEF EvidenceChanges
<1>16. ASSUME NEW b \in Batches, Execute(b) PROVE CeremonyInv'
  BY <1>16, CeremonyFrame DEF TypeOK, Execute, Released, Terminal
<1>17. ASSUME NEW b \in Batches, Settle(b) PROVE CeremonyInv'
  BY <1>17, CeremonyFrame DEF TypeOK, Settle, Released, Terminal
<1>18. ASSUME NEW id \in DOMAIN chal, ChallengeAges(id) PROVE CeremonyInv'
  <2>1. \A c \in DOMAIN chal : chal[c] \in Challenges
    BY DEF TypeOK
  <2>2. DOMAIN chal' = DOMAIN chal
    BY <1>18 DEF ChallengeAges
  <2>3. ASSUME NEW c \in DOMAIN chal
        PROVE  /\ chal'[c].batch = chal[c].batch /\ chal'[c].user = chal[c].user
               /\ chal'[c].approval = chal[c].approval /\ chal'[c].manifest = chal[c].manifest
               /\ chal'[c].consumed = chal[c].consumed /\ chal'[c].abandoned = chal[c].abandoned
    BY <1>18, <2>1 DEF ChallengeAges, Challenges
  <2> QED
    BY <1>18, <2>2, <2>3, CeremonyUnburnt DEF ChallengeAges
<1>19. CASE UNCHANGED vars
  BY <1>19, CeremonyFrame DEF vars
<1>20. ASSUME NEW b \in Batches, PaymentSucceeds(b) PROVE CeremonyInv'
  BY <1>20, CeremonyFrame DEF PaymentSucceeds
<1> QED
  BY <1>1, <1>2, <1>3, <1>4, <1>5, <1>6, <1>7, <1>8, <1>9, <1>10, <1>11, <1>12, <1>13, <1>14,
     <1>15, <1>16, <1>17, <1>18, <1>19, <1>20 DEF Next, Route

LifecycleInv == TypeOK /\ DecisionInv /\ CeremonyInv

LEMMA LifecycleCorrect == Spec => []LifecycleInv
<1>1. Init => LifecycleInv
  BY TypeInit, DecisionInit, CeremonyInit DEF LifecycleInv
<1>2. LifecycleInv /\ [Next]_vars => LifecycleInv'
  BY TypeNext, DecisionNext, CeremonyNext DEF LifecycleInv
<1> QED
  BY <1>1, <1>2, PTL DEF Spec

\* ReleaseIsSigned: a released batch has exactly one burnt challenge, its releaser's, of the
\* approval that stands and over the instructions it holds, and never an abandoned one.
THEOREM SignedOnce == Spec => []ReleaseIsSigned
<1>1. LifecycleInv => ReleaseIsSigned
  BY DEF LifecycleInv, CeremonyInv, SignedOK, Signed, ReleaseIsSigned
<1> QED
  BY <1>1, LifecycleCorrect, PTL

\* ReleaserIsUnconflicted: an officer with a declared conflict never releases what pays anyone
\* in its scope, although the release itself does not ask.
THEOREM NoConflictedRelease == Spec => []ReleaserIsUnconflicted
<1>1. LifecycleInv => ReleaserIsUnconflicted
  <2> SUFFICES ASSUME LifecycleInv, NEW b \in Batches PROVE ~DeclaredConflict(authorizer[b], b)
    BY DEF ReleaserIsUnconflicted
  <2>1. CASE state[b] \in Released
    <3>1. PICK id \in DOMAIN chal : Signed(b, id)
      BY <2>1 DEF LifecycleInv, CeremonyInv, SignedOK
    <3>2. chal[id].user = authorizer[b] /\ chal[id].manifest.content = content[b]
      BY <3>1 DEF Signed, Manifest
    <3> QED
      BY <3>2 DEF LifecycleInv, CeremonyInv, ChallengeOK, DeclaredConflict
  <2>2. CASE state[b] \notin Released
    <3>1. authorizer[b] = None
      BY <2>2 DEF LifecycleInv, DecisionInv, DecisionOn
    <3> QED
      BY <3>1, LifecycleAssumption DEF DeclaredConflict
  <2> QED
    BY <2>1, <2>2
<1> QED
  BY <1>1, LifecycleCorrect, PTL

-----------------------------------------------------------------------------
(* The states a step stores, against the table.                            *)

\* The moves the steps make, each an edge of the table or two.
LEMMA MovesOfTable ==
  /\ Move("DRAFT", "VALIDATED")
  /\ Move("VALIDATED", "DRAFT")
  /\ Move("VALIDATED", "SUBMITTED_TO_L2")
  /\ Move("SUBMITTED_TO_L2", "L3_READY")
  /\ \A s \in {"SUBMITTED_TO_L2", "L3_READY"} : Move(s, "DRAFT") /\ Move(s, "HELD")
  /\ Move("L3_READY", "AUTHORIZATION_PENDING")
  /\ Move("AUTHORIZATION_PENDING", "L3_READY")
  /\ Move("AUTHORIZATION_PENDING", "QUEUED")
  /\ Move("QUEUED", "PROCESSING")
  /\ \A t \in Terminal \cup {"TIMEOUT"} : Move("PROCESSING", t)
  BY DEF Move, Step, HumanEdges, SystemEdges, PreparationEdges, ReviewEdges, ExecutiveEdges, E,
         Terminal

Follows(b) == state[b] \notin {"NONE", state'[b]} => Move(state[b], state'[b])

\* A step that moves one batch moves no other.
LEMMA FollowsAlone ==
  ASSUME TypeOK, NEW b \in Batches, NEW next, Goto(b, next),
         state[b] \in {"NONE", next} \/ Move(state[b], next)
  PROVE  \A c \in Batches : Follows(c)
  BY DEF TypeOK, Goto, Follows

LEMMA FollowsStep == TypeOK /\ [Next]_vars => \A b \in Batches : Follows(b)
<1> SUFFICES ASSUME TypeOK, [Next]_vars PROVE \A c \in Batches : Follows(c)
  OBVIOUS
<1>1. ASSUME NEW b \in Batches, NEW u \in Users, Create(u, b) PROVE \A c \in Batches : Follows(c)
  BY <1>1, FollowsAlone DEF Create
<1>2. ASSUME NEW b \in Batches, NEW u \in Users, Upload(u, b) PROVE \A c \in Batches : Follows(c)
  BY <1>2, FollowsAlone, MovesOfTable DEF Upload, Editable
<1>3. ASSUME NEW b \in Batches, NEW u \in Users, Validate(u, b) PROVE \A c \in Batches : Follows(c)
  BY <1>3, ValidateEdge, FollowsAlone, MovesOfTable DEF Validate
<1>4. ASSUME NEW b \in Batches, NEW u \in Users, Submit(u, b) PROVE \A c \in Batches : Follows(c)
  BY <1>4, SubmitEdge, FollowsAlone, MovesOfTable DEF Submit
<1>5. ASSUME NEW b \in Batches, NEW u \in Users, Approve(u, b) PROVE \A c \in Batches : Follows(c)
  BY <1>5, FollowsAlone, MovesOfTable DEF Approve, ReviewOpens
<1>6. ASSUME NEW b \in Batches, NEW u \in Users, Reject(u, b) PROVE \A c \in Batches : Follows(c)
  <2>1. state[b] \in {"SUBMITTED_TO_L2", "L3_READY"}
    BY <1>6, RejectEdge DEF TypeOK, Reject, BatchStates, Editable, Released, Terminal
  <2> QED
    BY <1>6, <2>1, FollowsAlone, MovesOfTable DEF Reject
<1>7. ASSUME NEW b \in Batches, NEW u \in Users, Hold(u, b) PROVE \A c \in Batches : Follows(c)
  <2>1. state[b] \in {"SUBMITTED_TO_L2", "L3_READY"}
    BY <1>7, HoldEdge DEF TypeOK, Hold, BatchStates, Editable, Released, Terminal
  <2> QED
    BY <1>7, <2>1, FollowsAlone, MovesOfTable DEF Hold
<1>8. ASSUME NEW b \in Batches, NEW u \in Users, BeginAuthorization(u, b)
      PROVE  \A c \in Batches : Follows(c)
  BY <1>8, BeginEdge, FollowsAlone, MovesOfTable DEF BeginAuthorization, IssueChallenge
<1>9. ASSUME NEW b \in Batches, NEW u \in Users, AbandonCeremony(u, b)
      PROVE  \A c \in Batches : Follows(c)
  BY <1>9, AbandonEdge, FollowsAlone, MovesOfTable DEF AbandonCeremony
<1>10. ASSUME NEW b \in Batches, NEW u \in Users, NEW id \in DOMAIN chal, Release(u, b, id)
       PROVE  \A c \in Batches : Follows(c)
  BY <1>10, AuthorizeEdge, FollowsAlone, MovesOfTable DEF Release
<1>11. CASE HousekeepingReopens
  BY <1>11, MovesOfTable DEF HousekeepingReopens, Follows
<1>12. ASSUME NEW b \in Batches, Execute(b) PROVE \A c \in Batches : Follows(c)
  BY <1>12, FollowsAlone, MovesOfTable DEF Execute
<1>13. ASSUME NEW b \in Batches, Settle(b) PROVE \A c \in Batches : Follows(c)
  BY <1>13, FollowsAlone, MovesOfTable DEF Settle, Terminal
<1>14. CASE UNCHANGED state
  BY <1>14 DEF Follows
<1> QED
  BY <1>1, <1>2, <1>3, <1>4, <1>5, <1>6, <1>7, <1>8, <1>9, <1>10, <1>11, <1>12, <1>13, <1>14
     DEF Next, Route, HousekeepingAbandons, HousekeepingDies, CoolsOff, EvidenceChanges,
         PaymentSucceeds, ChallengeAges, vars

\* MovesFollowEdges: routes, housekeeping and execution, which all write the state they go to
\* themselves, write only what the table of edges leads to.
THEOREM StoredMovesAreEdges == Spec => MovesFollowEdges
<1>1. TypeOK /\ [Next]_vars => [\A b \in Batches : Follows(b)]_vars
  BY FollowsStep
<1> QED
  BY <1>1, TypeCorrect, PTL DEF Spec, MovesFollowEdges, Follows

-----------------------------------------------------------------------------
(* BatchLifecycle implements FourEyes: creating and uploading prepare,     *)
(* approving approves, rejecting and holding withdraw, releasing releases, *)
(* and everything else is a stutter.  That the approver and the releaser   *)
(* are strangers to the batch is DecisionInv.                              *)

Abs == Promise!Next \/ UNCHANGED Promise!signed

\* A step that changes neither hands nor contents nor releaser, and no standing approval.
Untouched ==
  /\ UNCHANGED <<content, creator, editors, authorizer>>
  /\ \A b \in Batches :
       /\ state'[b] \in Approved <=> state[b] \in Approved
       /\ state[b] \in Approved => approver'[b] = approver[b]

LEMMA StutterStep == Untouched => Abs
  BY DEF Untouched, Abs, Promise!signed, Hands, Standing

\* Only a batch that is neither approved nor released is open to preparation.
LEMMA OpenBatch ==
  ASSUME DecisionInv, NEW b \in Batches, state[b] \notin Approved
  PROVE  Standing[b] = None /\ authorizer[b] = None
  BY DEF DecisionInv, DecisionOn, Standing, Approved

LEMMA PrepareStep ==
  ASSUME TypeOK, DecisionInv, NEW b \in Batches, NEW u \in Users,
         state[b] \notin Approved,
         Hands' = [Hands EXCEPT ![b] = Hands[b] \cup {u}],
         \A c \in Batches \ {b} : content'[c] = content[c],
         UNCHANGED <<Standing, authorizer>>
  PROVE  Abs
<1>1. Promise!Prepare(b)
  BY OpenBatch DEF Promise!Prepare
<1> QED
  BY <1>1 DEF Abs, Promise!Next

\* Taking an approval back, or finding none to take back.
LEMMA WithdrawStep ==
  ASSUME TypeOK, NEW b \in Batches, authorizer[b] = None,
         Standing' = [Standing EXCEPT ![b] = None],
         UNCHANGED <<content, Hands, authorizer>>
  PROVE  Abs
<1>1. Promise!Withdraw(b)
  BY DEF Promise!Withdraw
<1> QED
  BY <1>1 DEF Abs, Promise!Next

LEMMA AbstractStep == TypeOK /\ DecisionInv /\ [Next]_vars => Abs
<1> SUFFICES ASSUME TypeOK, DecisionInv, [Next]_vars PROVE Abs
  OBVIOUS
<1> USE DEF officers, risk, Goto, IssueChallenge, RecordAuthorization
<1>1. ASSUME NEW b \in Batches, NEW u \in Users, Create(u, b) PROVE Abs
  <2>1. creator[b] = None /\ state[b] \notin Approved
    BY <1>1 DEF Create, DecisionInv, DecisionOn, Approved, Released, Terminal
  <2>2. Hands' = [Hands EXCEPT ![b] = Hands[b] \cup {u}]
    <3>1. u # None
      BY LifecycleAssumption
    <3>2. creator' = [creator EXCEPT ![b] = u] /\ editors' = editors
      BY <1>1 DEF Create
    <3>3. \A c \in Batches \ {b} : creator'[c] = creator[c]
      BY <3>2 DEF TypeOK
    <3>4. creator'[b] = u
      BY <3>2 DEF TypeOK
    <3>5. editors'[b] \cup ({creator'[b]} \ {None}) = Hands[b] \cup {u}
      BY <2>1, <3>1, <3>2, <3>4 DEF Hands
    <3> QED
      BY <3>2, <3>3, <3>5 DEF Hands
  <2>3. UNCHANGED Standing
    BY <1>1, <2>1 DEF TypeOK, Create, Standing, Approved, Released, Terminal
  <2> QED
    BY <1>1, <2>1, <2>2, <2>3, PrepareStep DEF Create
<1>2. ASSUME NEW b \in Batches, NEW u \in Users, Upload(u, b) PROVE Abs
  <2>1. state[b] \notin Approved
    BY <1>2 DEF Upload, Editable, Approved, Released, Terminal
  <2>2. Hands' = [Hands EXCEPT ![b] = Hands[b] \cup {u}]
    BY <1>2 DEF TypeOK, Upload, Hands
  <2>3. UNCHANGED Standing
    BY <1>2, <2>1 DEF TypeOK, Upload, Standing, Approved, Released, Terminal
  <2>4. \A c \in Batches \ {b} : content'[c] = content[c]
    BY <1>2 DEF TypeOK, Upload
  <2> QED
    BY <1>2, <2>1, <2>2, <2>3, <2>4, PrepareStep DEF Upload
<1>3. ASSUME NEW b \in Batches, NEW u \in Users, Validate(u, b) PROVE Abs
  BY <1>3, ValidateEdge, StutterStep DEF Untouched, TypeOK, Validate, Approved, Released, Terminal
<1>4. ASSUME NEW b \in Batches, NEW u \in Users, Submit(u, b) PROVE Abs
  BY <1>4, SubmitEdge, StutterStep DEF Untouched, TypeOK, Submit, Approved, Released, Terminal
<1>5. ASSUME NEW b \in Batches, NEW u \in Users, Approve(u, b) PROVE Abs
  <2>1. state[b] = "SUBMITTED_TO_L2" /\ u \notin {creator[b], submitter[b]} \cup editors[b]
    BY <1>5 DEF Approve, ReviewOpens, AssertNotSelfApproval
  <2>2. Standing[b] = None /\ authorizer[b] = None
    BY <2>1, OpenBatch DEF Approved, Released, Terminal
  <2>3. Standing' = [Standing EXCEPT ![b] = u]
    BY <1>5 DEF TypeOK, Approve, Standing, Approved
  <2>4. u \in Users \ Hands[b]
    BY <2>1 DEF Hands
  <2>5. UNCHANGED <<content, Hands, authorizer>>
    BY <1>5 DEF Approve, Hands
  <2>6. Promise!Approve(b)
    BY <2>2, <2>3, <2>4, <2>5 DEF Promise!Approve
  <2> QED
    BY <2>6 DEF Abs, Promise!Next
<1>6. ASSUME NEW b \in Batches, NEW u \in Users, Reject(u, b) PROVE Abs
  <2>1. authorizer[b] = None
    BY <1>6, RejectEdge DEF Reject, DecisionInv, DecisionOn, Released, Terminal
  <2>2. Standing' = [Standing EXCEPT ![b] = None]
    BY <1>6, RejectEdge DEF TypeOK, Reject, Standing, Approved, Released, Terminal
  <2> QED
    BY <1>6, <2>1, <2>2, WithdrawStep DEF Reject, Hands
<1>7. ASSUME NEW b \in Batches, NEW u \in Users, Hold(u, b) PROVE Abs
  <2>1. authorizer[b] = None
    BY <1>7, HoldEdge DEF Hold, DecisionInv, DecisionOn, Released, Terminal
  <2>2. Standing' = [Standing EXCEPT ![b] = None]
    BY <1>7, HoldEdge DEF TypeOK, Hold, Standing, Approved, Released, Terminal
  <2> QED
    BY <1>7, <2>1, <2>2, WithdrawStep DEF Hold, Hands
<1>8. ASSUME NEW b \in Batches, NEW u \in Users, BeginAuthorization(u, b) PROVE Abs
  BY <1>8, BeginEdge, StutterStep
     DEF Untouched, TypeOK, BeginAuthorization, Approved, Released, Terminal
<1>9. ASSUME NEW b \in Batches, NEW u \in Users, AbandonCeremony(u, b) PROVE Abs
  BY <1>9, AbandonEdge, StutterStep
     DEF Untouched, TypeOK, AbandonCeremony, Approved, Released, Terminal
<1>10. ASSUME NEW b \in Batches, NEW u \in Users, NEW id \in DOMAIN chal, Release(u, b, id)
       PROVE  Abs
  <2>1. /\ state[b] = "AUTHORIZATION_PENDING" /\ authorizer[b] = None
        /\ u \notin {creator[b], approver[b]} \cup editors[b]
    BY <1>10, AuthorizeEdge DEF Release, AssertNotSelfAuthorization
  <2>2. Standing[b] = approver[b] /\ Standing[b] # None
    BY <2>1, LifecycleAssumption DEF DecisionInv, DecisionOn, Standing, Approved, Users
  <2>3. UNCHANGED <<content, Hands, Standing>>
    BY <1>10, <2>1 DEF TypeOK, Release, Hands, Standing, Approved, Released, Terminal
  <2>4. authorizer' = [authorizer EXCEPT ![b] = u] /\ u \in Users \ (Hands[b] \cup {Standing[b]})
    BY <1>10, <2>1, <2>2 DEF Release, Hands
  <2>5. Promise!Release(b)
    BY <2>1, <2>2, <2>3, <2>4 DEF Promise!Release
  <2> QED
    BY <2>5 DEF Abs, Promise!Next
<1>11. CASE HousekeepingAbandons
  BY <1>11, StutterStep DEF Untouched, HousekeepingAbandons
<1>12. CASE HousekeepingReopens
  BY <1>12, StutterStep DEF Untouched, TypeOK, HousekeepingReopens, Approved, Released, Terminal
<1>13. CASE HousekeepingDies
  BY <1>13, StutterStep DEF Untouched, HousekeepingDies
<1>14. ASSUME NEW b \in Batches, CoolsOff(b) PROVE Abs
  BY <1>14, StutterStep DEF Untouched, CoolsOff
<1>15. ASSUME NEW b \in Batches, EvidenceChanges(b) PROVE Abs
  BY <1>15, StutterStep DEF Untouched, EvidenceChanges
<1>16. ASSUME NEW b \in Batches, Execute(b) PROVE Abs
  BY <1>16, StutterStep DEF Untouched, TypeOK, Execute, Approved, Released, Terminal
<1>17. ASSUME NEW b \in Batches, Settle(b) PROVE Abs
  BY <1>17, StutterStep DEF Untouched, TypeOK, Settle, Approved, Released, Terminal
<1>18. ASSUME NEW id \in DOMAIN chal, ChallengeAges(id) PROVE Abs
  BY <1>18, StutterStep DEF Untouched, ChallengeAges
<1>19. CASE UNCHANGED vars
  BY <1>19, StutterStep DEF Untouched, vars
<1>20. ASSUME NEW b \in Batches, PaymentSucceeds(b) PROVE Abs
  BY <1>20, StutterStep DEF Untouched, PaymentSucceeds
<1> QED
  BY <1>1, <1>2, <1>3, <1>4, <1>5, <1>6, <1>7, <1>8, <1>9, <1>10, <1>11, <1>12, <1>13, <1>14,
     <1>15, <1>16, <1>17, <1>18, <1>19, <1>20 DEF Next, Route

\* ImplementsFourEyes: whatever officers and housekeeping do, the approval chain is one of
\* preparation, approval by a stranger, withdrawal and a single release by a third person.
THEOREM LifecycleImplementsFourEyes == Spec => ImplementsFourEyes
<1>1. Init => Promise!Init
  BY LifecycleAssumption DEF Init, Promise!Init, Hands, Standing, Approved, Released, Terminal
<1>2. TypeOK /\ DecisionInv /\ [Next]_vars => [Promise!Next]_(Promise!signed)
  BY AbstractStep DEF Abs
<1> QED
  BY <1>1, <1>2, TypeCorrect, DecisionCorrect, PTL DEF Spec, ImplementsFourEyes, Promise!Spec

-----------------------------------------------------------------------------
(* Each batch of BatchLifecycle implements Settlement: an unreleased batch *)
(* is queued by its release, and only execution moves it from there.       *)

\* Nothing but execution and release moves a batch into or within the released states.
StageKept(b) ==
  /\ paid'[b] = paid[b]
  /\ state'[b] \in Released <=> state[b] \in Released
  /\ state[b] \in Released => state'[b] = state[b]

LEMMA SettlementStutter ==
  ASSUME NEW b \in Batches, StageKept(b)
  PROVE  UNCHANGED Settled(b)!settlement
  BY DEF StageKept, Settled!settlement

\* Preparing, reviewing and holding a ceremony happen before the release.
LEMMA RouteStage ==
  ASSUME TypeOK, NEW b \in Batches, NEW c \in Batches, NEW u \in Users,
         \/ Create(u, b) \/ Upload(u, b) \/ Validate(u, b) \/ Submit(u, b) \/ Approve(u, b)
         \/ Reject(u, b) \/ Hold(u, b) \/ BeginAuthorization(u, b) \/ AbandonCeremony(u, b)
  PROVE  StageKept(c)
<1>1. PICK next \in BatchStates \ Released :
         Goto(b, next) /\ UNCHANGED paid /\ state[b] \notin Released
  BY ValidateEdge, SubmitEdge, RejectEdge, HoldEdge, BeginEdge, AbandonEdge
     DEF Create, Upload, Validate, Submit, Approve, Reject, Hold, BeginAuthorization, IssueChallenge,
         AbandonCeremony, ReviewOpens, BatchStates, Editable, Released, Terminal
<1> QED
  BY <1>1 DEF TypeOK, Goto, StageKept

LEMMA SettlementStep ==
  ASSUME TypeOK, [Next]_vars, NEW c \in Batches
  PROVE  Settled(c)!Next \/ UNCHANGED Settled(c)!settlement
<1> USE DEF Goto
<1>1. ASSUME NEW b \in Batches, NEW u \in Users, NEW id \in DOMAIN chal, Release(u, b, id)
      PROVE  Settled(c)!Next \/ UNCHANGED Settled(c)!settlement
  <2>1. CASE c = b
    BY <1>1, <2>1, AuthorizeEdge
       DEF Release, TypeOK, Settled!Next, Settled!Release, Released, Terminal
  <2>2. CASE c # b
    BY <1>1, <2>2, SettlementStutter DEF Release, TypeOK, StageKept
  <2> QED
    BY <2>1, <2>2
<1>2. ASSUME NEW b \in Batches, Execute(b)
      PROVE  Settled(c)!Next \/ UNCHANGED Settled(c)!settlement
  <2>1. CASE c = b
    BY <1>2, <2>1 DEF Execute, TypeOK, Settled!Next, Settled!Begin, Released
  <2>2. CASE c # b
    BY <1>2, <2>2, SettlementStutter DEF Execute, TypeOK, StageKept
  <2> QED
    BY <2>1, <2>2
<1>3. ASSUME NEW b \in Batches, PaymentSucceeds(b)
      PROVE  Settled(c)!Next \/ UNCHANGED Settled(c)!settlement
  <2>1. CASE c = b
    BY <1>3, <2>1 DEF PaymentSucceeds, TypeOK, Settled!Next, Settled!Pay, Released
  <2>2. CASE c # b
    BY <1>3, <2>2, SettlementStutter DEF PaymentSucceeds, TypeOK, StageKept
  <2> QED
    BY <2>1, <2>2
<1>4. ASSUME NEW b \in Batches, Settle(b)
      PROVE  Settled(c)!Next \/ UNCHANGED Settled(c)!settlement
  <2>1. CASE c = b
    BY <1>4, <2>1 DEF Settle, TypeOK, Settled!Next, Settled!RollUp, Released, Terminal
  <2>2. CASE c # b
    BY <1>4, <2>2, SettlementStutter DEF Settle, TypeOK, StageKept
  <2> QED
    BY <2>1, <2>2
<1>5. CASE HousekeepingReopens
  BY <1>5, SettlementStutter DEF HousekeepingReopens, TypeOK, StageKept, Released, Terminal
<1>6. CASE UNCHANGED <<state, paid>>
  BY <1>6, SettlementStutter DEF StageKept
<1> QED
  BY <1>1, <1>2, <1>3, <1>4, <1>5, <1>6, RouteStage, SettlementStutter
     DEF Next, Route, HousekeepingAbandons, HousekeepingDies, CoolsOff, EvidenceChanges,
         ChallengeAges, vars

\* ImplementsSettlement: what the lifecycle takes execution to do with a released batch is the
\* settlement that Execution implements (ExecutionRefinement).
THEOREM LifecycleImplementsSettlement ==
  ASSUME NEW b \in Batches
  PROVE  Spec => ImplementsSettlement(b)
<1>1. Init => Settled(b)!Init
  BY DEF Init, Settled!Init, Released, Terminal
<1>2. TypeOK /\ [Next]_vars => [Settled(b)!Next]_(Settled(b)!settlement)
  BY SettlementStep
<1> QED
  BY <1>1, <1>2, TypeCorrect, PTL DEF Spec, ImplementsSettlement, Settled!Spec
=============================================================================
