--------------------------- MODULE BatchLifecycle ---------------------------
(***************************************************************************)
(* A payment batch from draft to release: the routes of                    *)
(* apps/api/src/routes/batches.ts, the authorization ceremony of           *)
(* services/authorization.ts over the rules of packages/core (batch-state, *)
(* sod, manifest, policy), and the housekeeping of apps/api/src/index.ts   *)
(* that expires ceremonies.                                                *)
(*                                                                         *)
(* Each route is one database transaction that takes the batch advisory    *)
(* lock and the batch row FOR UPDATE, so it is one step; a refusal changes *)
(* nothing and is no step.  Housekeeping takes no lock and commits its two *)
(* statements apart: any route may run between them.                       *)
(***************************************************************************)
EXTENDS Authority, Naturals, Sequences, FiniteSets

CONSTANTS
  Batches,        \* the batches of one organization
  Payloads,       \* the sets of payment instructions a CSV may hold
  Conflicts,      \* declared conflicts: the officer, and a set of instructions in their scope
  Signals,        \* the risk signals an assessment may raise
  Blocking,       \* does the risk band reach the policy's blocking band?
  Ceiling,        \* daily disbursement ceiling, in batches; 0 disables it
  None,           \* no officer, no instructions, no approval
  MaxVersion,     \* bound on uploads
  MaxApprovals,   \* bound on approvals
  MaxChallenges,  \* bound on ceremonies
  MaxFaults       \* bound on crashes of the housekeeping

\* An APPROVE row: its reference, the version it approves and (history) that version's content.
Approvals == [ref : Nat, version : Nat, content : Payloads \cup {None}]

ASSUME LifecycleAssumption ==
  /\ None \notin Users \cup Payloads \cup Approvals
  /\ Conflicts \subseteq Users \X Payloads
  /\ Blocking \in BOOLEAN
  /\ Ceiling \in Nat /\ MaxVersion \in Nat /\ MaxApprovals \in Nat
  /\ MaxChallenges \in Nat /\ MaxFaults \in Nat

VARIABLES
  state,       \* payment_batches.state, "NONE" before the row exists
  version,     \* its content version
  content,     \* its payment_instructions
  cooling,     \* was it edited within the cooling-off period?
  creator, submitter, approver, authorizer,   \* its officers
  editors,     \* batch_editors
  approval,    \* its latest APPROVE row
  signals,     \* the risk signals an assessment would raise now
  findings,    \* risk_findings of the current version
  reviewed,    \* those whose disposition is not OPEN
  approvals,   \* how many APPROVE rows there are
  chal,        \* the authorization_challenges table, in order of issue
  paid,        \* does the batch count in daily_disbursement_totals?
  reopening,   \* batches housekeeping still has to return to L3_READY
  faults

officers == <<creator, submitter, approver, authorizer, editors>>
risk     == <<signals, findings, reviewed>>
vars     == <<state, version, content, cooling, officers, approval, risk, approvals, chal,
              paid, reopening, faults>>

-----------------------------------------------------------------------------
(* The states that are ever stored: L2_REVIEW and AUTHORIZED are passed    *)
(* through inside one transaction, and no route issues CANCEL or           *)
(* RELEASE_HOLD.                                                           *)

\* Mutant: a batch may be edited until its ceremony begins.
EditableUntilCeremony == {"DRAFT", "VALIDATED", "L3_READY"}

Editable  == {"DRAFT", "VALIDATED"}
Terminal  == {"SUCCESS", "PARTIAL_SUCCESS", "FAILED"}
Released  == {"QUEUED", "PROCESSING", "TIMEOUT"} \cup Terminal
BatchStates == Editable \cup Released \cup
               {"NONE", "SUBMITTED_TO_L2", "L3_READY", "AUTHORIZATION_PENDING", "HELD"}

Ages == {"fresh", "expired", "stale"}

\* What a signature covers.
Manifests == [batch : Batches, version : Nat, approval : Nat, content : Payloads]

Challenges ==
  [batch : Batches, approval : Nat, user : L3, manifest : Manifests,
   consumed : BOOLEAN, abandoned : BOOLEAN, age : Ages]

TypeOK ==
  /\ state \in [Batches -> BatchStates]
  /\ version \in [Batches -> Nat]
  /\ content \in [Batches -> Payloads \cup {None}]
  /\ cooling \in [Batches -> BOOLEAN]
  /\ creator \in [Batches -> Users \cup {None}]
  /\ submitter \in [Batches -> L1 \cup {None}]
  /\ approver \in [Batches -> L2 \cup {None}]
  /\ authorizer \in [Batches -> L3 \cup {None}]
  /\ editors \in [Batches -> SUBSET Users]
  /\ approval \in [Batches -> Approvals \cup {None}]
  /\ signals \in [Batches -> SUBSET Signals]
  /\ findings \in [Batches -> SUBSET Signals]
  /\ reviewed \in [Batches -> SUBSET Signals]
  /\ approvals \in Nat
  /\ chal \in Seq(Challenges)
  /\ paid \in [Batches -> BOOLEAN]
  /\ reopening \in SUBSET Batches
  /\ faults \in 0..MaxFaults

Init ==
  /\ state = [b \in Batches |-> "NONE"]
  /\ version = [b \in Batches |-> 1]
  /\ content = [b \in Batches |-> None]
  /\ cooling = [b \in Batches |-> FALSE]
  /\ creator = [b \in Batches |-> None]
  /\ submitter = [b \in Batches |-> None]
  /\ approver = [b \in Batches |-> None]
  /\ authorizer = [b \in Batches |-> None]
  /\ editors = [b \in Batches |-> {}]
  /\ approval = [b \in Batches |-> None]
  /\ signals = [b \in Batches |-> {}]
  /\ findings = [b \in Batches |-> {}]
  /\ reviewed = [b \in Batches |-> {}]
  /\ approvals = 0
  /\ chal = <<>>
  /\ paid = [b \in Batches |-> FALSE]
  /\ reopening = {}
  /\ faults = 0

Goto(b, next) == state' = [state EXCEPT ![b] = next]

\* The CHECK constraints of payment_batches.
NoSelfDealing(b) ==
  /\ approver[b] = None \/ approver[b] # creator[b]
  /\ authorizer[b] = None \/ authorizer[b] # creator[b]
  /\ authorizer[b] = None \/ approver[b] = None \/ authorizer[b] # approver[b]

-----------------------------------------------------------------------------
(* Preparation: create, upload and validate at any level, submit at L1.    *)

Create(u, b) ==
  /\ Holds(u, "batch:create")
  /\ state[b] = "NONE"
  /\ Goto(b, "DRAFT")
  /\ creator' = [creator EXCEPT ![b] = u]
  /\ UNCHANGED <<version, content, cooling, submitter, approver, authorizer, editors, approval,
                 risk, approvals, chal, paid, reopening, faults>>

\* A CSV replaces the instruction set wholesale (all its rows may be refused), the version
\* moves on, and the findings of the new version start empty.
Upload(u, b) ==
  /\ Holds(u, "batch:edit")
  /\ state[b] \in Editable
  /\ version[b] < MaxVersion
  /\ Goto(b, "DRAFT")
  /\ version' = [version EXCEPT ![b] = @ + 1]
  /\ \E csv \in Payloads \cup {None} : content' = [content EXCEPT ![b] = csv]
  /\ cooling' = [cooling EXCEPT ![b] = TRUE]
  /\ editors' = [editors EXCEPT ![b] = @ \cup {u}]
  /\ findings' = [findings EXCEPT ![b] = {}]
  /\ reviewed' = [reviewed EXCEPT ![b] = {}]
  /\ UNCHANGED <<creator, submitter, approver, authorizer, approval, signals, approvals, chal,
                 paid, reopening, faults>>

\* The findings of the version are kept, with their dispositions, and the new signals added.
PersistFindings(b) == findings' = [findings EXCEPT ![b] = @ \cup signals[b]]

Validate(u, b) ==
  /\ AssertTransition(u, state[b], "VALIDATE")
  /\ content[b] # None
  /\ Goto(b, "VALIDATED")
  /\ PersistFindings(b)
  /\ UNCHANGED <<version, content, cooling, officers, approval, signals, reviewed, approvals,
                 chal, paid, reopening, faults>>

Submit(u, b) ==
  /\ AssertTransition(u, state[b], "SUBMIT_TO_L2")
  /\ ~cooling[b]
  /\ Goto(b, "SUBMITTED_TO_L2")
  /\ submitter' = [submitter EXCEPT ![b] = u]
  /\ UNCHANGED <<version, content, cooling, creator, approver, authorizer, editors, approval,
                 risk, approvals, chal, paid, reopening, faults>>

-----------------------------------------------------------------------------
(* Level 2: approve, reject, hold.                                         *)

AssertNotSelfApproval(u, b) == u # creator[b] /\ u # submitter[b] /\ u \notin editors[b]

\* Approving a submitted batch opens its review and closes it at once.
ReviewOpens(u, b) ==
  /\ state[b] = "SUBMITTED_TO_L2"
  /\ AssertTransition(u, "SUBMITTED_TO_L2", "BEGIN_L2_REVIEW")
  /\ AssertTransition(u, "L2_REVIEW", "APPROVE_TO_L3")

\* Mutant: approval leaves the findings open.
ApproveLeavesFindings(u, b) ==
  /\ ReviewOpens(u, b)
  /\ AssertNotSelfApproval(u, b)
  /\ approvals < MaxApprovals
  /\ approvals' = approvals + 1
  /\ approval' = [approval EXCEPT ![b] =
                     [ref |-> approvals + 1, version |-> version[b], content |-> content[b]]]
  /\ Goto(b, "L3_READY")
  /\ approver' = [approver EXCEPT ![b] = u]
  /\ UNCHANGED <<version, content, cooling, creator, submitter, authorizer, editors, risk,
                 chal, paid, reopening, faults>>
  /\ NoSelfDealing(b)'

\* Open findings must be acknowledged in the request, and approval then disposes of them.
Approve(u, b) ==
  /\ ReviewOpens(u, b)
  /\ AssertNotSelfApproval(u, b)
  /\ approvals < MaxApprovals
  /\ approvals' = approvals + 1
  /\ reviewed' = [reviewed EXCEPT ![b] = findings[b]]
  /\ approval' = [approval EXCEPT ![b] =
                     [ref |-> approvals + 1, version |-> version[b], content |-> content[b]]]
  /\ Goto(b, "L3_READY")
  /\ approver' = [approver EXCEPT ![b] = u]
  /\ UNCHANGED <<version, content, cooling, creator, submitter, authorizer, editors, signals,
                 findings, chal, paid, reopening, faults>>
  /\ NoSelfDealing(b)'

Reject(u, b) ==
  /\ AssertTransition(u, state[b], "REJECT")
  /\ Goto(b, "DRAFT")
  /\ approver' = [approver EXCEPT ![b] = None]
  /\ UNCHANGED <<version, content, cooling, creator, submitter, authorizer, editors, approval,
                 risk, approvals, chal, paid, reopening, faults>>

Hold(u, b) ==
  /\ AssertTransition(u, state[b], "HOLD")
  /\ Goto(b, "HELD")
  /\ UNCHANGED <<version, content, cooling, officers, approval, risk, approvals, chal, paid,
                 reopening, faults>>

-----------------------------------------------------------------------------
(* Level 3: the authorization ceremony.                                    *)

AssertNotSelfAuthorization(u, b) ==
  u # creator[b] /\ u \notin editors[b] /\ u # approver[b]

\* loadCurrentApproval: the latest approval, if it is of the current version.
ApprovalIsCurrent(b) == approval[b] # None /\ approval[b].version = version[b]

DisbursedToday == Cardinality({c \in Batches : paid[c]})

\* evaluateReleasePolicy: the batch with what was disbursed today stays within the
\* ceiling, and a blocking risk band has no more signals than dispositioned findings.
PolicyAllows(b) ==
  /\ Ceiling = 0 \/ DisbursedToday + 1 <= Ceiling
  /\ Blocking => Cardinality(signals[b]) <= Cardinality(reviewed[b])

\* A conflict declared for a recipient, a department or the whole organization stands against
\* the officer when the batch pays anyone in that scope.
DeclaredConflict(u, b) == <<u, content[b]>> \in Conflicts

\* The manifest of the batch as its rows are now, under the approval ref.  A batch without
\* instructions has none.
Manifest(b, ref) ==
  [batch |-> b, version |-> version[b], approval |-> ref, content |-> content[b]]

\* The challenge binds the officer to the manifest.
BuildChallenge(u, manifest) ==
  [batch |-> manifest.batch, approval |-> manifest.approval, user |-> u, manifest |-> manifest,
   consumed |-> FALSE, abandoned |-> FALSE, age |-> "fresh"]

Live(id) == ~chal[id].consumed /\ ~chal[id].abandoned
Open(b)  == {id \in DOMAIN chal : Live(id) /\ chal[id].batch = b}

IssueChallenge(u, b) ==
  /\ chal' = Append(chal, BuildChallenge(u, Manifest(b, approval[b].ref)))
  /\ Goto(b, "AUTHORIZATION_PENDING")

\* The partial unique index refuses a second open challenge for the batch.
BeginAuthorization(u, b) ==
  /\ AssertTransition(u, state[b], "BEGIN_AUTHORIZATION")
  /\ ApprovalIsCurrent(b)
  /\ AssertNotSelfAuthorization(u, b)
  /\ ~DeclaredConflict(u, b)
  /\ content[b] # None
  /\ PolicyAllows(b)
  /\ Open(b) = {}
  /\ Len(chal) < MaxChallenges
  /\ IssueChallenge(u, b)
  /\ UNCHANGED <<version, content, cooling, officers, approval, risk, approvals, paid,
                 reopening, faults>>

\* Mutant: the challenge is not bound to the officer it was issued to.
VerifyBindingButOfficer(u, b, id) ==
  /\ ~chal[id].consumed
  /\ chal[id].age = "fresh"
  /\ chal[id].batch = b
  /\ chal[id].manifest = Manifest(b, chal[id].approval)

\* verifyChallengeBinding, with the manifest rebuilt from the rows of the batch under the
\* approval the challenge names.
VerifyChallengeBinding(u, b, id) ==
  /\ ~chal[id].consumed
  /\ chal[id].age = "fresh"
  /\ chal[id].user = u
  /\ chal[id].batch = b
  /\ chal[id].manifest = Manifest(b, chal[id].approval)

Burn(id) == chal' = [chal EXCEPT ![id].consumed = TRUE]

\* guard_batch_update lets a batch be authorized once.
RecordAuthorization(u, b) ==
  /\ authorizer[b] = None
  /\ authorizer' = [authorizer EXCEPT ![b] = u]
  /\ NoSelfDealing(b)'

\* Mutant: an abandoned challenge is as good as a live one.
ReleaseAbandonedToo(u, b, id) ==
  /\ AssertTransition(u, state[b], "AUTHORIZE")
  /\ VerifyChallengeBinding(u, b, id)
  /\ AssertNotSelfAuthorization(u, b)
  /\ PolicyAllows(b)
  /\ Burn(id)
  /\ Goto(b, "QUEUED")
  /\ UNCHANGED <<version, content, cooling, creator, submitter, approver, editors, approval,
                 risk, approvals, paid, reopening, faults>>
  /\ RecordAuthorization(u, b)

\* releaseBatch, after the security key and the PIN: the challenge is burnt and the batch
\* queued with its claims and jobs in one transaction.
Release(u, b, id) ==
  /\ AssertTransition(u, state[b], "AUTHORIZE")
  /\ ~chal[id].abandoned
  /\ VerifyChallengeBinding(u, b, id)
  /\ AssertNotSelfAuthorization(u, b)
  /\ PolicyAllows(b)
  /\ Burn(id)
  /\ Goto(b, "QUEUED")
  /\ UNCHANGED <<version, content, cooling, creator, submitter, approver, editors, approval,
                 risk, approvals, paid, reopening, faults>>
  /\ RecordAuthorization(u, b)

AbandonAll(ids) ==
  chal' = [id \in DOMAIN chal |->
             IF id \in ids THEN [chal[id] EXCEPT !.abandoned = TRUE] ELSE chal[id]]

\* Any L3 officer may abandon, not the opener only.
AbandonCeremony(u, b) ==
  /\ AssertTransition(u, state[b], "ABANDON_AUTHORIZATION")
  /\ AbandonAll(Open(b))
  /\ Goto(b, "L3_READY")
  /\ UNCHANGED <<version, content, cooling, officers, approval, risk, approvals, paid,
                 reopening, faults>>

-----------------------------------------------------------------------------
(* Housekeeping: two statements, each committed on its own.                *)

Stale == {id \in DOMAIN chal : Live(id) /\ chal[id].age = "stale"}

\* Mutant: the batches of the expired ceremonies are not returned to L3_READY.
HousekeepingAbandonsOnly ==
  /\ reopening = {}
  /\ Stale # {}
  /\ AbandonAll(Stale)
  /\ UNCHANGED <<state, version, content, cooling, officers, approval, risk, approvals, paid,
                 reopening, faults>>

HousekeepingAbandons ==
  /\ reopening = {}
  /\ Stale # {}
  /\ AbandonAll(Stale)
  /\ reopening' = {chal[id].batch : id \in Stale}
  /\ UNCHANGED <<state, version, content, cooling, officers, approval, risk, approvals, paid, faults>>

\* Mutant: the second statement does not ask for the state again.
HousekeepingReopensBlindly ==
  /\ reopening # {}
  /\ state' = [b \in Batches |-> IF b \in reopening THEN "L3_READY" ELSE state[b]]
  /\ reopening' = {}
  /\ UNCHANGED <<version, content, cooling, officers, approval, risk, approvals, chal, paid, faults>>

HousekeepingReopens ==
  /\ reopening # {}
  /\ state' = [b \in Batches |->
                 IF b \in reopening /\ state[b] = "AUTHORIZATION_PENDING" THEN "L3_READY" ELSE state[b]]
  /\ reopening' = {}
  /\ UNCHANGED <<version, content, cooling, officers, approval, risk, approvals, chal, paid, faults>>

HousekeepingDies ==
  /\ reopening # {}
  /\ faults < MaxFaults
  /\ faults' = faults + 1
  /\ reopening' = {}
  /\ UNCHANGED <<state, version, content, cooling, officers, approval, risk, approvals, chal, paid>>

-----------------------------------------------------------------------------
(* Time, the risk engine's evidence, and what execution makes of the batch *)
(* (module Execution).                                                     *)

CoolsOff(b) ==
  /\ cooling[b]
  /\ cooling' = [cooling EXCEPT ![b] = FALSE]
  /\ UNCHANGED <<state, version, content, officers, approval, risk, approvals, chal, paid,
                 reopening, faults>>

ChallengeAges(id) ==
  /\ Live(id)
  /\ chal[id].age # "stale"
  /\ chal' = [chal EXCEPT ![id].age = IF @ = "fresh" THEN "expired" ELSE "stale"]
  /\ UNCHANGED <<state, version, content, cooling, officers, approval, risk, approvals, paid,
                 reopening, faults>>

EvidenceChanges(b) ==
  /\ state[b] # "NONE"
  /\ state[b] \notin Released
  /\ \E s \in SUBSET Signals \ {signals[b]} : signals' = [signals EXCEPT ![b] = s]
  /\ UNCHANGED <<state, version, content, cooling, officers, approval, findings, reviewed,
                 approvals, chal, paid, reopening, faults>>

Execute(b) ==
  /\ state[b] = "QUEUED"
  /\ Goto(b, "PROCESSING")
  /\ UNCHANGED <<version, content, cooling, officers, approval, risk, approvals, chal, paid,
                 reopening, faults>>

\* An instruction counts as paid from the moment its transaction succeeds, which may be
\* after the batch was given up on.
PaymentSucceeds(b) ==
  /\ state[b] \in {"PROCESSING", "TIMEOUT"} /\ ~paid[b]
  /\ paid' = [paid EXCEPT ![b] = TRUE]
  /\ UNCHANGED <<state, version, content, cooling, officers, approval, risk, approvals, chal,
                 reopening, faults>>

\* maybeSettleBatch.
Settle(b) ==
  /\ state[b] = "PROCESSING"
  /\ \E outcome \in {"TIMEOUT"} \cup IF paid[b] THEN {"SUCCESS", "PARTIAL_SUCCESS"} ELSE {"FAILED"} :
       Goto(b, outcome)
  /\ UNCHANGED <<version, content, cooling, officers, approval, risk, approvals, chal, paid,
                 reopening, faults>>

-----------------------------------------------------------------------------
Route(b) ==
  \/ \E u \in Users : Create(u, b) \/ Upload(u, b) \/ Validate(u, b)
  \/ \E u \in Users : Submit(u, b) \/ Approve(u, b) \/ Reject(u, b) \/ Hold(u, b)
  \/ \E u \in Users : BeginAuthorization(u, b) \/ AbandonCeremony(u, b)
  \/ \E u \in Users, id \in DOMAIN chal : Release(u, b, id)

Next ==
  \/ \E b \in Batches : Route(b) \/ CoolsOff(b) \/ EvidenceChanges(b)
  \/ \E b \in Batches : Execute(b) \/ PaymentSucceeds(b) \/ Settle(b)
  \/ HousekeepingAbandons \/ HousekeepingReopens \/ HousekeepingDies
  \/ \E id \in DOMAIN chal : ChallengeAges(id)

Spec == Init /\ [][Next]_vars

\* Time passes, and the scheduler runs housekeeping every day.  Officers owe nothing.
Fairness ==
  /\ WF_vars(HousekeepingAbandons)
  /\ WF_vars(HousekeepingReopens)
  /\ WF_vars(\E id \in DOMAIN chal : ChallengeAges(id))

FairSpec == Spec /\ Fairness

-----------------------------------------------------------------------------
(* Safety.                                                                 *)

\* A released batch went through all three levels.  No one who prepared it, by creating or by
\* ever editing it, approved or released it, and its approver is neither its submitter nor its
\* releaser.
SeparationOfDuties ==
  \A b \in Batches : state[b] \in Released =>
    /\ submitter[b] \in L1 /\ approver[b] \in L2 /\ authorizer[b] \in L3
    /\ {approver[b], authorizer[b]} \subseteq Users \ ({creator[b]} \cup editors[b])
    /\ approver[b] \notin {submitter[b], authorizer[b]}

\* From approval to release and beyond, the decision on record is an approval of exactly the
\* instructions the batch holds: no edit and no rejection slips in between.
Approved == {"L3_READY", "AUTHORIZATION_PENDING"} \cup Released

ApprovalStands ==
  \A b \in Batches : state[b] \in Approved =>
    /\ approver[b] # None
    /\ ApprovalIsCurrent(b)
    /\ approval[b].content = content[b]

\* A released batch has one burnt challenge: its releaser's, over the manifest of what the
\* batch holds under the approval that stands, and never one that was abandoned.
ReleaseIsSigned ==
  \A b \in Batches : state[b] \in Released =>
    \E id \in DOMAIN chal :
      /\ \A c \in DOMAIN chal : chal[c].consumed /\ chal[c].batch = b <=> c = id
      /\ ~chal[id].abandoned
      /\ chal[id].user = authorizer[b]
      /\ chal[id].manifest = Manifest(b, approval[b].ref)

\* The officer who releases has no declared conflict with anyone the batch pays.  releaseBatch
\* does not ask: it relies on the challenge being the opener's, whom openAuthorizationCeremony
\* asked, and on its manifest being of what the batch still holds.
ReleaserIsUnconflicted == \A b \in Batches : ~DeclaredConflict(authorizer[b], b)

\* No batch is awaiting release with a finding of its version nobody disposed of, however often
\* it was rejected and validated again.
FindingsAreReviewed ==
  \A b \in Batches : state[b] \in Approved => findings[b] = reviewed[b]

\* Whatever a step stores follows the edges, or two of them through a state that is never
\* stored.  No statement takes its target from the table, and uploads, housekeeping and
\* execution do not consult it.
Step(s, t) == \E e \in HumanEdges \cup SystemEdges : e.from = s /\ e.to = t

Move(s, t) == Step(s, t) \/ \E m \in {"L2_REVIEW", "AUTHORIZED"} : Step(s, m) /\ Step(m, t)

MovesFollowEdges ==
  [][\A b \in Batches : state[b] \notin {"NONE", state'[b]} => Move(state[b], state'[b])]_vars

\* The approval chain implements its abstract promise.
Hands    == [b \in Batches |-> editors[b] \cup ({creator[b]} \ {None})]
Standing == [b \in Batches |-> IF state[b] \in Approved THEN approver[b] ELSE None]

Promise == INSTANCE FourEyes WITH hands <- Hands, approved <- Standing, released <- authorizer

ImplementsFourEyes == Promise!Spec

\* Each batch is released into the settlement that its execution implements: what this module
\* takes execution to do (when a batch counts as paid, how it ends) is what module Execution does.
Settled(b) == INSTANCE Settlement WITH
  stage <- IF state[b] \in Released THEN state[b] ELSE "UNRELEASED", paid <- paid[b]

ImplementsSettlement(b) == Settled(b)!Spec

-----------------------------------------------------------------------------
(* Liveness, under FairSpec.                                               *)

\* A ceremony nobody completes or abandons does not hold its batch for ever, unless
\* housekeeping died between its statements: the next one finds nothing to abandon.
CeremonyEnds ==
  \A b \in Batches :
    state[b] = "AUTHORIZATION_PENDING" ~> state[b] # "AUTHORIZATION_PENDING" \/ faults > 0

=============================================================================
