------------------------------ MODULE Authority ------------------------------
(***************************************************************************)
(* Who may move a batch, and along which edges: the permission matrix of   *)
(* packages/core/src/rbac.ts, the edges of batch-state.ts, and             *)
(* assertTransition, which puts them together.  An officer's level is      *)
(* fixed: no route changes it.  The permissions are those that the         *)
(* commands and the routes of a batch ask for.                             *)
(***************************************************************************)

CONSTANTS L1, L2, L3     \* the officers of each authority level

ASSUME LevelsAreDisjoint == L1 \cap L2 = {} /\ L1 \cap L3 = {} /\ L2 \cap L3 = {}

Users == L1 \cup L2 \cup L3

-----------------------------------------------------------------------------
(* MATRIX: what is absent from a level's set is refused.                   *)

OperatorPermissions ==
  {"batch:create", "batch:edit", "batch:validate", "batch:submit_to_l2"}

ControllerPermissions ==
  {"batch:create", "batch:edit", "batch:validate", "batch:review", "batch:approve_to_l3",
   "batch:reject", "batch:hold"}

ExecutivePermissions ==
  {"batch:create", "batch:edit", "batch:validate", "batch:review", "batch:reject",
   "batch:hold", "batch:cancel", "payment:authorize", "payment:release"}

\* requirePermission, for an account that is active.
Holds(u, permission) ==
  \/ u \in L1 /\ permission \in OperatorPermissions
  \/ u \in L2 /\ permission \in ControllerPermissions
  \/ u \in L3 /\ permission \in ExecutivePermissions

PermissionsOfActor(u) ==
  {p \in OperatorPermissions \cup ControllerPermissions \cup ExecutivePermissions : Holds(u, p)}

-----------------------------------------------------------------------------
(* BATCH_EDGES.                                                            *)

E(from, command, to, permission) ==
  [from |-> from, command |-> command, to |-> to, permission |-> permission]

PreparationEdges ==
  {E("DRAFT",     "VALIDATE",     "VALIDATED",       "batch:validate"),
   E("VALIDATED", "INVALIDATE",   "DRAFT",           "batch:edit"),
   E("VALIDATED", "SUBMIT_TO_L2", "SUBMITTED_TO_L2", "batch:submit_to_l2"),
   E("DRAFT",     "CANCEL",       "CANCELLED",       "batch:cancel"),
   E("VALIDATED", "CANCEL",       "CANCELLED",       "batch:cancel")}

ReviewEdges ==
  {E("SUBMITTED_TO_L2", "BEGIN_L2_REVIEW", "L2_REVIEW", "batch:review"),
   E("L2_REVIEW",       "APPROVE_TO_L3",   "L3_READY",  "batch:approve_to_l3"),
   E("L2_REVIEW",       "REJECT",          "DRAFT",     "batch:reject"),
   E("L2_REVIEW",       "RETURN_TO_L1",    "DRAFT",     "batch:reject"),
   E("SUBMITTED_TO_L2", "REJECT",          "DRAFT",     "batch:reject"),
   E("L2_REVIEW",       "HOLD",            "HELD",      "batch:hold"),
   E("SUBMITTED_TO_L2", "HOLD",            "HELD",      "batch:hold")}

ExecutiveEdges ==
  {E("L3_READY", "HOLD",   "HELD",      "batch:hold"),
   E("L3_READY", "REJECT", "DRAFT",     "batch:reject"),
   E("L3_READY", "CANCEL", "CANCELLED", "batch:cancel"),
   E("L3_READY", "BEGIN_AUTHORIZATION", "AUTHORIZATION_PENDING", "payment:authorize"),
   E("AUTHORIZATION_PENDING", "ABANDON_AUTHORIZATION", "L3_READY", "payment:authorize"),
   E("AUTHORIZATION_PENDING", "AUTHORIZE", "AUTHORIZED", "payment:release"),
   E("AUTHORIZATION_PENDING", "CANCEL", "CANCELLED", "batch:cancel"),
   E("HELD", "RELEASE_HOLD", "SUBMITTED_TO_L2", "batch:hold"),
   E("HELD", "CANCEL",       "CANCELLED",       "batch:cancel")}

HumanEdges == PreparationEdges \cup ReviewEdges \cup ExecutiveEdges

\* No permission opens these: execution alone traverses them.
SystemEdges ==
  {E("AUTHORIZED", "ENQUEUE",         "QUEUED",          "none"),
   E("QUEUED",     "MARK_SUBMITTED",  "SUBMITTED",       "none"),
   E("SUBMITTED",  "MARK_PROCESSING", "PROCESSING",      "none"),
   E("QUEUED",     "MARK_PROCESSING", "PROCESSING",      "none"),
   E("PROCESSING", "SETTLE_SUCCESS",  "SUCCESS",         "none"),
   E("PROCESSING", "SETTLE_PARTIAL",  "PARTIAL_SUCCESS", "none"),
   E("PROCESSING", "SETTLE_FAILED",   "FAILED",          "none"),
   E("PROCESSING", "SETTLE_TIMEOUT",  "TIMEOUT",         "none"),
   E("SUBMITTED",  "SETTLE_TIMEOUT",  "TIMEOUT",         "none"),
   E("TIMEOUT",    "SETTLE_SUCCESS",  "SUCCESS",         "none"),
   E("TIMEOUT",    "SETTLE_PARTIAL",  "PARTIAL_SUCCESS", "none"),
   E("TIMEOUT",    "SETTLE_FAILED",   "FAILED",          "none")}

\* assertTransition, for a command an officer issues.  The minimum level an edge also names
\* is not asked for: an L2 officer rejects from L3_READY.
AssertTransition(u, from, command) ==
  \E e \in HumanEdges :
    e.from = from /\ e.command = command /\ e.permission \in PermissionsOfActor(u)

=============================================================================
