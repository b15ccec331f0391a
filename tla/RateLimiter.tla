----------------------------- MODULE RateLimiter -----------------------------
(***************************************************************************)
(* The token bucket of apps/api/src/rate-limiter.ts: one row for the       *)
(* organization, changed under SELECT ... FOR UPDATE by the executors of   *)
(* every replica.  Seconds, and the fractions of a permit that the bucket  *)
(* holds, are counted in whole units.                                      *)
(*                                                                         *)
(* now() is the time a transaction began, not the time it got the row: an  *)
(* executor that waited refills from, and writes, a time already past.     *)
(***************************************************************************)
EXTENDS Integers

CONSTANTS
  Workers,    \* executors, one payment each at a time
  None,       \* nobody holds the row
  Permit,     \* units of the bucket in one permit
  Rate,       \* DEFAULT_RATE_PER_SECOND, in units
  Burst,      \* DEFAULT_BURST, in units
  MaxClock    \* bound on time

ASSUME LimiterAssumption ==
  /\ None \notin Workers
  /\ Permit \in Nat \ {0} /\ Rate \in Nat \ {0} /\ MaxClock \in Nat
  /\ Burst \in Nat /\ Burst >= Permit

VARIABLES
  clock,        \* the database's time
  created,      \* when the row was created, or Never
  tokens,
  lastRefill,   \* last_refill_at
  holder,       \* whose transaction holds the row
  began,        \* now() of a worker's transaction
  pc,
  granted,      \* permits given out since the row was created
  rewound       \* time by which last_refill_at was set back, in all

limiter == <<clock, created, tokens, lastRefill, holder, began, granted, rewound>>

Never == -1

Larger(a, b)  == IF a > b THEN a ELSE b
Smaller(a, b) == IF a < b THEN a ELSE b

LimiterInit ==
  /\ clock = 0 /\ created = Never /\ tokens = Burst /\ lastRefill = 0
  /\ holder = None /\ began = [w \in Workers |-> 0]
  /\ granted = 0 /\ rewound = 0

Goto(w, label) == pc' = [pc EXCEPT ![w] = label]

Tick ==
  /\ clock < MaxClock /\ clock' = clock + 1
  /\ UNCHANGED <<created, tokens, lastRefill, holder, began, pc, granted, rewound>>

BeginAcquire(w) ==
  /\ pc[w] = "idle"
  /\ began' = [began EXCEPT ![w] = clock]
  /\ Goto(w, "waiting")
  /\ UNCHANGED <<clock, created, tokens, lastRefill, holder, granted, rewound>>

\* INSERT ... ON CONFLICT DO NOTHING waits for a row being created, SELECT ... FOR UPDATE for
\* one being changed.
LockRow(w) ==
  /\ pc[w] = "waiting" /\ holder = None
  /\ holder' = w
  /\ Goto(w, "locked")
  /\ UNCHANGED <<clock, created, tokens, lastRefill, began, granted, rewound>>

\* What now() was has no meaning after the transaction.
Forget(w) == began' = [began EXCEPT ![w] = 0]

\* statement_timeout, or the connection is lost: the transaction leaves no trace.
AbandonAcquire(w) ==
  /\ pc[w] \in {"waiting", "locked"}
  /\ holder' = IF holder = w THEN None ELSE holder
  /\ Forget(w) /\ Goto(w, "idle")
  /\ UNCHANGED <<clock, created, tokens, lastRefill, granted, rewound>>

\* The bucket as the transaction of w finds it: full when it creates it.
Elapsed(w)  == IF created # Never THEN began[w] - lastRefill ELSE 0
Refilled(w) == Smaller(Burst, tokens + Rate * Larger(0, Elapsed(w)))

\* What both answers write.
Settle(w, left) ==
  /\ created' = IF created = Never THEN began[w] ELSE created
  /\ tokens' = left /\ lastRefill' = began[w]
  /\ rewound' = rewound + Larger(0, -Elapsed(w))
  /\ holder' = None /\ Forget(w)

Grant(w) ==
  /\ pc[w] = "locked" /\ Refilled(w) >= Permit
  /\ Settle(w, Refilled(w) - Permit)
  /\ granted' = granted + 1
  /\ Goto(w, "permitted")
  /\ UNCHANGED clock

\* Mutant: a refusal keeps the refill, but not the time it was made.
RefuseForgetsTime(w) ==
  /\ pc[w] = "locked" /\ Refilled(w) < Permit
  /\ created' = IF created = Never THEN began[w] ELSE created
  /\ tokens' = Refilled(w) /\ lastRefill' = lastRefill
  /\ rewound' = rewound + Larger(0, -Elapsed(w))
  /\ holder' = None /\ Forget(w)
  /\ Goto(w, "idle")
  /\ UNCHANGED <<clock, granted>>

\* RATE_LIMIT_LOCAL: the queue delivers the payment again later.
Refuse(w) ==
  /\ pc[w] = "locked" /\ Refilled(w) < Permit
  /\ Settle(w, Refilled(w))
  /\ Goto(w, "idle")
  /\ UNCHANGED <<clock, granted>>

Acquire(w) == BeginAcquire(w) \/ LockRow(w) \/ AbandonAcquire(w) \/ Grant(w) \/ Refuse(w)

-----------------------------------------------------------------------------
LimiterTypeOK ==
  /\ clock \in Nat /\ created \in {Never} \cup 0..clock
  /\ tokens \in 0..Burst
  /\ lastRefill \in 0..clock
  /\ holder \in Workers \cup {None}
  /\ began \in [Workers -> 0..clock]
  /\ granted \in Nat /\ rewound \in Nat

(* "Exceeding the Daraja TPS contract returns 500.003.03 for the whole     *)
(* burst" (payment-executor.ts): however many executors of however many    *)
(* replicas compete, crash or time out, permits given and tokens left      *)
(* never exceed the burst and the rate over time - except that time by     *)
(* which a transaction that waited sets the row back is counted again.     *)
PermitsAreBounded ==
  created # Never => granted * Permit + tokens <= Burst + Rate * (lastRefill - created + rewound)
=============================================================================
