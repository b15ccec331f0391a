------------------------------- MODULE Gateway -------------------------------
(***************************************************************************)
(* The way of a payment to Daraja: acquirePermit, loadDarajaClient and     *)
(* sendB2cPayment of queues/payment-executor.ts, while administrators      *)
(* change the integrations.  What the executor writes to the ledger in     *)
(* between is in Execution.                                                *)
(***************************************************************************)
EXTENDS RateLimiter, DarajaConfig

VARIABLE
  load    \* what a worker has read of the integration it pays through

vars == <<limiter, config, pc, load>>

\* The integration and its short code; the credentials that were tested; the secrets read and
\* their values; whether no rotation disturbed the reading.
Loaded(e, shortCode, tested, calm) ==
  [env |-> e, shortCode |-> shortCode, proven |-> tested, read |-> {},
   seen |-> [f \in Fields |-> 0], calm |-> calm]

NoLoad == Loaded(Nothing, 0, 0, TRUE)

Init ==
  /\ LimiterInit /\ ConfigInit
  /\ pc = [w \in Workers |-> "idle"] /\ load = [w \in Workers |-> NoLoad]

Throttle ==
  /\ Tick \/ \E w \in Workers : Acquire(w)
  /\ UNCHANGED <<config, load>>

\* A rotation that begins disturbs the payments that are reading.
Rotate(o, e) ==
  /\ StartRotation(o, e)
  /\ load' = [w \in Workers |->
       IF load[w].env = e /\ pc[w] = "loading" THEN [load[w] EXCEPT !.calm = FALSE] ELSE load[w]]
  /\ UNCHANGED <<limiter, pc>>

Administer == Configure /\ UNCHANGED <<limiter, pc, load>>

\* WHERE status = 'ENABLED' ORDER BY environment = 'production' DESC LIMIT 1
Preferred(e) == Enabled(e) /\ (Enabled(Production) => e = Production)

\* Mutant: the row of an integration is taken whatever its status.
LoadAnyRow(w) ==
  /\ pc[w] = "permitted"
  /\ \E e \in Environments :
       /\ row[e] # NoRow
       /\ load' = [load EXCEPT ![w] = Loaded(e, row[e].shortCode, proven[e], Calm(e))]
  /\ Goto(w, "loading")
  /\ UNCHANGED <<limiter, config>>

LoadRow(w) ==
  /\ pc[w] = "permitted"
  /\ \E e \in Environments :
       /\ Preferred(e)
       /\ load' = [load EXCEPT ![w] = Loaded(e, row[e].shortCode, proven[e], Calm(e))]
  /\ Goto(w, "loading")
  /\ UNCHANGED <<limiter, config>>

\* DARAJA_NOT_CONFIGURED
NotConfigured(w) ==
  /\ pc[w] = "permitted" /\ ~\E e \in Environments : Enabled(e)
  /\ Goto(w, "idle")
  /\ UNCHANGED <<limiter, config, load>>

\* buildClient: Promise.all of the gets.
ReadSecret(w) ==
  /\ pc[w] = "loading"
  /\ \E f \in Fields \ load[w].read :
       load' = [load EXCEPT ![w].read = @ \cup {f}, ![w].seen[f] = store[load[w].env][f]]
  /\ UNCHANGED <<limiter, config, pc>>

\* The payment is sent and answered, or its worker dies: the permit is spent.
Finish(w) ==
  /\ pc[w] \in {"permitted", "loading"}
  /\ Goto(w, "idle") /\ load' = [load EXCEPT ![w] = NoLoad]
  /\ UNCHANGED <<limiter, config>>

Pay(w) == LoadRow(w) \/ NotConfigured(w) \/ ReadSecret(w) \/ Finish(w)

Next ==
  \/ Throttle \/ Administer
  \/ \E o \in Officers, e \in Environments : Rotate(o, e)
  \/ \E w \in Workers : Pay(w)

Spec == Init /\ [][Next]_vars

-----------------------------------------------------------------------------
GatewayTypeOK ==
  /\ LimiterTypeOK /\ ConfigTypeOK
  /\ pc \in [Workers -> {"idle", "waiting", "locked", "permitted", "loading"}]
  /\ load \in [Workers -> [env : Environments \cup {Nothing}, shortCode : 0..MaxRotations,
                           proven : 0..MaxRotations, read : SUBSET Fields,
                           seen : [Fields -> 0..MaxRotations], calm : BOOLEAN]]

(* A payment is sent with one set of credentials, the one that passed the  *)
(* test, and to the short code that came with it, although it reads the    *)
(* row and each secret for itself while others test, enable, disable and   *)
(* enable another integration - unless a rotation was under way, met       *)
(* another request or died.                                                *)
PaymentsAreProven ==
  \A w \in Workers :
    load[w].read = Fields /\ load[w].calm =>
      /\ Whole(load[w].seen, load[w].shortCode)
      /\ load[w].shortCode = load[w].proven
=============================================================================
