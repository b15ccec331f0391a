---------------------------- MODULE DarajaConfig -----------------------------
(***************************************************************************)
(* The Daraja integrations of one organization, one for each environment:  *)
(* services/daraja-config.ts and the routes under /admin/daraja.  Secrets  *)
(* are objects of a store, one for each field, which a rotation overwrites *)
(* in place before it resets the row that refers to them.                  *)
(*                                                                         *)
(* A set of credentials is the number of the rotation that brought it.     *)
(* The callback secret is read by none of these operations.                *)
(***************************************************************************)
EXTENDS Integers, FiniteSets

CONSTANTS
  Environments,
  Production,     \* the environment payments prefer
  Officers,       \* administrators, one request each at a time
  Nothing,        \* no environment, no officer's request
  MaxRotations,   \* bound on calls of POST /admin/daraja
  MaxDeaths       \* bound on rotations that die half-way

ASSUME ConfigAssumption ==
  /\ Production \in Environments /\ Nothing \notin Environments /\ MaxRotations \in Nat \ {0}
  /\ MaxDeaths \in Nat

\* The consumer key and its secret count as one: Daraja refuses halves of two pairs, in a test
\* and in a payment, as it refuses a pair that is wrong.
Fields == {"consumer", "credential"}

VARIABLES
  store,      \* environment -> field -> whose value, or 0
  row,        \* environment -> its row of daraja_configurations
  officer,    \* what each officer's request is doing
  rotations,  \* rotations begun so far
  deaths,     \* ... and died
  proven,     \* environment -> the credentials its last passing test used
  torn        \* environments where a rotation died, or met a test or another rotation

config == <<store, row, officer, rotations, deaths, proven, torn>>

NoRow  == [status |-> "NONE", testOk |-> FALSE, shortCode |-> 0]

\* What a request of an officer does, to which environment; the credentials it brings or has
\* read; the secrets it has still to put; the rows its transaction holds.
Request(doing, e, id, fields) ==
  [doing |-> doing, env |-> e, id |-> id, fields |-> fields, taken |-> {}]

Idle == Request("nothing", Nothing, 0, {})

ConfigInit ==
  /\ store = [e \in Environments |-> [f \in Fields |-> 0]]
  /\ row = [e \in Environments |-> NoRow]
  /\ officer = [o \in Officers |-> Idle]
  /\ rotations = 0 /\ deaths = 0
  /\ proven = [e \in Environments |-> 0] /\ torn = {}

Does(e, doing) == \E o \in Officers : officer[o].env = e /\ officer[o].doing = doing
Enabled(e)  == row[e].status = "ENABLED"

\* Another request's transaction holds the row.
Held(e, o) == \E p \in Officers \ {o} : e \in officer[p].taken

\* One value, in the store or as read, for every field.
Whole(fields, id) == \A f \in Fields : fields[f] = id

-----------------------------------------------------------------------------
(* The requests.  A rotation that meets another, or a test, tears what     *)
(* they change; one that has its environment for itself mends it.          *)

Start(o, e, doing) ==
  /\ officer[o] = Idle
  /\ officer' = [officer EXCEPT ![o] = Request(doing, e, 0, {})]

End(o) == officer' = [officer EXCEPT ![o] = Idle]

\* configureDaraja: Promise.all of the puts ...
StartRotation(o, e) ==
  /\ officer[o] = Idle
  /\ rotations < MaxRotations /\ rotations' = rotations + 1
  /\ officer' = [officer EXCEPT ![o] = Request("rotating", e, rotations', Fields)]
  /\ torn' = IF Does(e, "rotating") \/ Does(e, "testing") THEN torn \cup {e} ELSE torn \ {e}
  /\ UNCHANGED <<store, row, deaths, proven>>

PutSecret(o) ==
  LET e == officer[o].env IN
  /\ officer[o].doing = "rotating"
  /\ \E f \in officer[o].fields :
       /\ store' = [store EXCEPT ![e][f] = officer[o].id]
       /\ officer' = [officer EXCEPT ![o].fields = @ \ {f}]
  /\ UNCHANGED <<row, rotations, deaths, proven, torn>>

\* Mutant: the row keeps the result of the test of the credentials before.
UpsertKeepsTest(o) ==
  LET e == officer[o].env IN
  /\ officer[o].doing = "rotating" /\ officer[o].fields = {} /\ ~Held(e, o)
  /\ row' = [row EXCEPT ![e].status = "TESTING", ![e].shortCode = officer[o].id]
  /\ End(o)
  /\ UNCHANGED <<store, rotations, deaths, proven, torn>>

\* ... then the upsert.
Upsert(o) ==
  LET e == officer[o].env IN
  /\ officer[o].doing = "rotating" /\ officer[o].fields = {} /\ ~Held(e, o)
  /\ row' = [row EXCEPT ![e] = [status |-> "TESTING", testOk |-> FALSE, shortCode |-> officer[o].id]]
  /\ End(o)
  /\ UNCHANGED <<store, rotations, deaths, proven, torn>>

\* A put fails or the process dies half-way: what is put stays, the row is as it was.
RotationDies(o) ==
  /\ officer[o].doing = "rotating"
  /\ deaths < MaxDeaths /\ deaths' = deaths + 1
  /\ torn' = torn \cup {officer[o].env}
  /\ End(o)
  /\ UNCHANGED <<store, row, rotations, proven>>

\* POST /admin/daraja/:id/test: loadDarajaClientById reads the store
\* (the credential too, which the test has no use for).
StartTest(o, e) ==
  /\ row[e] # NoRow
  /\ Start(o, e, "testing")
  /\ torn' = IF Does(e, "rotating") THEN torn \cup {e} ELSE torn
  /\ UNCHANGED <<store, row, rotations, deaths, proven>>

ReadForTest(o) ==
  /\ officer[o].doing = "testing" /\ officer[o].id = 0
  /\ officer' = [officer EXCEPT ![o].id = store[officer[o].env]["consumer"]]
  /\ UNCHANGED <<store, row, rotations, deaths, proven, torn>>

\* testConnection shows the consumer's key and secret to Daraja; whatever is no token is a no.
TestConnection == BOOLEAN

FinishTest(o) ==
  LET e == officer[o].env IN
  /\ officer[o].doing = "testing" /\ officer[o].id # 0 /\ ~Held(e, o)
  /\ \E ok \in TestConnection :
       /\ row' = [row EXCEPT ![e].testOk = ok, ![e].status = IF ok THEN "TESTING" ELSE "ERROR"]
       /\ proven' = IF ok THEN [proven EXCEPT ![e] = officer[o].id] ELSE proven
  /\ End(o)
  /\ UNCHANGED <<store, rotations, deaths, torn>>

\* A secret cannot be read or the process dies: nothing is written.
TestDies(o) ==
  /\ officer[o].doing = "testing"
  /\ End(o)
  /\ UNCHANGED <<store, row, rotations, deaths, proven, torn>>

\* POST /admin/daraja/:id/enable reads the test result without a lock ...
StartEnable(o, e) ==
  /\ row[e].testOk
  /\ Start(o, e, "enabling")
  /\ UNCHANGED <<store, row, rotations, deaths, proven, torn>>

\* ... takes the rows that are ENABLED as it comes to them, and keeps them to its commit ...
Others(e) == {d \in Environments \ {e} : Enabled(d)}

TakeOthers(o) ==
  LET e == officer[o].env IN
  /\ officer[o].doing = "enabling" /\ officer[o].id = 0
  /\ \A d \in Others(e) : ~Held(d, o)
  /\ officer' = [officer EXCEPT ![o].id = 1, ![o].taken = Others(e)]
  /\ UNCHANGED <<store, row, rotations, deaths, proven, torn>>

\* ... and disables them with its own change, which the CHECK refuses when the test is gone.
Enable(o) ==
  LET e == officer[o].env IN
  /\ officer[o].doing = "enabling" /\ officer[o].id = 1
  /\ ~Held(e, o) /\ row[e].testOk
  /\ row' = [d \in Environments |->
       IF d = e THEN [row[d] EXCEPT !.status = "ENABLED"]
       ELSE IF d \in officer[o].taken /\ Enabled(d) THEN [row[d] EXCEPT !.status = "DISABLED"]
       ELSE row[d]]
  /\ End(o)
  /\ UNCHANGED <<store, rotations, deaths, proven, torn>>

EnableDies(o) ==
  /\ officer[o].doing = "enabling"
  /\ End(o)
  /\ UNCHANGED <<store, row, rotations, deaths, proven, torn>>

\* POST /admin/daraja/:id/disable
Disable(o, e) ==
  /\ officer[o] = Idle /\ row[e] # NoRow /\ ~Held(e, o)
  /\ row' = [row EXCEPT ![e].status = "DISABLED"]
  /\ UNCHANGED <<store, officer, rotations, deaths, proven, torn>>

Configure ==
  \E o \in Officers :
    \/ \E e \in Environments : StartTest(o, e) \/ StartEnable(o, e) \/ Disable(o, e)
    \/ PutSecret(o) \/ Upsert(o) \/ RotationDies(o)
    \/ ReadForTest(o) \/ FinishTest(o) \/ TestDies(o)
    \/ TakeOthers(o) \/ Enable(o) \/ EnableDies(o)

-----------------------------------------------------------------------------
ConfigTypeOK ==
  /\ store \in [Environments -> [Fields -> 0..MaxRotations]]
  /\ row \in [Environments -> [status : {"NONE", "TESTING", "ENABLED", "DISABLED", "ERROR"},
                               testOk : BOOLEAN, shortCode : 0..MaxRotations]]
  /\ officer \in [Officers -> [doing : {"nothing", "rotating", "testing", "enabling"},
                               env : Environments \cup {Nothing}, id : 0..MaxRotations,
                               fields : SUBSET Fields, taken : SUBSET Environments]]
  /\ rotations \in 0..MaxRotations /\ deaths \in 0..MaxDeaths
  /\ proven \in [Environments -> 0..MaxRotations] /\ torn \subseteq Environments

Calm(e) == e \notin torn /\ ~Does(e, "rotating")

(* "it cannot keep processing production payments on credentials that have *)
(* not been proven to work" (daraja-config.ts:246): outside a rotation, an *)
(* integration that is ENABLED has in the store exactly the credentials    *)
(* that passed the last test, with the short code that came with them -    *)
(* unless a rotation died there or met a test or another rotation.         *)
EnabledIsProven ==
  \A e \in Environments :
    Enabled(e) /\ Calm(e) => Whole(store[e], proven[e]) /\ row[e].shortCode = proven[e]
=============================================================================
