---------------------------- MODULE GatewayProofs ----------------------------
(***************************************************************************)
(* Proofs about Gateway: the permits of the bucket are bounded by its rate *)
(* and the time that was set back, and integrations that are enabled, like *)
(* the payments that go through them, use credentials that were proven.    *)
(***************************************************************************)
EXTENDS Gateway, TLAPS

-----------------------------------------------------------------------------
(* What keeps the credentials of an environment together.                  *)

\* A rotation that met nothing is alone, and what it has put is its own.
RotationAlone ==
  \A o \in Officers : officer[o].doing = "rotating" /\ officer[o].env \notin torn =>
    /\ \A p \in Officers \ {o} :
         officer[p].env = officer[o].env => officer[p].doing \notin {"rotating", "testing"}
    /\ \A f \in Fields \ officer[o].fields : store[officer[o].env][f] = officer[o].id

\* Outside a rotation the store holds what came with the row.
StoreMatchesRow ==
  \A e \in Environments :
    row[e] # NoRow /\ Calm(e) => Whole(store[e], row[e].shortCode)

\* What a test has read is still what the store holds.
TestIsCurrent ==
  \A o \in Officers : officer[o].doing = "testing" /\ officer[o].env \notin torn =>
    /\ ~Does(officer[o].env, "rotating")
    /\ row[officer[o].env] # NoRow
    /\ officer[o].id \in {0, store[officer[o].env]["consumer"]}

\* A passed test on record is one of what came with the row; only such a row is enabled.
PassedIsProven ==
  \A e \in Environments :
    /\ row[e].testOk => row[e] # NoRow
    /\ row[e].testOk /\ Calm(e) => row[e].shortCode = proven[e]
    /\ Enabled(e) => row[e].testOk

\* A payment that nothing disturbed reads from a store that stands still.
LoadIsCurrent ==
  \A w \in Workers : pc[w] = "loading" /\ load[w].calm =>
    /\ load[w].env \in Environments /\ Calm(load[w].env)
    /\ Whole(store[load[w].env], load[w].shortCode)
    /\ load[w].shortCode = load[w].proven

LoadIsWhole ==
  \A w \in Workers :
    /\ pc[w] # "loading" => load[w] = NoLoad
    /\ load[w].calm => \A f \in load[w].read : load[w].seen[f] = load[w].shortCode
    /\ load[w].calm => load[w].shortCode = load[w].proven
    /\ pc[w] = "loading" => load[w].env \in Environments

\* A bucket that is not there yet has given nothing.
FreshBucket == created = Never => granted = 0 /\ rewound = 0

ConfigInv == RotationAlone /\ StoreMatchesRow /\ TestIsCurrent /\ PassedIsProven

OfficersDo == \A o \in Officers : officer[o].doing # "nothing" => officer[o].env \in Environments

Inv == /\ GatewayTypeOK /\ PermitsAreBounded /\ FreshBucket /\ OfficersDo
       /\ ConfigInv /\ LoadIsCurrent /\ LoadIsWhole

-----------------------------------------------------------------------------
(* The bucket.                                                             *)

LEMMA LimiterStep ==
  ASSUME LimiterTypeOK, PermitsAreBounded, FreshBucket, Tick \/ \E w \in Workers : Acquire(w)
  PROVE  LimiterTypeOK' /\ PermitsAreBounded' /\ FreshBucket'
<1> USE LimiterAssumption DEF LimiterTypeOK, PermitsAreBounded, FreshBucket, Never
<1>1. CASE Tick
  BY <1>1 DEF Tick
<1>2. ASSUME NEW w \in Workers, Acquire(w) PROVE LimiterTypeOK' /\ PermitsAreBounded' /\ FreshBucket'
  <2>1. CASE BeginAcquire(w)
    BY <2>1 DEF BeginAcquire
  <2>2. CASE LockRow(w)
    BY <2>2 DEF LockRow
  <2>3. CASE AbandonAcquire(w)
    BY <2>3 DEF AbandonAcquire, Forget
  <2> DEFINE born == IF created = Never THEN began[w] ELSE created
             back == Larger(0, -Elapsed(w))
  <2>4. /\ Elapsed(w) \in Int /\ back \in Nat /\ born \in 0..clock
        /\ Refilled(w) \in 0..Burst
    BY DEF Elapsed, Larger, Smaller, Refilled
  <2>5. granted * Permit + Refilled(w) <= Burst + Rate * (began[w] - born + (rewound + back))
    <3>1. CASE created = Never
      BY <3>1 DEF Elapsed, Larger, Smaller, Refilled
    <3>2. CASE created # Never
      BY <3>2 DEF Elapsed, Larger, Smaller, Refilled
    <3> QED
      BY <3>1, <3>2
  <2>6. CASE Grant(w)
    BY <2>4, <2>5, <2>6 DEF Grant, Settle, Forget
  <2>7. CASE Refuse(w)
    BY <2>4, <2>5, <2>7 DEF Refuse, Settle, Forget
  <2> QED
    BY <1>2, <2>1, <2>2, <2>3, <2>6, <2>7 DEF Acquire
<1> QED
  BY <1>1, <1>2
-----------------------------------------------------------------------------
(* The configuration.                                                      *)

\* Nothing but the requests of this module touches the configuration.
LEMMA ConfigStays ==
  ASSUME ConfigInv, OfficersDo, ConfigTypeOK, UNCHANGED config
  PROVE  ConfigInv' /\ OfficersDo' /\ ConfigTypeOK'
BY DEF config, ConfigInv, OfficersDo, ConfigTypeOK, RotationAlone, StoreMatchesRow, TestIsCurrent,
       PassedIsProven, Calm, Does, Enabled, Whole

LEMMA RotateType ==
  ASSUME ConfigTypeOK, OfficersDo, NEW o \in Officers, NEW e \in Environments, StartRotation(o, e)
  PROVE  ConfigTypeOK' /\ OfficersDo'
<1> USE ConfigAssumption DEF ConfigTypeOK
<1>1. rotations' \in 0..MaxRotations /\ UNCHANGED <<store, row, deaths, proven>>
  BY DEF StartRotation
<1>2. torn' \subseteq Environments
  BY DEF StartRotation
<1>3. officer' = [officer EXCEPT ![o] = [doing |-> "rotating", env |-> e, id |-> rotations',
                                        fields |-> Fields, taken |-> {}]]
  BY DEF StartRotation, Request, Idle
<1>4. ConfigTypeOK'
  BY <1>1, <1>2, <1>3
<1>5. OfficersDo'
  BY <1>3 DEF OfficersDo
<1> QED
  BY <1>4, <1>5

LEMMA RotateInv ==
  ASSUME ConfigTypeOK, OfficersDo, ConfigInv,
         NEW o \in Officers, NEW e \in Environments, StartRotation(o, e)
  PROVE  ConfigInv'
<1> USE ConfigAssumption DEF ConfigInv, ConfigTypeOK
<1>1. /\ officer[o].doing = "nothing" /\ UNCHANGED <<store, row, proven>>
      /\ officer'[o].doing = "rotating" /\ officer'[o].env = e /\ officer'[o].fields = Fields
      /\ \A p \in Officers \ {o} : officer'[p] = officer[p]
      /\ \A d \in Environments \ {e} : d \in torn' <=> d \in torn
      /\ e \notin torn' <=> ~Does(e, "rotating") /\ ~Does(e, "testing")
  BY DEF StartRotation, Request, Idle
<1>2. ~Calm(e)'
  BY <1>1 DEF Calm, Does
<1>3. \A d \in Environments \ {e} : Calm(d)' <=> Calm(d)
  BY <1>1 DEF Calm, Does
<1>4. RotationAlone'
  <2> SUFFICES ASSUME NEW q \in Officers, officer'[q].doing = "rotating", officer'[q].env \notin torn'
               PROVE  /\ \A p \in Officers \ {q} :
                           officer'[p].env = officer'[q].env => officer'[p].doing \notin {"rotating", "testing"}
                      /\ \A f \in Fields \ officer'[q].fields : store'[officer'[q].env][f] = officer'[q].id
    BY DEF RotationAlone
  <2>1. CASE q = o
    BY <1>1, <2>1 DEF Does
  <2>2. CASE q # o
    <3>1. officer'[q] = officer[q] /\ officer[q].env \in Environments \ {e}
      BY <1>1, <2>2 DEF Does, OfficersDo
    <3> QED
      BY <1>1, <3>1 DEF RotationAlone
  <2> QED
    BY <2>1, <2>2
<1>5. StoreMatchesRow' /\ PassedIsProven'
  BY <1>1, <1>2, <1>3 DEF StoreMatchesRow, PassedIsProven, Enabled
<1>6. TestIsCurrent'
  <2> SUFFICES ASSUME NEW q \in Officers, officer'[q].doing = "testing", officer'[q].env \notin torn'
               PROVE  /\ ~Does(officer[q].env, "rotating")'
                      /\ row'[officer'[q].env] # NoRow
                      /\ officer'[q].id \in {0, store'[officer'[q].env]["consumer"]}
    BY <1>1 DEF TestIsCurrent, Does
  <2>1. q # o /\ officer'[q] = officer[q] /\ officer[q].env \in Environments \ {e}
    BY <1>1 DEF Does, OfficersDo
  <2>2. ~Does(officer[q].env, "rotating")
    BY <1>1, <2>1 DEF TestIsCurrent
  <2>3. ~Does(officer[q].env, "rotating")'
    BY <1>1, <2>1, <2>2 DEF Does
  <2> QED
    BY <1>1, <2>1, <2>3 DEF TestIsCurrent
<1> QED
  BY <1>4, <1>5, <1>6

\* A request that neither rotates nor tests, and changes nothing but where it is.
LEMMA OfficerMoves ==
  ASSUME ConfigTypeOK, OfficersDo, ConfigInv, NEW o \in Officers, NEW now,
         officer' = [officer EXCEPT ![o] = now],
         now \in [doing : {"nothing", "enabling"}, env : Environments \cup {Nothing},
                  id : 0..MaxRotations, fields : SUBSET Fields, taken : SUBSET Environments],
         now.doing = "enabling" => now.env \in Environments,
         officer[o].doing # "rotating", UNCHANGED <<store, row, rotations, deaths, proven, torn>>
  PROVE  ConfigTypeOK' /\ OfficersDo' /\ ConfigInv'
<1>1. ConfigTypeOK'
  BY DEF ConfigTypeOK
<1>2. /\ officer'[o] = now
      /\ \A p \in Officers \ {o} : officer'[p] = officer[p]
  BY DEF ConfigTypeOK
<1>3. \A e : Does(e, "rotating")' <=> Does(e, "rotating")
  BY <1>2 DEF Does
<1>4. OfficersDo'
  BY <1>2 DEF OfficersDo
<1>5. RotationAlone'
  BY <1>2 DEF ConfigInv, RotationAlone
<1>6. StoreMatchesRow' /\ PassedIsProven'
  BY <1>3 DEF ConfigInv, StoreMatchesRow, PassedIsProven, Calm, Enabled
<1>7. TestIsCurrent'
  BY <1>2, <1>3 DEF ConfigInv, TestIsCurrent
<1> QED
  BY <1>1, <1>4, <1>5, <1>6, <1>7 DEF ConfigInv

LEMMA IdleType ==
  Idle \in [doing : {"nothing", "enabling"}, env : Environments \cup {Nothing},
            id : 0..MaxRotations, fields : SUBSET Fields, taken : SUBSET Environments]
BY ConfigAssumption DEF Idle, Request

\* The row of an environment changes for another of the same credentials.
LEMMA StatusChanges ==
  ASSUME ConfigTypeOK, OfficersDo, ConfigInv, NEW o \in Officers, officer[o].doing # "rotating",
         officer' \in {officer, [officer EXCEPT ![o] = Idle]},
         row' \in [Environments -> [status : {"NONE", "TESTING", "ENABLED", "DISABLED", "ERROR"},
                                    testOk : BOOLEAN, shortCode : 0..MaxRotations]],
         \A e \in Environments :
           /\ row'[e].shortCode = row[e].shortCode /\ row'[e].testOk = row[e].testOk
           /\ row'[e] = NoRow <=> row[e] = NoRow
           /\ Enabled(e)' => row[e].testOk,
         UNCHANGED <<store, rotations, deaths, proven, torn>>
  PROVE  ConfigTypeOK' /\ OfficersDo' /\ ConfigInv'
<1>1. /\ \A p \in Officers \ {o} : officer'[p] = officer[p]
      /\ officer'[o] = officer[o] \/ officer'[o].doing = "nothing"
  BY DEF ConfigTypeOK, Idle, Request
<1>2. officer' \in [Officers -> [doing : {"nothing", "rotating", "testing", "enabling"},
                               env : Environments \cup {Nothing}, id : 0..MaxRotations,
                               fields : SUBSET Fields, taken : SUBSET Environments]]
  <2>1. Idle \in [doing : {"nothing", "rotating", "testing", "enabling"},
                  env : Environments \cup {Nothing}, id : 0..MaxRotations,
                  fields : SUBSET Fields, taken : SUBSET Environments]
    BY ConfigAssumption DEF Idle, Request
  <2> QED
    BY <2>1 DEF ConfigTypeOK
<1>3. ConfigTypeOK'
  BY <1>2 DEF ConfigTypeOK
<1>4. OfficersDo' /\ \A d : Does(d, "rotating")' <=> Does(d, "rotating")
  BY <1>1 DEF OfficersDo, Does
<1>5. RotationAlone'
  BY <1>1 DEF ConfigInv, RotationAlone
<1>6. StoreMatchesRow' /\ PassedIsProven'
  BY <1>4 DEF ConfigInv, StoreMatchesRow, PassedIsProven, Calm
<1>7. TestIsCurrent'
  BY <1>1, <1>4 DEF ConfigInv, TestIsCurrent, OfficersDo
<1> QED
  BY <1>3, <1>4, <1>5, <1>6, <1>7 DEF ConfigInv

\* Every request but a rotation's first step.
LEMMA ConfigureInv ==
  ASSUME ConfigTypeOK, OfficersDo, ConfigInv, Configure
  PROVE  ConfigTypeOK' /\ OfficersDo' /\ ConfigInv'
<1> USE ConfigAssumption
<1>1. ASSUME NEW o \in Officers, NEW e \in Environments, StartTest(o, e)
      PROVE  ConfigTypeOK' /\ OfficersDo' /\ ConfigInv'
  <2>1. /\ officer' = [officer EXCEPT ![o] = Request("testing", e, 0, {})]
        /\ officer[o].doing = "nothing" /\ row[e] # NoRow
        /\ torn' = IF Does(e, "rotating") THEN torn \cup {e} ELSE torn
        /\ UNCHANGED <<store, row, rotations, deaths, proven>>
    BY <1>1 DEF StartTest, Start, Idle, Request
  <2>2. ConfigTypeOK'
    BY <2>1 DEF ConfigTypeOK, Request
  <2>3. /\ officer'[o].doing = "testing" /\ officer'[o].env = e /\ officer'[o].id = 0
        /\ \A p \in Officers \ {o} : officer'[p] = officer[p]
    BY <2>1 DEF ConfigTypeOK, Request
  <2>4. \A d : Does(d, "rotating")' <=> Does(d, "rotating")
    BY <2>1, <2>3 DEF Does
  <2>5. OfficersDo'
    BY <2>3 DEF OfficersDo
  <2>6. RotationAlone'
    BY <2>1, <2>3 DEF ConfigInv, RotationAlone, Does
  <2>7. StoreMatchesRow' /\ PassedIsProven'
    BY <2>1, <2>4 DEF ConfigInv, StoreMatchesRow, PassedIsProven, Calm, Enabled
  <2>8. TestIsCurrent'
    BY <2>1, <2>3, <2>4 DEF ConfigInv, TestIsCurrent
  <2> QED
    BY <2>2, <2>5, <2>6, <2>7, <2>8 DEF ConfigInv
<1>2. ASSUME NEW o \in Officers, NEW e \in Environments, StartEnable(o, e)
      PROVE  ConfigTypeOK' /\ OfficersDo' /\ ConfigInv'
  <2>1. /\ officer' = [officer EXCEPT ![o] = Request("enabling", e, 0, {})]
        /\ officer[o].doing = "nothing"
        /\ UNCHANGED <<store, row, rotations, deaths, proven, torn>>
    BY <1>2 DEF StartEnable, Start, Idle, Request
  <2>2. Request("enabling", e, 0, {}).doing = "enabling" /\ Request("enabling", e, 0, {}).env = e
    BY DEF Request
  <2>3. Request("enabling", e, 0, {}) \in
          [doing : {"nothing", "enabling"}, env : Environments \cup {Nothing},
           id : 0..MaxRotations, fields : SUBSET Fields, taken : SUBSET Environments]
    BY DEF Request
  <2> QED
    BY <2>1, <2>2, <2>3, OfficerMoves
<1>3. ASSUME NEW o \in Officers, NEW e \in Environments, Disable(o, e)
      PROVE  ConfigTypeOK' /\ OfficersDo' /\ ConfigInv'
  <2>1. /\ officer[o].doing # "rotating" /\ officer' = officer /\ row[e] # NoRow
        /\ row' = [row EXCEPT ![e].status = "DISABLED"]
        /\ UNCHANGED <<store, rotations, deaths, proven, torn>>
    BY <1>3 DEF Disable, Idle, Request
  <2>2. /\ row'[e].status = "DISABLED" /\ row'[e].testOk = row[e].testOk
        /\ row'[e].shortCode = row[e].shortCode /\ row'[e] # NoRow
        /\ \A d \in Environments \ {e} : row'[d] = row[d]
    BY <2>1 DEF ConfigTypeOK, NoRow
  <2>3. row' \in [Environments -> [status : {"NONE", "TESTING", "ENABLED", "DISABLED", "ERROR"},
                                   testOk : BOOLEAN, shortCode : 0..MaxRotations]]
    BY <2>1 DEF ConfigTypeOK
  <2>4. \A d \in Environments : Enabled(d)' => row[d].testOk
    BY <2>2 DEF ConfigInv, PassedIsProven, Enabled
  <2> QED
    BY <2>1, <2>2, <2>3, <2>4, StatusChanges
<1>4. ASSUME NEW o \in Officers, PutSecret(o) PROVE ConfigTypeOK' /\ OfficersDo' /\ ConfigInv'
  <2> DEFINE e == officer[o].env
  <2>1. PICK f \in officer[o].fields :
          /\ store' = [store EXCEPT ![e][f] = officer[o].id]
          /\ officer' = [officer EXCEPT ![o].fields = @ \ {f}]
    BY <1>4 DEF PutSecret
  <2>2. /\ officer[o].doing = "rotating" /\ e \in Environments /\ f \in Fields
        /\ UNCHANGED <<row, rotations, deaths, proven, torn>>
    BY <1>4, <2>1 DEF PutSecret, OfficersDo, ConfigTypeOK
  <2>3. /\ officer'[o].doing = "rotating" /\ officer'[o].env = e /\ officer'[o].id = officer[o].id
        /\ officer'[o].fields = officer[o].fields \ {f}
        /\ \A p \in Officers \ {o} : officer'[p] = officer[p]
        /\ store'[e][f] = officer[o].id
        /\ \A g \in Fields \ {f} : store'[e][g] = store[e][g]
        /\ \A d \in Environments \ {e} : store'[d] = store[d]
    BY <2>1, <2>2 DEF ConfigTypeOK
  <2>4. ConfigTypeOK'
    BY <2>1, <2>2 DEF ConfigTypeOK
  <2>5. OfficersDo'
    BY <2>2, <2>3 DEF OfficersDo
  <2>6. (\A d : Does(d, "rotating")' <=> Does(d, "rotating")) /\ Does(e, "rotating")
    BY <2>2, <2>3 DEF Does
  <2>7. RotationAlone'
    BY <2>2, <2>3 DEF ConfigInv, RotationAlone, OfficersDo
  <2>8. StoreMatchesRow' /\ PassedIsProven'
    BY <2>2, <2>3, <2>6 DEF ConfigInv, StoreMatchesRow, PassedIsProven, Calm, Enabled, Whole
  <2>9. TestIsCurrent'
    BY <2>2, <2>3, <2>6 DEF ConfigInv, TestIsCurrent, OfficersDo
  <2> QED
    BY <2>4, <2>5, <2>7, <2>8, <2>9 DEF ConfigInv
<1>5. ASSUME NEW o \in Officers, Upsert(o) PROVE ConfigTypeOK' /\ OfficersDo' /\ ConfigInv'
  <2> DEFINE e == officer[o].env
             new == [status |-> "TESTING", testOk |-> FALSE, shortCode |-> officer[o].id]
  <2>1. /\ officer[o].doing = "rotating" /\ officer[o].fields = {} /\ e \in Environments
        /\ row' = [row EXCEPT ![e] = new] /\ officer' = [officer EXCEPT ![o] = Idle]
        /\ UNCHANGED <<store, rotations, deaths, proven, torn>>
    BY <1>5 DEF Upsert, End, OfficersDo
  <2>2. /\ row'[e].status = "TESTING" /\ row'[e].testOk = FALSE /\ row'[e].shortCode = officer[o].id
        /\ \A d \in Environments \ {e} : row'[d] = row[d]
        /\ officer'[o].doing = "nothing"
        /\ \A p \in Officers \ {o} : officer'[p] = officer[p]
    BY <2>1 DEF ConfigTypeOK, Idle, Request
  <2>3. ConfigTypeOK'
    <3>1. FALSE \in BOOLEAN
      BY Zenon
    <3>2. new \in [status : {"NONE", "TESTING", "ENABLED", "DISABLED", "ERROR"},
                   testOk : BOOLEAN, shortCode : 0..MaxRotations]
      BY <3>1 DEF ConfigTypeOK
    <3> QED
      BY <2>1, <3>2 DEF ConfigTypeOK, Idle, Request
  <2>4. OfficersDo'
    BY <2>2 DEF OfficersDo
  <2>5. \A d \in Environments \ {e} : Does(d, "rotating")' <=> Does(d, "rotating")
    BY <2>2 DEF Does
  <2>6. e \notin torn => Whole(store[e], officer[o].id)
    BY <2>1 DEF ConfigInv, RotationAlone, Whole
  <2>7. RotationAlone'
    BY <2>1, <2>2 DEF ConfigInv, RotationAlone
  <2>8. StoreMatchesRow'
    BY <2>1, <2>2, <2>5, <2>6 DEF ConfigInv, StoreMatchesRow, Calm
  <2>9. PassedIsProven'
    BY <2>1, <2>2, <2>5 DEF ConfigInv, PassedIsProven, Calm, Enabled
  <2>10. TestIsCurrent'
    <3> SUFFICES ASSUME NEW q \in Officers, officer'[q].doing = "testing", officer'[q].env \notin torn'
                 PROVE  /\ ~Does(officer[q].env, "rotating")'
                        /\ row'[officer'[q].env] # NoRow
                        /\ officer'[q].id \in {0, store'[officer'[q].env]["consumer"]}
      BY <2>2 DEF TestIsCurrent, Does
    <3>1. q # o /\ officer'[q] = officer[q] /\ officer[q].env \in Environments
      BY <2>2 DEF OfficersDo
    <3>2. officer[q].env # e
      BY <2>1, <3>1 DEF ConfigInv, TestIsCurrent, Does
    <3> QED
      BY <2>1, <2>2, <2>5, <3>1, <3>2 DEF ConfigInv, TestIsCurrent
  <2> QED
    BY <2>3, <2>4, <2>7, <2>8, <2>9, <2>10 DEF ConfigInv
<1>6. ASSUME NEW o \in Officers, RotationDies(o) PROVE ConfigTypeOK' /\ OfficersDo' /\ ConfigInv'
  <2> DEFINE e == officer[o].env
  <2>1. /\ officer[o].doing = "rotating" /\ e \in Environments
        /\ officer' = [officer EXCEPT ![o] = Idle] /\ torn' = torn \cup {e}
        /\ deaths' \in 0..MaxDeaths
        /\ UNCHANGED <<store, row, rotations, proven>>
    BY <1>6 DEF RotationDies, End, OfficersDo, ConfigTypeOK
  <2>2. /\ officer'[o].doing = "nothing"
        /\ \A p \in Officers \ {o} : officer'[p] = officer[p]
    BY <2>1 DEF ConfigTypeOK, Idle, Request
  <2>3. ConfigTypeOK'
    BY <2>1 DEF ConfigTypeOK, Idle, Request
  <2>4. OfficersDo'
    BY <2>2 DEF OfficersDo
  <2>5. \A d \in Environments : Calm(d)' => Calm(d)
    BY <2>1, <2>2 DEF Calm, Does
  <2>6. RotationAlone'
    BY <2>1, <2>2 DEF ConfigInv, RotationAlone
  <2>7. StoreMatchesRow' /\ PassedIsProven'
    BY <2>1, <2>5 DEF ConfigInv, StoreMatchesRow, PassedIsProven, Enabled
  <2>8. TestIsCurrent'
    BY <2>1, <2>2 DEF ConfigInv, TestIsCurrent, Does
  <2> QED
    BY <2>3, <2>4, <2>6, <2>7, <2>8 DEF ConfigInv
<1>7. ASSUME NEW o \in Officers, ReadForTest(o) PROVE ConfigTypeOK' /\ OfficersDo' /\ ConfigInv'
  <2> DEFINE e == officer[o].env
  <2>1. /\ officer[o].doing = "testing" /\ e \in Environments
        /\ officer' = [officer EXCEPT ![o].id = store[e]["consumer"]]
        /\ UNCHANGED <<store, row, rotations, deaths, proven, torn>>
    BY <1>7 DEF ReadForTest, OfficersDo
  <2>2. /\ officer'[o].doing = "testing" /\ officer'[o].env = e /\ officer'[o].id = store[e]["consumer"]
        /\ \A p \in Officers \ {o} : officer'[p] = officer[p]
        /\ store[e]["consumer"] \in 0..MaxRotations
    BY <2>1 DEF ConfigTypeOK, Fields
  <2>3. ConfigTypeOK'
    <3> DEFINE Rec == [doing : {"nothing", "rotating", "testing", "enabling"},
                       env : Environments \cup {Nothing}, id : 0..MaxRotations,
                       fields : SUBSET Fields, taken : SUBSET Environments]
    <3>1. officer \in [Officers -> Rec]
      BY DEF ConfigTypeOK
    <3>2. [officer[o] EXCEPT !.id = store[e]["consumer"]] \in Rec
      BY <2>2, <3>1
    <3>3. officer' = [officer EXCEPT ![o] = [officer[o] EXCEPT !.id = store[e]["consumer"]]]
      BY <2>1, <3>1
    <3>4. officer' \in [Officers -> Rec]
      BY <3>1, <3>2, <3>3
    <3> QED
      BY <2>1, <3>4 DEF ConfigTypeOK
  <2>4. OfficersDo' /\ \A d : Does(d, "rotating")' <=> Does(d, "rotating")
    BY <2>1, <2>2 DEF OfficersDo, Does
  <2>5. RotationAlone'
    BY <2>1, <2>2 DEF ConfigInv, RotationAlone
  <2>6. StoreMatchesRow' /\ PassedIsProven'
    BY <2>1, <2>4 DEF ConfigInv, StoreMatchesRow, PassedIsProven, Calm, Enabled
  <2>7. TestIsCurrent'
    BY <2>1, <2>2, <2>4 DEF ConfigInv, TestIsCurrent
  <2> QED
    BY <2>3, <2>4, <2>5, <2>6, <2>7 DEF ConfigInv
<1>8. ASSUME NEW o \in Officers, FinishTest(o) PROVE ConfigTypeOK' /\ OfficersDo' /\ ConfigInv'
  <2> DEFINE e  == officer[o].env
             id == officer[o].id
  <2>1. PICK ok \in BOOLEAN :
          /\ row' = [row EXCEPT ![e].testOk = ok, ![e].status = IF ok THEN "TESTING" ELSE "ERROR"]
          /\ proven' = IF ok THEN [proven EXCEPT ![e] = id] ELSE proven
    BY <1>8 DEF FinishTest, TestConnection
  <2>2. /\ officer[o].doing = "testing" /\ id # 0 /\ e \in Environments /\ id \in 0..MaxRotations
        /\ officer' = [officer EXCEPT ![o] = Idle]
        /\ UNCHANGED <<store, rotations, deaths, torn>>
    BY <1>8 DEF FinishTest, TestConnection, End, OfficersDo, ConfigTypeOK
  <2>3. /\ officer'[o].doing = "nothing"
        /\ \A p \in Officers \ {o} : officer'[p] = officer[p]
    BY <2>2 DEF ConfigTypeOK, Idle, Request
  <2>4. /\ row'[e].status \in {"TESTING", "ERROR"} /\ row'[e].testOk = ok
        /\ row'[e].shortCode = row[e].shortCode
        /\ \A d \in Environments \ {e} : row'[d] = row[d] /\ proven'[d] = proven[d]
        /\ ok => proven'[e] = id
    BY <2>1, <2>2 DEF ConfigTypeOK
  <2>5. row' \in [Environments -> [status : {"NONE", "TESTING", "ENABLED", "DISABLED", "ERROR"},
                                   testOk : BOOLEAN, shortCode : 0..MaxRotations]]
    <3> DEFINE status == IF ok THEN "TESTING" ELSE "ERROR"
               one    == [row EXCEPT ![e].testOk = ok]
               Rows   == [Environments -> [status : {"NONE", "TESTING", "ENABLED", "DISABLED", "ERROR"},
                                           testOk : BOOLEAN, shortCode : 0..MaxRotations]]
    <3>1. status \in {"TESTING", "ERROR"}
      OBVIOUS
    <3>2. one \in Rows
      <4> DEFINE rec == [row[e] EXCEPT !.testOk = ok]
      <4>1. rec.testOk = ok /\ rec.status = row[e].status /\ rec.shortCode = row[e].shortCode
        BY <2>2 DEF ConfigTypeOK
      <4>2. rec = [status |-> row[e].status, testOk |-> ok, shortCode |-> row[e].shortCode]
        BY <2>2 DEF ConfigTypeOK
      <4>3. row[e].status \in {"NONE", "TESTING", "ENABLED", "DISABLED", "ERROR"}
            /\ row[e].shortCode \in 0..MaxRotations
        BY <2>2 DEF ConfigTypeOK
      <4>4. ok \in BOOLEAN
        BY <2>1
      <4>5. rec \in [status : {"NONE", "TESTING", "ENABLED", "DISABLED", "ERROR"},
                    testOk : BOOLEAN, shortCode : 0..MaxRotations]
        BY <4>2, <4>3, <4>4, Zenon
      <4> HIDE DEF rec
      <4>6. one = [row EXCEPT ![e] = rec]
        BY DEF rec
      <4> QED
        BY <2>2, <4>5, <4>6 DEF ConfigTypeOK
    <3>3. row' = [one EXCEPT ![e].status = status]
      BY <2>1
    <3> HIDE DEF status, one
    <3> QED
      BY <2>2, <3>1, <3>2, <3>3
  <2>6. ConfigTypeOK'
    BY <2>1, <2>2, <2>5 DEF ConfigTypeOK, Idle, Request
  <2>7. OfficersDo' /\ \A d : Does(d, "rotating")' <=> Does(d, "rotating")
    BY <2>2, <2>3 DEF OfficersDo, Does
  <2>8. RotationAlone'
    BY <2>2, <2>3 DEF ConfigInv, RotationAlone
  <2>9. row'[e] # NoRow
    BY <2>4 DEF NoRow
  <2>10. e \notin torn => row[e].shortCode = id /\ row[e] # NoRow
    BY <2>2 DEF ConfigInv, TestIsCurrent, StoreMatchesRow, Calm, Whole, Fields
  <2>11. StoreMatchesRow'
    BY <2>2, <2>4, <2>7, <2>10 DEF ConfigInv, StoreMatchesRow, Calm
  <2>12. PassedIsProven'
    <3> SUFFICES ASSUME NEW d \in Environments
                 PROVE  /\ row'[d].testOk => row'[d] # NoRow
                        /\ row'[d].testOk /\ Calm(d)' => row'[d].shortCode = proven'[d]
                        /\ Enabled(d)' => row'[d].testOk
      BY DEF PassedIsProven
    <3>1. CASE d = e
      BY <2>2, <2>4, <2>9, <2>10, <3>1 DEF Calm, Enabled
    <3>2. CASE d # e
      BY <2>2, <2>4, <2>7, <3>2 DEF ConfigInv, PassedIsProven, Calm, Enabled
    <3> QED
      BY <3>1, <3>2
  <2>13. TestIsCurrent'
    BY <2>2, <2>3, <2>4, <2>7, <2>9 DEF ConfigInv, TestIsCurrent, OfficersDo
  <2> QED
    BY <2>6, <2>7, <2>8, <2>11, <2>12, <2>13 DEF ConfigInv
<1>9. ASSUME NEW o \in Officers, TestDies(o) \/ EnableDies(o)
      PROVE  ConfigTypeOK' /\ OfficersDo' /\ ConfigInv'
  BY <1>9, IdleType, OfficerMoves DEF TestDies, EnableDies, End, Idle, Request
<1>10. ASSUME NEW o \in Officers, TakeOthers(o) PROVE ConfigTypeOK' /\ OfficersDo' /\ ConfigInv'
  <2> DEFINE now == [officer[o] EXCEPT !.id = 1, !.taken = Others(officer[o].env)]
  <2>1. /\ officer[o].doing = "enabling" /\ officer' = [officer EXCEPT ![o] = now]
        /\ UNCHANGED <<store, row, rotations, deaths, proven, torn>>
    BY <1>10 DEF TakeOthers, ConfigTypeOK
  <2>2. now.doing = "enabling" /\ now.env \in Environments
    BY <2>1 DEF ConfigTypeOK, OfficersDo
  <2>3. now \in [doing : {"nothing", "enabling"}, env : Environments \cup {Nothing},
                 id : 0..MaxRotations, fields : SUBSET Fields, taken : SUBSET Environments]
    <3>1. Others(officer[o].env) \in SUBSET Environments /\ 1 \in 0..MaxRotations
      BY DEF Others
    <3>2. officer[o] \in [doing : {"enabling"}, env : Environments \cup {Nothing},
                          id : 0..MaxRotations, fields : SUBSET Fields, taken : SUBSET Environments]
      BY <2>1 DEF ConfigTypeOK
    <3> QED
      BY <3>1, <3>2
  <2> HIDE DEF now
  <2> QED
    BY <2>1, <2>2, <2>3, OfficerMoves
<1>11. ASSUME NEW o \in Officers, Enable(o) PROVE ConfigTypeOK' /\ OfficersDo' /\ ConfigInv'
  <2> DEFINE e == officer[o].env
             new(d) == IF d = e THEN [row[d] EXCEPT !.status = "ENABLED"]
                       ELSE IF d \in officer[o].taken /\ Enabled(d) THEN [row[d] EXCEPT !.status = "DISABLED"]
                       ELSE row[d]
  <2>1. /\ officer[o].doing = "enabling" /\ e \in Environments /\ row[e].testOk
        /\ officer' = [officer EXCEPT ![o] = Idle] /\ row' = [d \in Environments |-> new(d)]
        /\ UNCHANGED <<store, rotations, deaths, proven, torn>>
    BY <1>11 DEF Enable, End, OfficersDo
  <2>2. \A d \in Environments :
          new(d) \in [status : {"NONE", "TESTING", "ENABLED", "DISABLED", "ERROR"},
                      testOk : BOOLEAN, shortCode : 0..MaxRotations]
    <3> SUFFICES ASSUME NEW d \in Environments
                 PROVE  new(d) \in [status : {"NONE", "TESTING", "ENABLED", "DISABLED", "ERROR"},
                                    testOk : BOOLEAN, shortCode : 0..MaxRotations]
      OBVIOUS
    <3>1. row[d] \in [status : {"NONE", "TESTING", "ENABLED", "DISABLED", "ERROR"},
                      testOk : BOOLEAN, shortCode : 0..MaxRotations]
      BY DEF ConfigTypeOK
    <3> QED
      BY <3>1
  <2>3. \A d \in Environments :
          /\ row'[d].shortCode = row[d].shortCode /\ row'[d].testOk = row[d].testOk
          /\ Enabled(d)' => row[d].testOk
    BY <2>1 DEF ConfigTypeOK, ConfigInv, PassedIsProven, Enabled
  <2>4. \A d \in Environments : row'[d] = NoRow <=> row[d] = NoRow
    <3> SUFFICES ASSUME NEW d \in Environments PROVE row'[d] = NoRow <=> row[d] = NoRow
      OBVIOUS
    <3>1. row'[d] = new(d)
      BY <2>1
    <3>2. CASE d = e
      BY <2>1, <3>1, <3>2 DEF ConfigTypeOK, ConfigInv, PassedIsProven, NoRow
    <3>3. CASE d # e /\ d \in officer[o].taken /\ Enabled(d)
      BY <3>1, <3>3 DEF ConfigTypeOK, NoRow, Enabled
    <3>4. CASE d # e /\ ~(d \in officer[o].taken /\ Enabled(d))
      BY <3>1, <3>4
    <3> QED
      BY <3>2, <3>3, <3>4
  <2> QED
    BY <2>1, <2>2, <2>3, <2>4, StatusChanges
<1> QED
  BY <1>1, <1>2, <1>3, <1>4, <1>5, <1>6, <1>7, <1>8, <1>9, <1>10, <1>11 DEF Configure

\* Where no rotation is under way, no other request disturbs the store.
LEMMA CalmStays ==
  ASSUME ConfigTypeOK, OfficersDo, Configure, NEW e \in Environments, Calm(e)
  PROVE  Calm(e)' /\ store'[e] = store[e]
<1>1. \A q \in Officers : officer[q].doing = "rotating" => officer[q].env # e
  BY DEF Calm, Does
<1>2. PICK o \in Officers :
        \/ \E d \in Environments : StartTest(o, d) \/ StartEnable(o, d) \/ Disable(o, d)
        \/ PutSecret(o) \/ Upsert(o) \/ RotationDies(o)
        \/ ReadForTest(o) \/ FinishTest(o) \/ TestDies(o)
        \/ TakeOthers(o) \/ Enable(o) \/ EnableDies(o)
  BY DEF Configure
<1>3. /\ \A p \in Officers \ {o} : officer'[p] = officer[p]
      /\ officer'[o].doing = "rotating" => officer[o].doing = "rotating" /\ officer'[o].env = officer[o].env
  <2>1. CASE \E d \in Environments : StartTest(o, d) \/ StartEnable(o, d) \/ Disable(o, d)
    BY <2>1 DEF StartTest, StartEnable, Start, Disable, ConfigTypeOK, Request
  <2>2. CASE PutSecret(o)
    BY <2>2 DEF PutSecret, ConfigTypeOK
  <2>3. CASE Upsert(o) \/ RotationDies(o) \/ FinishTest(o) \/ TestDies(o) \/ Enable(o) \/ EnableDies(o)
    BY <2>3 DEF Upsert, RotationDies, FinishTest, TestConnection, TestDies, Enable, EnableDies, End, Idle, Request, ConfigTypeOK
  <2>4. CASE ReadForTest(o) \/ TakeOthers(o)
    BY <2>4 DEF ReadForTest, TakeOthers, ConfigTypeOK
  <2> QED
    BY <1>2, <2>1, <2>2, <2>3, <2>4
<1>4. ~Does(e, "rotating")'
  BY <1>1, <1>3 DEF Does
<1>5. e \notin torn'
  BY <1>1, <1>2 DEF Calm, Does, StartTest, StartEnable, Disable, PutSecret, Upsert, RotationDies,
     ReadForTest, FinishTest, TestConnection, TestDies, TakeOthers, Enable, EnableDies
<1>6. store'[e] = store[e]
  <2>1. CASE PutSecret(o)
    BY <1>1, <2>1 DEF PutSecret, ConfigTypeOK
  <2>2. CASE ~PutSecret(o)
    BY <1>2, <2>2 DEF StartTest, StartEnable, Disable, Upsert, RotationDies,
       ReadForTest, FinishTest, TestConnection, TestDies, TakeOthers, Enable, EnableDies
  <2> QED
    BY <2>1, <2>2
<1> QED
  BY <1>4, <1>5, <1>6 DEF Calm

-----------------------------------------------------------------------------
(* The payments, and all together.                                         *)

LEMMA InitInv == Init => Inv
<1> SUFFICES ASSUME Init PROVE Inv
  OBVIOUS
<1> USE LimiterAssumption, ConfigAssumption DEF Init, LimiterInit, ConfigInit
<1>1. LimiterTypeOK /\ PermitsAreBounded /\ FreshBucket
  BY DEF LimiterTypeOK, PermitsAreBounded, FreshBucket, Never
<1>2. FALSE \in BOOLEAN /\ TRUE \in BOOLEAN
  BY Zenon
<1>3. ConfigTypeOK
  BY <1>2 DEF ConfigTypeOK, NoRow, Idle, Request
<1>4. NoLoad \in [env : Environments \cup {Nothing}, shortCode : 0..MaxRotations,
                 proven : 0..MaxRotations, read : SUBSET Fields,
                 seen : [Fields -> 0..MaxRotations], calm : BOOLEAN]
  BY <1>2 DEF NoLoad, Loaded
<1>5. OfficersDo /\ ConfigInv
  BY DEF OfficersDo, ConfigInv, RotationAlone, StoreMatchesRow, TestIsCurrent, PassedIsProven,
         Enabled, NoRow, Idle, Request
<1>6. LoadIsCurrent /\ LoadIsWhole
  BY DEF LoadIsCurrent, LoadIsWhole, NoLoad, Loaded
<1> QED
  BY <1>1, <1>3, <1>4, <1>5, <1>6 DEF Inv, GatewayTypeOK

LoadTypeOK ==
  /\ pc \in [Workers -> {"idle", "waiting", "locked", "permitted", "loading"}]
  /\ load \in [Workers -> [env : Environments \cup {Nothing}, shortCode : 0..MaxRotations,
                           proven : 0..MaxRotations, read : SUBSET Fields,
                           seen : [Fields -> 0..MaxRotations], calm : BOOLEAN]]

LoadInv == LoadTypeOK /\ LoadIsCurrent /\ LoadIsWhole

\* Waiting for a permit has nothing to do with the integration.
LEMMA ThrottleLoad == ASSUME LoadInv, Throttle PROVE LoadInv'
<1>1. UNCHANGED <<store, officer, torn, load>>
  BY DEF Throttle, config
<1>2. \A w \in Workers : \/ pc'[w] = pc[w]
                         \/ /\ pc[w] # "loading"
                            /\ pc'[w] \in {"idle", "waiting", "locked", "permitted"}
  BY DEF Throttle, Tick, Acquire, BeginAcquire, LockRow, AbandonAcquire, Grant, Refuse, Goto,
         LoadInv, LoadTypeOK
<1>3. LoadTypeOK'
  BY <1>1 DEF Throttle, Tick, Acquire, BeginAcquire, LockRow, AbandonAcquire, Grant, Refuse, Goto,
         LoadInv, LoadTypeOK
<1>4. LoadIsCurrent' /\ LoadIsWhole'
  BY <1>1, <1>2 DEF LoadInv, LoadIsCurrent, LoadIsWhole, Calm, Does, Whole
<1> QED
  BY <1>3, <1>4 DEF LoadInv

LEMMA PayLoad ==
  ASSUME LoadInv, ConfigTypeOK, ConfigInv, NEW w \in Workers, Pay(w)
  PROVE  LoadInv'
<1> USE DEF LoadInv, LoadTypeOK
<1>1. UNCHANGED <<store, officer, torn>>
  BY DEF Pay, LoadRow, NotConfigured, ReadSecret, Finish, config
<1>2. \A v \in Workers \ {w} : pc'[v] = pc[v] /\ load'[v] = load[v]
  BY DEF Pay, LoadRow, NotConfigured, ReadSecret, Finish, Goto
<1>3. SUFFICES /\ LoadTypeOK'
               /\ pc'[w] = "loading" /\ load'[w].calm =>
                    /\ load'[w].env \in Environments /\ Calm(load'[w].env)
                    /\ Whole(store[load'[w].env], load'[w].shortCode)
                    /\ load'[w].shortCode = load'[w].proven
               /\ pc'[w] # "loading" => load'[w] = NoLoad
               /\ load'[w].calm => \A f \in load'[w].read : load'[w].seen[f] = load'[w].shortCode
               /\ load'[w].calm => load'[w].shortCode = load'[w].proven
               /\ pc'[w] = "loading" => load'[w].env \in Environments
  <2>1. LoadIsCurrent'
    <3>1. SUFFICES ASSUME NEW v \in Workers, pc'[v] = "loading", load'[v].calm
                   PROVE  /\ load'[v].env \in Environments /\ Calm(load'[v].env)
                          /\ Whole(store[load'[v].env], load'[v].shortCode)
                          /\ load'[v].shortCode = load'[v].proven
      BY <1>1 DEF LoadIsCurrent, Calm, Does, Whole
    <3>2. CASE v = w
      BY <1>3, <3>1, <3>2
    <3>3. CASE v # w
      BY <1>2, <3>1, <3>3 DEF LoadIsCurrent
    <3> QED
      BY <3>2, <3>3
  <2>2. LoadIsWhole'
    BY <1>2, <1>3 DEF LoadIsWhole
  <2> QED
    BY <1>3, <2>1, <2>2
<1>4. CASE LoadRow(w)
  <2>1. PICK e \in Environments :
          /\ Preferred(e)
          /\ load' = [load EXCEPT ![w] = Loaded(e, row[e].shortCode, proven[e], Calm(e))]
    BY <1>4 DEF LoadRow
  <2> DEFINE new == [env |-> e, shortCode |-> row[e].shortCode, proven |-> proven[e], read |-> {},
                     seen |-> [f \in Fields |-> 0], calm |-> Calm(e)]
  <2>2. load' = [load EXCEPT ![w] = new]
    BY <2>1 DEF Loaded
  <2>3. new \in [env : Environments \cup {Nothing}, shortCode : 0..MaxRotations,
                 proven : 0..MaxRotations, read : SUBSET Fields,
                 seen : [Fields -> 0..MaxRotations], calm : BOOLEAN]
    <3>1. Calm(e) \in BOOLEAN
      BY Zenon DEF Calm
    <3>2. /\ row[e].shortCode \in 0..MaxRotations /\ proven[e] \in 0..MaxRotations
          /\ [f \in Fields |-> 0] \in [Fields -> 0..MaxRotations] /\ {} \in SUBSET Fields
          /\ e \in Environments \cup {Nothing}
      BY ConfigAssumption DEF ConfigTypeOK
    <3> QED
      BY <3>1, <3>2, Zenon
  <2>4. /\ load'[w] = new /\ pc'[w] = "loading"
        /\ pc' = [pc EXCEPT ![w] = "loading"]
    BY <1>4, <2>2 DEF LoadRow, Goto
  <2>5. Calm(e) => Whole(store[e], row[e].shortCode) /\ row[e].shortCode = proven[e]
    BY <2>1 DEF ConfigInv, StoreMatchesRow, PassedIsProven, Preferred
  <2>6. LoadTypeOK'
    BY <2>2, <2>3, <2>4
  <2> HIDE DEF LoadInv, LoadTypeOK
  <2> QED
    BY <2>4, <2>5, <2>6
<1>5. CASE NotConfigured(w)
  BY <1>5 DEF NotConfigured, Goto, LoadIsWhole, NoLoad, Loaded
<1>6. CASE Finish(w)
  <2>1. LoadTypeOK'
    <3>1. TRUE \in BOOLEAN
      BY Zenon
    <3>2. NoLoad \in [env : Environments \cup {Nothing}, shortCode : 0..MaxRotations,
                     proven : 0..MaxRotations, read : SUBSET Fields,
                     seen : [Fields -> 0..MaxRotations], calm : BOOLEAN]
      BY <3>1, ConfigAssumption DEF NoLoad, Loaded
    <3> QED
      BY <1>6, <3>2 DEF Finish, Goto
  <2> QED
    BY <1>6, <2>1 DEF Finish, Goto, NoLoad, Loaded
<1>7. CASE ReadSecret(w)
  <2>1. PICK f \in Fields \ load[w].read :
          load' = [load EXCEPT ![w].read = @ \cup {f}, ![w].seen[f] = store[load[w].env][f]]
    BY <1>7 DEF ReadSecret
  <2>2. pc[w] = "loading" /\ pc' = pc /\ load[w].env \in Environments
    BY <1>7 DEF ReadSecret, LoadIsWhole
  <2>3. store[load[w].env][f] \in 0..MaxRotations
    BY <2>2 DEF ConfigTypeOK
  <2>4. LoadTypeOK'
    <3> DEFINE seen == [load[w].seen EXCEPT ![f] = store[load[w].env][f]]
               new == [load[w] EXCEPT !.read = @ \cup {f}, !.seen = seen]
    <3>1. seen \in [Fields -> 0..MaxRotations]
      BY <2>3
    <3>2. new \in [env : Environments \cup {Nothing}, shortCode : 0..MaxRotations,
                    proven : 0..MaxRotations, read : SUBSET Fields,
                    seen : [Fields -> 0..MaxRotations], calm : BOOLEAN]
      <4> HIDE DEF seen
      <4> QED
        BY <2>1, <3>1
    <3>3. load' = [load EXCEPT ![w] = new]
      BY <2>1
    <3> HIDE DEF new
    <3> QED
      BY <2>2, <3>2, <3>3
  <2>5. /\ load'[w].env = load[w].env /\ load'[w].calm = load[w].calm
        /\ load'[w].shortCode = load[w].shortCode /\ load'[w].proven = load[w].proven
        /\ load'[w].read = load[w].read \cup {f}
        /\ load'[w].seen = [load[w].seen EXCEPT ![f] = store[load[w].env][f]]
    BY <2>1
  <2>6. load[w].calm => store[load[w].env][f] = load[w].shortCode
    BY <2>2 DEF LoadIsCurrent, Whole
  <2>7. load[w].calm => \A g \in load'[w].read : load'[w].seen[g] = load[w].shortCode
    BY <2>5, <2>6 DEF LoadIsWhole
  <2> QED
    BY <2>2, <2>4, <2>5, <2>7 DEF LoadIsCurrent, LoadIsWhole
<1> QED
  BY <1>4, <1>5, <1>6, <1>7 DEF Pay

LEMMA StepInv == Inv /\ [Next]_vars => Inv'
<1> SUFFICES ASSUME Inv, [Next]_vars PROVE Inv'
  OBVIOUS
<1>1. LimiterTypeOK /\ PermitsAreBounded /\ FreshBucket /\ LoadInv /\ ConfigTypeOK /\ OfficersDo /\ ConfigInv
  BY DEF Inv, GatewayTypeOK, LoadInv, LoadTypeOK
<1>2. SUFFICES /\ LimiterTypeOK' /\ PermitsAreBounded' /\ FreshBucket'
               /\ LoadInv' /\ ConfigTypeOK' /\ OfficersDo' /\ ConfigInv'
  BY <1>2 DEF Inv, GatewayTypeOK, LoadInv, LoadTypeOK
<1>3. ASSUME UNCHANGED limiter PROVE LimiterTypeOK' /\ PermitsAreBounded' /\ FreshBucket'
  BY <1>1, <1>3 DEF limiter, LimiterTypeOK, PermitsAreBounded, FreshBucket
<1>4. CASE UNCHANGED vars
  <2>1. LoadInv'
    BY <1>1, <1>4 DEF vars, config, LoadInv, LoadTypeOK, LoadIsCurrent, LoadIsWhole, Calm, Does, Whole
  <2> QED
    BY <1>1, <1>3, <1>4, <2>1, ConfigStays DEF vars
<1>5. CASE Throttle
  BY <1>1, <1>5, LimiterStep, ThrottleLoad, ConfigStays DEF Throttle
<1>6. CASE Administer
  <2>1. LoadInv'
    <3>1. UNCHANGED <<pc, load>> /\ Configure
      BY <1>6 DEF Administer
    <3>2. LoadIsCurrent'
      BY <1>1, <3>1, CalmStays DEF LoadInv, LoadIsCurrent
    <3> QED
      BY <1>1, <3>1, <3>2 DEF LoadInv, LoadTypeOK, LoadIsWhole
  <2> QED
    BY <1>1, <1>3, <1>6, <2>1, ConfigureInv DEF Administer
<1>7. ASSUME NEW o \in Officers, NEW e \in Environments, Rotate(o, e)
      PROVE  /\ LimiterTypeOK' /\ PermitsAreBounded' /\ FreshBucket'
             /\ LoadInv' /\ ConfigTypeOK' /\ OfficersDo' /\ ConfigInv'
  <2>1. StartRotation(o, e) /\ UNCHANGED <<limiter, pc>>
    BY <1>7 DEF Rotate
  <2>2. ConfigTypeOK' /\ OfficersDo' /\ ConfigInv'
    BY <1>1, <2>1, RotateType, RotateInv
  <2>3. \A w \in Workers :
          \/ load'[w] = load[w] /\ (pc[w] = "loading" => load[w].env # e)
          \/ load'[w] = [load[w] EXCEPT !.calm = FALSE]
    BY <1>7 DEF Rotate
  <2>4. \A d \in Environments \ {e} : Calm(d) => Calm(d)'
    BY <1>1, <2>1 DEF Calm, Does, StartRotation, ConfigTypeOK, Request
  <2>5. LoadTypeOK'
    <3> DEFINE Loads == [env : Environments \cup {Nothing}, shortCode : 0..MaxRotations,
                         proven : 0..MaxRotations, read : SUBSET Fields,
                         seen : [Fields -> 0..MaxRotations], calm : BOOLEAN]
    <3>1. FALSE \in BOOLEAN
      BY Zenon
    <3>2. \A w \in Workers : [load[w] EXCEPT !.calm = FALSE] \in Loads /\ load[w] \in Loads
      BY <1>1, <3>1 DEF LoadInv, LoadTypeOK
    <3> HIDE DEF Loads
    <3>3. load' \in [Workers -> Loads]
      BY <1>7, <3>2 DEF Rotate
    <3> QED
      BY <1>1, <2>1, <3>3 DEF LoadInv, LoadTypeOK, Loads
  <2>6. \A w \in Workers : load'[w].calm => load'[w] = load[w]
    BY <1>1, <2>3 DEF LoadInv, LoadTypeOK
  <2>7. UNCHANGED <<store, pc>>
    BY <2>1 DEF StartRotation
  <2>8. LoadIsCurrent'
    <3> SUFFICES ASSUME NEW w \in Workers, pc'[w] = "loading", load'[w].calm
                 PROVE  /\ load'[w].env \in Environments
                        /\ load'[w].env \notin torn' /\ ~Does(load[w].env, "rotating")'
                        /\ Whole(store[load'[w].env], load'[w].shortCode)
                        /\ load'[w].shortCode = load'[w].proven
      BY <2>7 DEF LoadIsCurrent, Calm, Whole
    <3>1. load'[w] = load[w] /\ pc[w] = "loading"
      BY <2>6, <2>7
    <3>2. load[w].env # e
      BY <1>1, <1>7, <3>1 DEF LoadInv, LoadTypeOK, Rotate
    <3> DEFINE d == load[w].env
    <3>3. d \in Environments \ {e} /\ Calm(d)
      BY <1>1, <3>1, <3>2 DEF LoadInv, LoadIsCurrent
    <3>4. load'[w].env \notin torn' /\ ~Does(load[w].env, "rotating")'
      BY <1>1, <2>1, <3>1, <3>3 DEF Calm, Does, StartRotation, ConfigTypeOK, Request
    <3> QED
      BY <1>1, <3>1, <3>3, <3>4 DEF LoadInv, LoadIsCurrent
  <2>9. LoadIsWhole'
    BY <1>1, <1>7, <2>3, <2>6, <2>7 DEF LoadInv, LoadTypeOK, LoadIsWhole, Rotate
  <2> QED
    BY <1>3, <2>1, <2>2, <2>5, <2>8, <2>9 DEF LoadInv
<1>8. ASSUME NEW w \in Workers, Pay(w)
      PROVE  /\ LimiterTypeOK' /\ PermitsAreBounded' /\ FreshBucket'
             /\ LoadInv' /\ ConfigTypeOK' /\ OfficersDo' /\ ConfigInv'
  <2>1. UNCHANGED limiter /\ UNCHANGED config
    BY <1>8 DEF Pay, LoadRow, NotConfigured, ReadSecret, Finish
  <2> QED
    BY <1>1, <1>3, <1>8, <2>1, PayLoad, ConfigStays
<1> QED
  BY <1>4, <1>5, <1>6, <1>7, <1>8 DEF Next

LEMMA Invariance == Spec => []Inv
BY InitInv, StepInv, PTL DEF Spec

(* Every variable keeps its type: the bucket never holds more than its     *)
(* burst, and no refill is dated in the future.                            *)
THEOREM TypeCorrect == Spec => []GatewayTypeOK
BY Invariance, PTL DEF Inv

(* The rate holds for any number of executors, whatever the rate, the      *)
(* burst and the price of a permit.                                        *)
THEOREM RateHolds == Spec => []PermitsAreBounded
BY Invariance, PTL DEF Inv

(* An enabled integration at rest uses the credentials that were tested.   *)
THEOREM EnabledProven == Spec => []EnabledIsProven
<1>1. Inv => EnabledIsProven
  BY DEF Inv, ConfigInv, StoreMatchesRow, PassedIsProven, EnabledIsProven
<1> QED
  BY <1>1, Invariance, PTL

(* A payment nothing disturbed is sent with the credentials that were      *)
(* tested when it found its integration enabled.                           *)
THEOREM PaymentsProven == Spec => []PaymentsAreProven
<1>1. Inv => PaymentsAreProven
  BY DEF Inv, LoadIsWhole, PaymentsAreProven, Whole
<1> QED
  BY <1>1, Invariance, PTL
=============================================================================
