--------------------------- MODULE DeploymentProofs ---------------------------
(***************************************************************************)
(* Proofs about Deployment: however many migrators race and die, the       *)
(* schema is what schema_migrations says and a replica that serves has all *)
(* of it; and however many replicas tick, each job runs in one of them,    *)
(* and the daily one once a day.                                           *)
(***************************************************************************)
EXTENDS Deployment, FiniteSetTheorems, WellFoundedInduction, TLAPS

-----------------------------------------------------------------------------
(* The two halves of the state do not meet but in Serve, and each has its  *)
(* own invariant.                                                          *)

MigrationTypeOK ==
  /\ files \in [Deploys -> [Names -> Image]]
  /\ schema \in Seq(Names \X Image)
  /\ DOMAIN recorded \subseteq Names /\ \A n \in DOMAIN recorded : recorded[n] \in Image
  /\ table \in BOOLEAN
  /\ runner \in [Deploys -> [at : Busy \cup Ended, todo : SUBSET Names]]
  /\ migrating \in Deploys \cup {None} /\ strays \subseteq Deploys

SchedulerTypeOK ==
  /\ replica \in [Replicas -> {"down", "serving", "stopping"}]
  /\ chain \in [Replicas -> Seq(Jobs)]
  /\ step \in [Replicas -> {"none", "gate", "claiming", "running"}]
  /\ severed \in [Replicas -> BOOLEAN]
  /\ jobLock \in [Jobs -> Replicas \cup {None}]
  /\ clock \in [day : 0..LastDay, open : BOOLEAN]
  /\ claimed \in [Replicas -> 0..LastDay]
  /\ ranOn \subseteq 0..LastDay /\ kept \in [0..LastDay -> Nat]

\* What a migrator means to apply has all that is not recorded, with the lock or without it.
TodoCovers ==
  /\ \A d \in Deploys : runner[d].at \in {"waiting", "locked", "applying"} => Names \ DOMAIN recorded \subseteq runner[d].todo
  /\ \A d \in Deploys : runner[d].at = "applying" => runner[d].todo # {}

\* Who has the lock is past it; while nobody has lost it, its holder applies nothing twice.
LockIsOwned ==
  /\ \A d \in Deploys : migrating = d => runner[d].at \in {"locked", "applying"}
  /\ \A d \in Deploys : runner[d].at \in {"locked", "applying"} => migrating = d \/ d \in strays
  /\ strays = {} => \A d \in Deploys : runner[d].at = "applying" => runner[d].todo \cap DOMAIN recorded = {}

AtTable == {"released", "creating", "collided"}

\* Where the table is there, and one migrator missed it, another has made it and gone on.
TableIsMade ==
  /\ \A d \in Deploys : runner[d].at = "collided" => table
  /\ \A d \in Deploys : runner[d].at \in {"creating", "collided"} /\ table =>
        \E e \in Deploys : runner[e].at \notin AtTable

MigrationInv == MigrationTypeOK /\ SchemaIsRecorded /\ TodoCovers /\ LockIsOwned /\ TableIsMade

ServesInv == \A r \in Replicas : replica[r] # "down" => Proven \subseteq DOMAIN recorded

\* A job that is being run has its lock, or has lost its connection.
JobIsLocked ==
  \A r \in Replicas : step[r] # "none" =>
    /\ chain[r] # <<>>
    /\ ~severed[r] => jobLock[Head(chain[r])] = r

KeptIsMarked == \A day \in 0..LastDay : kept[day] = IF day \in ranOn THEN 1 ELSE 0

SchedulerInv == SchedulerTypeOK /\ JobIsLocked /\ KeptIsMarked

Failed == {d \in Deploys : runner[d].at = "failed"}

\* What failed has cost a fault each, while nobody has lost the lock.
FailuresCounted ==
  /\ IsFiniteSet(Failed)
  /\ strays = {} => Cardinality(Failed) <= MaxFaults - faults

Inv == MigrationInv /\ ServesInv /\ SchedulerInv /\ faults \in 0..MaxFaults /\ FailuresCounted

-----------------------------------------------------------------------------
(* Migrations.                                                             *)

\* Every set of migrations has a first: intervals from 1 are ordered by inclusion.
LEMMA LeastIsThere ==
  ASSUME NEW S \in SUBSET Names, S # {}
  PROVE  \E x \in S : \A y \in S : x =< y
<1> USE DeploymentAssumption DEF Names
<1> DEFINE T == {1..x : x \in S}
<1>1. \A x \in S : 1..x \in SUBSET Names /\ IsFiniteSet(1..x)
  BY FS_Interval
<1>2. T \subseteq FiniteSubsetsOf(Names) /\ T # {}
  BY <1>1 DEF FiniteSubsetsOf
<1>3. PICK t \in T : \A u \in T : <<u, t>> \notin StrictSubsetOrdering(Names)
  BY <1>2, FS_StrictSubsetOrderingWellFounded, WFMin
<1>4. PICK x \in S : t = 1..x
  BY <1>3
<1>5. ASSUME NEW y \in S, y < x  PROVE FALSE
  <2>1. 1..y \subseteq 1..x /\ 1..y # 1..x
    <3>1. x \in 1..x /\ x \notin 1..y
      BY <1>5
    <3> QED  BY <1>5, <3>1
  <2>2. <<1..y, 1..x>> \in StrictSubsetOrdering(Names)
    BY <1>1, <2>1 DEF StrictSubsetOrdering
  <2> QED  BY <1>3, <1>4, <2>2
<1> QED  BY <1>5

\* The places of a migrator, one by one.
LEMMA PlacesAre ==
  Busy \cup Ended = {"released", "creating", "reading", "waiting", "locked", "applying",
                     "migrated", "refused", "collided", "failed"}
<1> QED  BY DEF Busy, Ended

\* A migrator that goes on, and leaves the table or stays clear of it, keeps what is
\* said of the table.
LEMMA TableStaysMade ==
  ASSUME MigrationInv, NEW d \in Deploys, runner'[d].at \notin AtTable,
         \A e \in Deploys \ {d} : runner'[e] = runner[e], UNCHANGED table
  PROVE  TableIsMade'
<1> QED  BY DEF MigrationInv, TableIsMade, AtTable

\* An exit frees the lock of the one that exits, and keeps all that is said of the others.
LEMMA ExitKeeps ==
  ASSUME MigrationInv, NEW d \in Deploys, NEW how \in {"migrated", "refused", "failed"}, Exit(d, how),
         UNCHANGED <<files, schema, table, recorded, strays>>
  PROVE  MigrationInv'
<1>1. MigrationTypeOK'
  BY PlacesAre DEF MigrationInv, MigrationTypeOK, Exit
<1>2. SchemaIsRecorded' /\ TodoCovers'
  BY DEF MigrationInv, MigrationTypeOK, SchemaIsRecorded, TodoCovers, Exit
<1>3. LockIsOwned'
  BY DeploymentAssumption DEF MigrationInv, MigrationTypeOK, LockIsOwned, Exit
<1>4. TableIsMade'
  <2>1. runner'[d].at = how /\ \A e \in Deploys \ {d} : runner'[e] = runner[e]
    BY DEF Exit, MigrationInv, MigrationTypeOK
  <2> QED  BY <2>1, TableStaysMade DEF AtTable
<1> QED  BY <1>1, <1>2, <1>3, <1>4 DEF MigrationInv

\* While the table is missing nobody has collided.
LEMMA MissKeeps ==
  ASSUME MigrationInv, NEW d \in Deploys, MissTable(d)
  PROVE  MigrationInv'
<1>1. MigrationTypeOK'
  BY PlacesAre DEF MigrationInv, MigrationTypeOK, MissTable
<1>2. SchemaIsRecorded' /\ TodoCovers' /\ LockIsOwned'
  BY DEF MigrationInv, MigrationTypeOK, SchemaIsRecorded, TodoCovers, LockIsOwned, MissTable
<1>3. TableIsMade'
  BY DEF MigrationInv, MigrationTypeOK, TableIsMade, MissTable
<1> QED  BY <1>1, <1>2, <1>3 DEF MigrationInv

\* Who creates the table is the one that went on; who collides was not.
LEMMA CreateKeeps ==
  ASSUME MigrationInv, NEW d \in Deploys, CreateTable(d)
  PROVE  MigrationInv' /\ runner'[d].at # "failed"
<1>1. CASE table
  <2>1. runner' = [runner EXCEPT ![d] = [at |-> "collided", todo |-> {}]]
    BY <1>1 DEF CreateTable, Exit
  <2>2. migrating' = migrating /\ UNCHANGED <<files, schema, table, recorded, strays>>
    BY <1>1, DeploymentAssumption DEF CreateTable, Exit, MigrationInv, MigrationTypeOK, LockIsOwned
  <2>3. MigrationTypeOK'
    BY <2>1, <2>2, PlacesAre DEF MigrationInv, MigrationTypeOK
  <2>4. SchemaIsRecorded' /\ TodoCovers' /\ LockIsOwned'
    BY <2>1, <2>2 DEF CreateTable, MigrationInv, MigrationTypeOK, SchemaIsRecorded, TodoCovers, LockIsOwned
  <2>5. PICK e \in Deploys : runner[e].at \notin AtTable
    BY <1>1 DEF CreateTable, MigrationInv, TableIsMade
  <2>6. e # d /\ runner'[e] = runner[e]
    BY <2>1, <2>5 DEF CreateTable, AtTable, MigrationInv, MigrationTypeOK
  <2>7. TableIsMade'
    BY <1>1, <2>2, <2>5, <2>6 DEF TableIsMade
  <2>8. runner'[d].at = "collided"
    BY <2>1 DEF MigrationInv, MigrationTypeOK
  <2> QED  BY <2>3, <2>4, <2>7, <2>8 DEF MigrationInv
<1>2. CASE ~table
  <2>1. /\ runner' = [runner EXCEPT ![d].at = "reading"] /\ table' = TRUE
        /\ UNCHANGED <<files, schema, recorded, migrating, strays>>
    BY <1>2 DEF CreateTable
  <2>2. MigrationTypeOK'
    BY <2>1, PlacesAre DEF MigrationInv, MigrationTypeOK
  <2>3. SchemaIsRecorded' /\ TodoCovers' /\ LockIsOwned'
    BY <2>1 DEF CreateTable, MigrationInv, MigrationTypeOK, SchemaIsRecorded, TodoCovers, LockIsOwned
  <2>4. runner'[d].at = "reading"
    BY <2>1 DEF MigrationInv, MigrationTypeOK
  <2>5. TableIsMade'
    BY <2>1, <2>4 DEF TableIsMade, AtTable
  <2> QED  BY <2>2, <2>3, <2>4, <2>5 DEF MigrationInv
<1> QED  BY <1>1, <1>2

LEMMA ReadKeeps ==
  ASSUME MigrationInv, NEW d \in Deploys, ReadApplied(d)
  PROVE  MigrationInv'
<1> DEFINE drifted == {n \in DOMAIN recorded : recorded[n] # files[d][n]}
           pending == Names \ DOMAIN recorded
<1>1. CASE Exit(d, "refused")
  BY <1>1, ExitKeeps DEF ReadApplied
<1>2. CASE Exit(d, "migrated")
  BY <1>2, ExitKeeps DEF ReadApplied
<1>3. CASE /\ runner' = [runner EXCEPT ![d] = [at |-> "waiting", todo |-> pending]]
           /\ UNCHANGED migrating
  <2>1. UNCHANGED <<files, schema, table, recorded, strays>>
    BY DEF ReadApplied
  <2>2. MigrationTypeOK'
    BY <1>3, <2>1, PlacesAre DEF MigrationInv, MigrationTypeOK
  <2>3. SchemaIsRecorded'
    BY <2>1 DEF MigrationInv, SchemaIsRecorded
  <2>4. runner[d].at \in {"released", "reading"}
    BY DEF ReadApplied
  <2>5. TodoCovers' /\ LockIsOwned'
    BY <1>3, <2>1, <2>4 DEF MigrationInv, MigrationTypeOK, TodoCovers, LockIsOwned
  <2>6. TableIsMade'
    <3>1. runner'[d].at = "waiting" /\ \A e \in Deploys \ {d} : runner'[e] = runner[e]
      BY <1>3 DEF MigrationInv, MigrationTypeOK
    <3> QED  BY <2>1, <3>1, TableStaysMade DEF AtTable
  <2> QED  BY <2>2, <2>3, <2>5, <2>6 DEF MigrationInv
<1> QED  BY <1>1, <1>2, <1>3 DEF ReadApplied

LEMMA LockKeeps ==
  ASSUME MigrationInv, NEW d \in Deploys, LockMigrations(d)
  PROVE  MigrationInv'
<1>1. MigrationTypeOK'
  BY PlacesAre DEF MigrationInv, MigrationTypeOK, LockMigrations
<1>2. SchemaIsRecorded' /\ TodoCovers'
  BY DEF MigrationInv, MigrationTypeOK, SchemaIsRecorded, TodoCovers, LockMigrations
<1>3. LockIsOwned'
  BY DeploymentAssumption DEF MigrationInv, MigrationTypeOK, LockIsOwned, LockMigrations
<1>4. runner'[d].at = "locked" /\ (\A e \in Deploys \ {d} : runner'[e] = runner[e]) /\ UNCHANGED table
  BY DEF LockMigrations, MigrationInv, MigrationTypeOK
<1>5. TableIsMade'
  BY <1>4, TableStaysMade DEF AtTable
<1> QED  BY <1>1, <1>2, <1>3, <1>5 DEF MigrationInv

LEMMA RereadKeeps ==
  ASSUME MigrationInv, NEW d \in Deploys, Reread(d)
  PROVE  MigrationInv'
<1> DEFINE todo == runner[d].todo \ DOMAIN recorded
<1>1. CASE todo = {}
  BY <1>1, ExitKeeps DEF Reread
<1>2. CASE todo # {}
  <2>1. todo \subseteq Names /\ Names \ DOMAIN recorded \subseteq todo /\ todo \cap DOMAIN recorded = {}
    BY DEF MigrationInv, MigrationTypeOK, TodoCovers, Reread
  <2>2. /\ runner' = [runner EXCEPT ![d] = [at |-> "applying", todo |-> todo]]
        /\ UNCHANGED <<migrating, files, schema, table, recorded, strays>>
    BY <1>2 DEF Reread
  <2>3. MigrationTypeOK'
    BY <2>1, <2>2, PlacesAre DEF MigrationInv, MigrationTypeOK
  <2>4. SchemaIsRecorded'
    BY <2>2 DEF MigrationInv, SchemaIsRecorded
  <2>5. TodoCovers' /\ LockIsOwned'
    BY <1>2, <2>1, <2>2 DEF MigrationInv, MigrationTypeOK, TodoCovers, LockIsOwned, Reread
  <2>6. TableIsMade'
    <3>1. runner'[d].at = "applying" /\ \A e \in Deploys \ {d} : runner'[e] = runner[e]
      BY <2>2 DEF MigrationInv, MigrationTypeOK
    <3> QED  BY <2>2, <3>1, TableStaysMade DEF AtTable
  <2> QED  BY <2>3, <2>4, <2>5, <2>6 DEF MigrationInv
<1> QED  BY <1>1, <1>2

\* The next of what is to be applied is recorded, or follows what is.
LEMMA NextInTurn ==
  ASSUME MigrationInv, NEW d \in Deploys, runner[d].at = "applying"
  PROVE  LET k == Len(schema)
             n == Min(runner[d].todo)
         IN  /\ k \in Nat /\ DOMAIN schema = 1..k /\ DOMAIN recorded = 1..k
             /\ \A j \in 1..k : schema[j] = <<j, recorded[j]>>
             /\ n \in runner[d].todo /\ n \in Names
             /\ n \notin DOMAIN recorded => n = k + 1
<1> DEFINE k == Len(schema)
           n == Min(runner[d].todo)
           todo == runner[d].todo
<1>1. /\ k \in Nat /\ DOMAIN schema = 1..k /\ DOMAIN recorded = 1..k
      /\ \A j \in 1..k : schema[j] = <<j, recorded[j]>>
  BY DEF MigrationInv, MigrationTypeOK, SchemaIsRecorded
<1>2. todo \subseteq Names /\ todo # {} /\ Names \ 1..k \subseteq todo
  BY <1>1 DEF MigrationInv, MigrationTypeOK, TodoCovers
<1>3. n \in todo /\ \A y \in todo : n =< y
  BY <1>2, LeastIsThere DEF Min
<1>4. ASSUME n \notin 1..k  PROVE n = k + 1
  <2>1. n \in Nat /\ n >= 1 /\ n <= Migrations /\ n > k
    BY <1>1, <1>2, <1>3, <1>4, DeploymentAssumption DEF Names
  <2>2. k + 1 \in todo
    BY <1>1, <1>2, <2>1, DeploymentAssumption DEF Names
  <2> QED  BY <1>1, <1>3, <2>1, <2>2
<1> QED  BY <1>1, <1>2, <1>3, <1>4

\* A migration that is recorded already makes its migrator fail; another is the next,
\* and its row goes with it.
LEMMA ApplyKeeps ==
  ASSUME MigrationInv, NEW d \in Deploys, Apply(d)
  PROVE  /\ MigrationInv' /\ DOMAIN recorded \subseteq DOMAIN recorded'
         /\ strays = {} => runner'[d].at # "failed"
<1> DEFINE k == Len(schema)
           n == Min(runner[d].todo)
<1>1. /\ k \in Nat /\ DOMAIN schema = 1..k /\ DOMAIN recorded = 1..k
      /\ \A j \in 1..k : schema[j] = <<j, recorded[j]>>
      /\ n \in runner[d].todo /\ n \in Names
      /\ n \notin DOMAIN recorded => n = k + 1
  BY NextInTurn DEF Apply
<1>2. runner[d].at = "applying"
  BY DEF Apply
<1>3. CASE n \in DOMAIN recorded
  <2>1. Exit(d, "failed") /\ UNCHANGED <<files, schema, table, recorded, strays>>
    BY <1>3 DEF Apply, Applied
  <2>2. strays # {}
    BY <1>1, <1>2, <1>3 DEF MigrationInv, LockIsOwned
  <2> QED  BY <2>1, <2>2, ExitKeeps
<1>4. CASE n \notin DOMAIN recorded
  <2>1. ~Applied(n) /\ n = k + 1
    BY <1>1, <1>4 DEF Applied
  <2>2. /\ schema' = Append(schema, <<n, files[d][n]>>)
        /\ recorded' = WithRow(n, files[d][n])
        /\ IF runner[d].todo = {n} THEN Exit(d, "migrated")
           ELSE runner' = [runner EXCEPT ![d].todo = @ \ {n}] /\ UNCHANGED migrating
        /\ UNCHANGED <<files, table, strays>>
    BY <2>1 DEF Apply
  <2>3. files[d][n] \in Image
    BY <1>1 DEF MigrationInv, MigrationTypeOK
  <2>4. /\ DOMAIN recorded' = 1..(k + 1)
        /\ recorded'[k + 1] = files[d][n]
        /\ \A j \in 1..k : recorded'[j] = recorded[j]
    BY <1>1, <2>1, <2>2 DEF WithRow
  <2>5. /\ schema' \in Seq(Names \X Image) /\ DOMAIN schema' = 1..(k + 1)
        /\ schema'[k + 1] = <<k + 1, files[d][n]>>
        /\ \A j \in 1..k : schema'[j] = schema[j]
    BY <1>1, <2>1, <2>2, <2>3 DEF MigrationInv, MigrationTypeOK
  <2>6. SchemaIsRecorded'
    BY <1>1, <2>4, <2>5 DEF SchemaIsRecorded
  <2> DEFINE at == IF runner[d].todo = {n} THEN "migrated" ELSE "applying"
  <2>7. /\ runner' = [runner EXCEPT ![d] = [at |-> at, todo |-> runner[d].todo \ {n}]]
        /\ migrating' = IF runner[d].todo = {n} /\ migrating = d THEN None ELSE migrating
    <3>1. CASE runner[d].todo = {n}
      BY <2>2, <3>1 DEF Exit
    <3>2. CASE runner[d].todo # {n}
      BY <1>2, <2>2, <3>2 DEF MigrationInv, MigrationTypeOK
    <3> QED  BY <3>1, <3>2
  <2>8. MigrationTypeOK'
    <3>1. \A j \in DOMAIN recorded' : recorded'[j] \in Image
      BY <1>1, <2>3, <2>4 DEF MigrationInv, MigrationTypeOK
    <3>2. DOMAIN recorded' \subseteq Names
      BY <1>1, <2>1, <2>4, DeploymentAssumption DEF MigrationInv, MigrationTypeOK, Names
    <3>3. runner[d].todo \ {n} \in SUBSET Names
      BY DEF MigrationInv, MigrationTypeOK
    <3>4. runner' \in [Deploys -> [at : Busy \cup Ended, todo : SUBSET Names]] /\ migrating' \in Deploys \cup {None}
      BY <2>7, <3>3, PlacesAre DEF MigrationInv, MigrationTypeOK
    <3> QED  BY <2>2, <2>5, <3>1, <3>2, <3>4 DEF MigrationInv, MigrationTypeOK
  <2>9. \A e \in Deploys \ {d} : runner'[e] = runner[e]
    BY <2>7 DEF MigrationInv, MigrationTypeOK
  <2>10. runner'[d].at = at /\ runner'[d].todo = runner[d].todo \ {n}
    BY <2>7 DEF MigrationInv, MigrationTypeOK
  <2>11. DOMAIN recorded' = DOMAIN recorded \cup {n}
    BY <1>1, <2>1, <2>4
  <2>12. TodoCovers'
    <3>1. runner[d].todo # {n} => runner[d].todo \ {n} # {}
      BY <1>1
    <3> QED  BY <1>2, <2>9, <2>10, <2>11, <3>1 DEF MigrationInv, TodoCovers
  <2>13. LockIsOwned'
    <3>1. \A e \in Deploys : migrating' = e => runner'[e].at \in {"locked", "applying"}
      BY <2>7, <2>9, <2>10, DeploymentAssumption DEF MigrationInv, LockIsOwned
    <3>2. \A e \in Deploys : runner'[e].at \in {"locked", "applying"} => migrating' = e \/ e \in strays'
      BY <1>2, <2>2, <2>7, <2>9, <2>10 DEF MigrationInv, LockIsOwned
    <3>3. strays = {} => \A e \in Deploys \ {d} : runner[e].at # "applying"
      BY <1>2 DEF MigrationInv, LockIsOwned
    <3>4. strays = {} => runner[d].todo \cap DOMAIN recorded = {}
      BY <1>2 DEF MigrationInv, LockIsOwned
    <3> QED  BY <2>2, <2>9, <2>10, <2>11, <3>1, <3>2, <3>3, <3>4 DEF LockIsOwned
  <2>14. TableIsMade'
    <3>1. runner'[d].at \notin AtTable /\ UNCHANGED table
      BY <2>2, <2>10 DEF AtTable
    <3> QED  BY <2>9, <3>1, TableStaysMade
  <2>15. runner'[d].at # "failed"
    BY <2>10
  <2> QED  BY <2>6, <2>8, <2>11, <2>12, <2>13, <2>14, <2>15 DEF MigrationInv
<1> QED  BY <1>3, <1>4

\* The lock without its holder is free, and the holder is known to have lost it.
LEMMA LoseKeeps ==
  ASSUME MigrationInv, NEW d \in Deploys, LoseMigrationLock(d)
  PROVE  MigrationInv'
<1>1. MigrationTypeOK'
  BY DEF MigrationInv, MigrationTypeOK, LoseMigrationLock
<1>2. SchemaIsRecorded' /\ TodoCovers' /\ TableIsMade'
  BY DEF MigrationInv, SchemaIsRecorded, TodoCovers, TableIsMade, LoseMigrationLock
<1>3. LockIsOwned'
  BY DeploymentAssumption DEF MigrationInv, LockIsOwned, LoseMigrationLock
<1> QED  BY <1>1, <1>2, <1>3 DEF MigrationInv

MigratorMoves(d) == Migrate(d) \/ MigratorFails(d) \/ LoseMigrationLock(d)

\* Whatever a migrator does, what is recorded stays.
LEMMA MigratorsKeep ==
  ASSUME MigrationInv, NEW d \in Deploys, MigratorMoves(d)
  PROVE  MigrationInv' /\ DOMAIN recorded \subseteq DOMAIN recorded' /\ UNCHANGED scheduler
<1>1. CASE MissTable(d)
  BY <1>1, MissKeeps DEF MissTable
<1>2. CASE CreateTable(d)
  BY <1>2, CreateKeeps DEF CreateTable
<1>3. CASE ReadApplied(d)
  BY <1>3, ReadKeeps DEF ReadApplied
<1>4. CASE LockMigrations(d)
  BY <1>4, LockKeeps DEF LockMigrations
<1>5. CASE Reread(d)
  BY <1>5, RereadKeeps DEF Reread
<1>6. CASE Apply(d)
  BY <1>6, ApplyKeeps DEF Apply
<1>7. CASE MigratorFails(d)
  BY <1>7, ExitKeeps DEF MigratorFails
<1>8. CASE LoseMigrationLock(d)
  BY <1>8, LoseKeeps DEF LoseMigrationLock
<1> QED  BY <1>1, <1>2, <1>3, <1>4, <1>5, <1>6, <1>7, <1>8 DEF MigratorMoves, Migrate

\* A migrator moves itself alone.
LEMMA MovesAlone ==
  ASSUME MigrationInv, NEW d \in Deploys, MigratorMoves(d)
  PROVE  \A e \in Deploys \ {d} : runner'[e] = runner[e]
<1>1. CASE MissTable(d)
  BY <1>1 DEF MissTable, MigrationInv, MigrationTypeOK
<1>2. CASE CreateTable(d)
  BY <1>2 DEF CreateTable, Exit, MigrationInv, MigrationTypeOK
<1>3. CASE ReadApplied(d)
  BY <1>3 DEF ReadApplied, Exit, MigrationInv, MigrationTypeOK
<1>4. CASE LockMigrations(d)
  BY <1>4 DEF LockMigrations, MigrationInv, MigrationTypeOK
<1>5. CASE Reread(d)
  BY <1>5 DEF Reread, Exit, MigrationInv, MigrationTypeOK
<1>6. CASE Apply(d)
  BY <1>6 DEF Apply, Exit, MigrationInv, MigrationTypeOK
<1>7. CASE MigratorFails(d)
  BY <1>7 DEF MigratorFails, Exit, MigrationInv, MigrationTypeOK
<1>8. CASE LoseMigrationLock(d)
  BY <1>8 DEF LoseMigrationLock
<1> QED  BY <1>1, <1>2, <1>3, <1>4, <1>5, <1>6, <1>7, <1>8 DEF MigratorMoves, Migrate

\* But for a fault, or the lock lost to somebody, it does not come to fail.
LEMMA MigratesWithoutFailing ==
  ASSUME MigrationInv, NEW d \in Deploys, Migrate(d)
  PROVE  /\ UNCHANGED <<strays, faults>>
         /\ strays = {} => runner'[d].at # "failed"
<1>1. UNCHANGED <<strays, faults>>
  BY DEF Migrate, MissTable, CreateTable, ReadApplied, LockMigrations, Reread, Apply
<1>2. CASE MissTable(d)
  BY <1>1, <1>2 DEF MissTable, MigrationInv, MigrationTypeOK
<1>3. CASE CreateTable(d)
  BY <1>1, <1>3, CreateKeeps
<1>4. CASE ReadApplied(d)
  BY <1>1, <1>4 DEF ReadApplied, Exit, MigrationInv, MigrationTypeOK
<1>5. CASE LockMigrations(d)
  BY <1>1, <1>5 DEF LockMigrations, MigrationInv, MigrationTypeOK
<1>6. CASE Reread(d)
  BY <1>1, <1>6 DEF Reread, Exit, MigrationInv, MigrationTypeOK
<1>7. CASE Apply(d)
  BY <1>1, <1>7, ApplyKeeps
<1> QED  BY <1>2, <1>3, <1>4, <1>5, <1>6, <1>7 DEF Migrate

\* Another that failed is another fault gone.
LEMMA FailuresStayCounted ==
  ASSUME MigrationInv, FailuresCounted, faults \in 0..MaxFaults,
         NEW d \in Deploys, MigratorMoves(d)
  PROVE  FailuresCounted'
<1> USE DeploymentAssumption
<1>1. \A e \in Deploys \ {d} : runner'[e] = runner[e]
  BY MovesAlone
<1>2. Failed' \subseteq Failed \cup {d}
  BY <1>1 DEF Failed
<1>3. IsFiniteSet(Failed')
  BY <1>2, FS_AddElement, FS_Subset DEF FailuresCounted
<1>4. CASE Migrate(d)
  <2>1. UNCHANGED <<strays, faults>> /\ (strays = {} => runner'[d].at # "failed")
    BY <1>4, MigratesWithoutFailing
  <2>2. ASSUME strays' = {}  PROVE Cardinality(Failed') <= MaxFaults - faults'
    <3>1. Failed' \in SUBSET Failed
      BY <1>1, <2>1, <2>2 DEF Failed
    <3>2. Cardinality(Failed') <= Cardinality(Failed)
      BY <3>1, FS_Subset DEF FailuresCounted
    <3>3. Cardinality(Failed) \in Nat /\ Cardinality(Failed') \in Nat
      BY <1>3, FS_CardinalityType DEF FailuresCounted
    <3> QED  BY <2>1, <2>2, <3>2, <3>3 DEF FailuresCounted
  <2> QED  BY <1>3, <2>2 DEF FailuresCounted
<1>5. CASE MigratorFails(d)
  <2>1. Failed' = Failed \cup {d} /\ d \notin Failed
    BY <1>1, <1>5 DEF Failed, MigratorFails, Exit, MigrationInv, MigrationTypeOK, Busy
  <2>2. Cardinality(Failed') = Cardinality(Failed) + 1
    BY <2>1, FS_AddElement DEF FailuresCounted
  <2>3. Cardinality(Failed) \in Nat
    BY FS_CardinalityType DEF FailuresCounted
  <2>4. faults' = faults - 1 /\ strays' = strays
    BY <1>5 DEF MigratorFails
  <2> QED  BY <1>3, <2>2, <2>3, <2>4 DEF FailuresCounted
<1>6. CASE LoseMigrationLock(d)
  <2>1. strays' # {}
    BY <1>6 DEF LoseMigrationLock
  <2> QED  BY <1>3, <2>1 DEF FailuresCounted
<1> QED  BY <1>4, <1>5, <1>6 DEF MigratorMoves

-----------------------------------------------------------------------------
(* Replicas and their jobs.                                                *)

\* What a replica returns from, it was the owner of, and so nobody else loses a lock.
LEMMA ReturnKeeps ==
  ASSUME SchedulerInv, NEW r \in Replicas, chain[r] # <<>>, Return(r),
         UNCHANGED <<replica, clock, ranOn, kept>>
  PROVE  SchedulerInv'
<1>1. Tail(chain[r]) \in Seq(Jobs)
  BY DEF SchedulerInv, SchedulerTypeOK
<1>2. 0 \in 0..LastDay
  BY DeploymentAssumption
<1>3. chain' \in [Replicas -> Seq(Jobs)]
  BY <1>1 DEF Return, SchedulerInv, SchedulerTypeOK
<1>4. claimed' \in [Replicas -> 0..LastDay]
  BY <1>2 DEF Return, SchedulerInv, SchedulerTypeOK
<1>5. jobLock' \in [Jobs -> Replicas \cup {None}]
  BY DEF Return, Without, SchedulerInv, SchedulerTypeOK
<1>6. SchedulerTypeOK'
  BY <1>3, <1>4, <1>5 DEF Return, SchedulerInv, SchedulerTypeOK
<1>7. ASSUME NEW s \in Replicas, step'[s] # "none"
      PROVE  chain'[s] # <<>> /\ (~severed'[s] => jobLock'[Head(chain'[s])] = s)
  <2>1. s # r /\ step[s] # "none" /\ chain'[s] = chain[s] /\ severed'[s] = severed[s]
    BY <1>7 DEF Return, SchedulerInv, SchedulerTypeOK
  <2>2. chain[s] # <<>> /\ chain[s] \in Seq(Jobs)
    BY <2>1 DEF SchedulerInv, SchedulerTypeOK, JobIsLocked
  <2>3. Head(chain[s]) \in Jobs
    BY <2>2
  <2>4. ~severed[s] => jobLock[Head(chain[s])] = s
    BY <2>1 DEF SchedulerInv, JobIsLocked
  <2> QED  BY <2>1, <2>2, <2>3, <2>4 DEF Return, Without
<1>8. JobIsLocked'
  BY <1>7 DEF JobIsLocked
<1>9. KeptIsMarked'
  BY DEF SchedulerInv, KeptIsMarked
<1> QED  BY <1>6, <1>8, <1>9 DEF SchedulerInv

LEMMA RunLockedKeeps ==
  ASSUME SchedulerInv, NEW r \in Replicas, RunLocked(r)
  PROVE  SchedulerInv'
<1> DEFINE job == Head(chain[r])
<1>1. chain[r] # <<>> /\ step[r] = "none" /\ UNCHANGED <<replica, clock, ranOn, kept>>
  BY DEF RunLocked
<1>2. CASE jobLock[job] # None
  BY <1>1, <1>2, ReturnKeeps DEF RunLocked
<1>3. CASE jobLock[job] = None
  <2>1. /\ jobLock' = [jobLock EXCEPT ![job] = r]
        /\ step' = [step EXCEPT ![r] = IF job = Daily THEN "gate" ELSE "running"]
        /\ UNCHANGED <<chain, severed, claimed>>
    BY <1>3 DEF RunLocked
  <2>2. job \in Jobs
    BY <1>1 DEF SchedulerInv, SchedulerTypeOK
  <2>3. SchedulerTypeOK'
    BY <1>1, <2>1, <2>2 DEF SchedulerInv, SchedulerTypeOK
  <2>4. ASSUME NEW s \in Replicas, step'[s] # "none"
        PROVE  chain'[s] # <<>> /\ (~severed'[s] => jobLock'[Head(chain'[s])] = s)
    <3>1. CASE s = r
      BY <1>1, <2>1, <2>2, <3>1 DEF SchedulerInv, SchedulerTypeOK
    <3>2. CASE s # r
      <4>1. step[s] # "none"
        BY <2>1, <2>4, <3>2 DEF SchedulerInv, SchedulerTypeOK
      <4>2. chain[s] # <<>> /\ (~severed[s] => jobLock[Head(chain[s])] = s)
        BY <4>1 DEF SchedulerInv, JobIsLocked
      <4>3. ~severed[s] => Head(chain[s]) # job
        BY <1>3, <4>2, DeploymentAssumption
      <4>4. chain[s] \in Seq(Jobs)
        BY DEF SchedulerInv, SchedulerTypeOK
      <4>5. Head(chain[s]) \in Jobs
        BY <4>2, <4>4
      <4> QED  BY <2>1, <4>2, <4>3, <4>5 DEF SchedulerInv, SchedulerTypeOK
    <3> QED  BY <3>1, <3>2
  <2>5. JobIsLocked'
    BY <2>4 DEF JobIsLocked
  <2>6. KeptIsMarked'
    BY <1>1 DEF SchedulerInv, KeptIsMarked
  <2> QED  BY <2>3, <2>5, <2>6 DEF SchedulerInv
<1> QED  BY <1>2, <1>3

\* What is being run stays locked when its place moves on.
LEMMA MovesOn ==
  ASSUME SchedulerInv, NEW r \in Replicas, step[r] # "none",
         NEW at \in {"gate", "claiming", "running"}, step' = [step EXCEPT ![r] = at],
         UNCHANGED <<replica, chain, severed, jobLock>>
  PROVE  JobIsLocked' /\ step' \in [Replicas -> {"none", "gate", "claiming", "running"}]
<1>1. \A s \in Replicas : step'[s] # "none" => step[s] # "none"
  BY DEF SchedulerInv, SchedulerTypeOK
<1> QED  BY <1>1 DEF SchedulerInv, SchedulerTypeOK, JobIsLocked

LEMMA ReadClockKeeps ==
  ASSUME SchedulerInv, NEW r \in Replicas, ReadClock(r)
  PROVE  SchedulerInv'
<1>1. step[r] = "gate" /\ chain[r] # <<>> /\ UNCHANGED <<replica, clock, ranOn, kept>>
  BY DEF ReadClock, SchedulerInv, JobIsLocked
<1>2. CASE ~clock.open
  BY <1>1, <1>2, ReturnKeeps DEF ReadClock
<1>3. CASE clock.open
  <2>1. /\ claimed' = [claimed EXCEPT ![r] = clock.day]
        /\ step' = [step EXCEPT ![r] = "claiming"]
        /\ UNCHANGED <<chain, severed, jobLock>>
    BY <1>3 DEF ReadClock
  <2>2. clock.day \in 0..LastDay
    BY DEF SchedulerInv, SchedulerTypeOK
  <2>3. JobIsLocked' /\ step' \in [Replicas -> {"none", "gate", "claiming", "running"}]
    BY <1>1, <2>1, MovesOn
  <2>4. SchedulerTypeOK'
    BY <1>1, <2>1, <2>2, <2>3 DEF SchedulerInv, SchedulerTypeOK
  <2>5. KeptIsMarked'
    BY <1>1 DEF SchedulerInv, KeptIsMarked
  <2> QED  BY <2>3, <2>4, <2>5 DEF SchedulerInv
<1> QED  BY <1>2, <1>3

\* The day's row is there from the first time the job is begun, and none begins it again.
LEMMA ClaimDayKeeps ==
  ASSUME SchedulerInv, NEW r \in Replicas, ClaimDay(r)
  PROVE  SchedulerInv'
<1>1. step[r] = "claiming" /\ chain[r] # <<>> /\ UNCHANGED <<replica, clock>>
  BY DEF ClaimDay, SchedulerInv, JobIsLocked
<1>2. CASE claimed[r] \in ranOn
  BY <1>1, <1>2, ReturnKeeps DEF ClaimDay
<1>3. CASE claimed[r] \notin ranOn
  <2>1. /\ ranOn' = ranOn \cup {claimed[r]}
        /\ kept' = [kept EXCEPT ![claimed[r]] = @ + 1]
        /\ step' = [step EXCEPT ![r] = "running"]
        /\ UNCHANGED <<chain, severed, jobLock, claimed>>
    BY <1>3 DEF ClaimDay
  <2>2. claimed[r] \in 0..LastDay /\ kept[claimed[r]] = 0
    BY <1>3 DEF SchedulerInv, SchedulerTypeOK, KeptIsMarked
  <2>3. JobIsLocked' /\ step' \in [Replicas -> {"none", "gate", "claiming", "running"}]
    BY <1>1, <2>1, MovesOn
  <2>4. SchedulerTypeOK'
    <3>1. kept' \in [0..LastDay -> Nat]
      BY <2>1, <2>2 DEF SchedulerInv, SchedulerTypeOK
    <3>2. ranOn' \subseteq 0..LastDay
      BY <2>1, <2>2 DEF SchedulerInv, SchedulerTypeOK
    <3> QED  BY <1>1, <2>1, <2>3, <3>1, <3>2 DEF SchedulerInv, SchedulerTypeOK
  <2>5. KeptIsMarked'
    BY <2>1, <2>2 DEF SchedulerInv, SchedulerTypeOK, KeptIsMarked
  <2> QED  BY <2>3, <2>4, <2>5 DEF SchedulerInv
<1> QED  BY <1>2, <1>3

LEMMA JobEndsKeeps ==
  ASSUME SchedulerInv, NEW r \in Replicas, JobEnds(r)
  PROVE  SchedulerInv'
<1>1. chain[r] # <<>>
  BY DEF JobEnds, SchedulerInv, JobIsLocked
<1> QED  BY <1>1, ReturnKeeps DEF JobEnds
\* A tick goes behind what waits, and what is being run stays at the head.
LEMMA TickKeeps ==
  ASSUME SchedulerInv, NEW r \in Replicas, NEW job \in Jobs, Tick(r, job)
  PROVE  SchedulerInv'
<1>1. /\ chain' = [chain EXCEPT ![r] = Append(@, job)]
      /\ UNCHANGED <<replica, step, severed, jobLock, clock, claimed, ranOn, kept>>
  BY DEF Tick
<1>2. SchedulerTypeOK'
  <2>1. Append(chain[r], job) \in Seq(Jobs)
    BY DEF SchedulerInv, SchedulerTypeOK
  <2> QED  BY <1>1, <2>1 DEF SchedulerInv, SchedulerTypeOK
<1>3. ASSUME NEW s \in Replicas, chain[s] # <<>>
      PROVE  chain'[s] # <<>> /\ Head(chain'[s]) = Head(chain[s])
  <2>1. chain[s] \in Seq(Jobs)
    BY DEF SchedulerInv, SchedulerTypeOK
  <2>2. Append(chain[s], job) # <<>> /\ Head(Append(chain[s], job)) = Head(chain[s])
    BY <1>3, <2>1
  <2> QED  BY <1>1, <1>3, <2>2 DEF SchedulerInv, SchedulerTypeOK
<1>4. JobIsLocked'
  BY <1>1, <1>3 DEF SchedulerInv, JobIsLocked
<1>5. KeptIsMarked'
  BY <1>1 DEF SchedulerInv, KeptIsMarked
<1> QED  BY <1>2, <1>4, <1>5 DEF SchedulerInv

\* The locks of a lost connection, or of a dead process, were of that replica alone.
LEMMA FreedKeeps ==
  ASSUME SchedulerInv, NEW r \in Replicas, Sever(r) \/ Die(r)
  PROVE  SchedulerInv'
<1>1. jobLock' = Without(r) /\ UNCHANGED <<clock, ranOn, kept>>
  BY DEF Sever, Die
<1>2. jobLock' \in [Jobs -> Replicas \cup {None}]
  BY <1>1 DEF Without, SchedulerInv, SchedulerTypeOK
<1>3. SchedulerTypeOK'
  <2>1. CASE Sever(r)
    BY <1>1, <1>2, <2>1 DEF Sever, SchedulerInv, SchedulerTypeOK
  <2>2. CASE Die(r)
    <3>1. 0 \in 0..LastDay /\ <<>> \in Seq(Jobs)
      BY DeploymentAssumption
    <3> QED  BY <1>1, <1>2, <2>2, <3>1 DEF Die, SchedulerInv, SchedulerTypeOK
  <2> QED  BY <2>1, <2>2
<1>4. ASSUME NEW s \in Replicas, step'[s] # "none"
      PROVE  chain'[s] # <<>> /\ (~severed'[s] => jobLock'[Head(chain'[s])] = s)
  <2>1. step[s] # "none" /\ chain'[s] = chain[s] /\ (~severed'[s] => ~severed[s] /\ s # r)
    BY <1>4 DEF Sever, Die, SchedulerInv, SchedulerTypeOK
  <2>2. chain[s] # <<>> /\ (~severed[s] => jobLock[Head(chain[s])] = s)
    BY <2>1 DEF SchedulerInv, JobIsLocked
  <2>3. Head(chain[s]) \in Jobs
    <3>1. chain[s] \in Seq(Jobs)
      BY DEF SchedulerInv, SchedulerTypeOK
    <3> QED  BY <2>2, <3>1
  <2> QED  BY <1>1, <2>1, <2>2, <2>3 DEF Without
<1>5. JobIsLocked'
  BY <1>4 DEF JobIsLocked
<1>6. KeptIsMarked'
  BY <1>1 DEF SchedulerInv, KeptIsMarked
<1> QED  BY <1>3, <1>5, <1>6 DEF SchedulerInv

LEMMA ServerKeeps ==
  ASSUME SchedulerInv, NEW r \in Replicas, Serve(r) \/ Stop(r) \/ Stopped(r)
  PROVE  SchedulerInv'
<1>1. UNCHANGED <<chain, step, severed, jobLock, clock, claimed, ranOn, kept>>
  BY DEF Serve, Stop, Stopped
<1>2. SchedulerTypeOK'
  BY <1>1 DEF Serve, Stop, Stopped, SchedulerInv, SchedulerTypeOK
<1>3. JobIsLocked' /\ KeptIsMarked'
  BY <1>1 DEF SchedulerInv, JobIsLocked, KeptIsMarked
<1> QED
  BY <1>2, <1>3 DEF SchedulerInv

LEMMA ClockKeeps ==
  ASSUME SchedulerInv, ClockMoves
  PROVE  SchedulerInv'
<1>1. UNCHANGED <<replica, chain, step, severed, jobLock, claimed, ranOn, kept>>
  BY DEF ClockMoves
<1>2. clock' \in [day : 0..LastDay, open : BOOLEAN]
  <2>1. clock.day \in 0..LastDay /\ clock \in [day : 0..LastDay, open : BOOLEAN]
    BY DEF SchedulerInv, SchedulerTypeOK
  <2>2. CASE clock' = [clock EXCEPT !.open = TRUE]
    BY <2>1, <2>2
  <2>3. CASE clock.day < LastDay /\ clock' = [day |-> clock.day + 1, open |-> FALSE]
    <3>1. clock.day + 1 \in 0..LastDay
      BY <2>1, <2>3, DeploymentAssumption
    <3> QED  BY <2>3, <3>1
  <2> QED  BY <2>2, <2>3 DEF ClockMoves
<1> QED  BY <1>1, <1>2 DEF SchedulerInv, SchedulerTypeOK, JobIsLocked, KeptIsMarked

\* Who was not up, and what was recorded, is all that the invariant of serving rests on.
LEMMA ServesStays ==
  ASSUME ServesInv, DOMAIN recorded \subseteq DOMAIN recorded',
         \A r \in Replicas : replica'[r] # "down" => replica[r] # "down"
  PROVE  ServesInv'
<1> SUFFICES ASSUME NEW r \in Replicas, replica'[r] # "down"
             PROVE  Proven \subseteq DOMAIN recorded'
  BY DEF ServesInv
<1>1. Proven \subseteq DOMAIN recorded
  BY DEF ServesInv
<1> QED  BY <1>1

\* A replica comes up only on what was looked for, and nothing takes that away.
LEMMA ReplicasKeep ==
  ASSUME SchedulerInv, ServesInv, NEW r \in Replicas,
         \/ Serve(r) \/ Stop(r) \/ Stopped(r) \/ Die(r)
         \/ \E job \in Jobs : Tick(r, job)
         \/ Work(r) \/ Sever(r)
  PROVE  SchedulerInv' /\ ServesInv' /\ UNCHANGED migration
<1>1. SchedulerInv'
  BY ServerKeeps, FreedKeeps, TickKeeps, RunLockedKeeps, ReadClockKeeps, ClaimDayKeeps, JobEndsKeeps DEF Work
<1>2. UNCHANGED migration
  BY DEF Serve, Stop, Stopped, Die, Tick, Work, RunLocked, ReadClock, ClaimDay, JobEnds, Sever
<1>3. DOMAIN recorded \subseteq DOMAIN recorded'
  BY <1>2 DEF migration
<1>4. ServesInv'
  <2>1. CASE Serve(r)
    <3>1. Proven \subseteq DOMAIN recorded'
      BY <1>3, <2>1 DEF Serve
    <3> QED  BY <3>1 DEF ServesInv
  <2>2. CASE Stop(r) \/ Stopped(r) \/ Die(r)
    <3>1. \A s \in Replicas : replica'[s] # "down" => replica[s] # "down"
      BY <2>2 DEF Stop, Stopped, Die, SchedulerInv, SchedulerTypeOK
    <3> QED  BY <1>3, <3>1, ServesStays
  <2>3. CASE (\E job \in Jobs : Tick(r, job)) \/ Work(r) \/ Sever(r)
    <3>1. replica' = replica
      BY <2>3 DEF Tick, Work, RunLocked, ReadClock, ClaimDay, JobEnds, Sever
    <3> QED  BY <1>3, <3>1, ServesStays
  <2> QED  BY <2>1, <2>2, <2>3
<1> QED  BY <1>1, <1>2, <1>4

-----------------------------------------------------------------------------
LEMMA InitInv == Init => Inv
<1> SUFFICES ASSUME Init  PROVE Inv
  OBVIOUS
<1>1. PICK applied \in 0..Migrations : recorded = [n \in 1..applied |-> "as released"]
  BY DEF Init
<1>2. DOMAIN recorded = 1..applied /\ 1..applied \subseteq Names /\ applied \in Nat
  <2>1. applied \in Nat /\ applied <= Migrations
    BY DeploymentAssumption
  <2>2. 1..applied \subseteq 1..Migrations
    BY <2>1, DeploymentAssumption
  <2> QED  BY <1>1, <2>1, <2>2 DEF Names
<1>3. schema \in Seq(Names \X Image) /\ DOMAIN schema = DOMAIN recorded
  <2>1. schema = [n \in 1..applied |-> <<n, recorded[n]>>]
    BY <1>2 DEF Init
  <2>2. \A n \in 1..applied : <<n, recorded[n]>> \in Names \X Image
    BY <1>1, <1>2 DEF Image
  <2> QED  BY <1>2, <2>1, <2>2
<1>4. MigrationTypeOK
  BY <1>1, <1>2, <1>3, PlacesAre DEF Init, MigrationTypeOK, Image
<1>5. SchemaIsRecorded
  BY <1>2, <1>3 DEF Init, SchemaIsRecorded
<1>6. LockIsOwned /\ TodoCovers /\ TableIsMade
  BY DeploymentAssumption DEF Init, LockIsOwned, TodoCovers, TableIsMade
<1>7. ServesInv
  BY DEF Init, ServesInv
<1>8. SchedulerInv
  <2>1. 0 \in 0..LastDay
    BY DeploymentAssumption
  <2>2. /\ replica \in [Replicas -> {"down", "serving", "stopping"}]
        /\ step \in [Replicas -> {"none", "gate", "claiming", "running"}]
        /\ severed \in [Replicas -> BOOLEAN]
    BY DEF Init
  <2>3. /\ jobLock \in [Jobs -> Replicas \cup {None}]
        /\ clock \in [day : 0..LastDay, open : BOOLEAN]
        /\ claimed \in [Replicas -> 0..LastDay]
        /\ ranOn \subseteq 0..LastDay /\ kept \in [0..LastDay -> Nat]
    BY <2>1 DEF Init
  <2>4. chain \in [Replicas -> Seq(Jobs)]
    <3>1. chain = [r \in Replicas |-> <<>>]
      BY Zenon DEF Init
    <3>2. <<>> \in Seq(Jobs)
      OBVIOUS
    <3> QED  BY <3>1, <3>2
  <2>5. JobIsLocked /\ KeptIsMarked
    BY DEF Init, JobIsLocked, KeptIsMarked
  <2> QED  BY <2>2, <2>3, <2>4, <2>5 DEF SchedulerInv, SchedulerTypeOK
<1>9. faults \in 0..MaxFaults
  <2>1. faults = MaxFaults /\ MaxFaults \in Nat
    BY DeploymentAssumption DEF Init
  <2> QED  BY <2>1
<1>10. FailuresCounted
  <2>1. Failed = {}
    BY DEF Init, Failed
  <2>2. faults = MaxFaults
    BY DEF Init
  <2> QED  BY <2>1, <2>2, FS_EmptySet, DeploymentAssumption DEF FailuresCounted
<1> QED  BY <1>4, <1>5, <1>6, <1>7, <1>8, <1>9, <1>10 DEF Inv, MigrationInv

LEMMA NextInv == Inv /\ [Next]_vars => Inv'
<1> SUFFICES ASSUME Inv, [Next]_vars  PROVE Inv'
  OBVIOUS
<1>1. ASSUME NEW d \in Deploys, MigratorMoves(d)
      PROVE  Inv'
  <2>1. MigrationInv' /\ DOMAIN recorded \subseteq DOMAIN recorded' /\ UNCHANGED scheduler
    BY <1>1, MigratorsKeep DEF Inv
  <2>2. ServesInv'
    BY <2>1, ServesStays DEF Inv, scheduler
  <2>3. SchedulerInv'
    BY <2>1 DEF Inv, scheduler, SchedulerInv, SchedulerTypeOK, JobIsLocked, KeptIsMarked
  <2>4. faults' \in 0..MaxFaults
    <3>1. Migrate(d) => faults' = faults
      BY MigratesWithoutFailing DEF Inv
    <3> QED  BY <1>1, <3>1, DeploymentAssumption DEF Inv, MigratorMoves, MigratorFails, LoseMigrationLock
  <2>5. FailuresCounted'
    BY <1>1, FailuresStayCounted DEF Inv
  <2> QED  BY <2>1, <2>2, <2>3, <2>4, <2>5 DEF Inv
<1>2. ASSUME NEW r \in Replicas,
             \/ Serve(r) \/ Stop(r) \/ Stopped(r) \/ Die(r)
             \/ \E job \in Jobs : Tick(r, job)
             \/ Work(r) \/ Sever(r)
      PROVE  Inv'
  <2>1. SchedulerInv' /\ ServesInv' /\ UNCHANGED migration
    BY <1>2, ReplicasKeep DEF Inv
  <2>2. MigrationInv'
    BY <2>1 DEF Inv, migration, MigrationInv, MigrationTypeOK, SchemaIsRecorded, TodoCovers, LockIsOwned, TableIsMade
  <2>3. faults' \in 0..MaxFaults
    BY <1>2, DeploymentAssumption
    DEF Inv, Serve, Stop, Stopped, Die, Tick, Work, RunLocked, ReadClock, ClaimDay, JobEnds, Sever
  <2>4. FailuresCounted'
    <3>1. faults' <= faults
      BY <1>2, DeploymentAssumption
      DEF Inv, Serve, Stop, Stopped, Die, Tick, Work, RunLocked, ReadClock, ClaimDay, JobEnds, Sever
    <3>2. Failed' = Failed /\ strays' = strays
      BY <2>1 DEF Failed, migration
    <3>3. Cardinality(Failed) \in Nat
      BY FS_CardinalityType DEF Inv, FailuresCounted
    <3> QED  BY <2>3, <3>1, <3>2, <3>3, DeploymentAssumption DEF Inv, FailuresCounted
  <2> QED  BY <2>1, <2>2, <2>3, <2>4 DEF Inv
<1>3. CASE ClockMoves
  <2>1. SchedulerInv'
    BY <1>3, ClockKeeps DEF Inv
  <2>2. UNCHANGED <<migration, replica, faults>>
    BY <1>3 DEF ClockMoves
  <2> QED  BY <2>1, <2>2
    DEF Inv, FailuresCounted, Failed, ServesInv, migration, MigrationInv, MigrationTypeOK, SchemaIsRecorded,
        TodoCovers, LockIsOwned, TableIsMade
<1>4. CASE UNCHANGED vars
  BY <1>4 DEF vars, migration, scheduler, Inv, FailuresCounted, Failed, ServesInv, MigrationInv, MigrationTypeOK, SchemaIsRecorded,
              TodoCovers, LockIsOwned, TableIsMade, SchedulerInv, SchedulerTypeOK, JobIsLocked, KeptIsMarked
<1> QED  BY <1>1, <1>2, <1>3, <1>4 DEF Next, MigratorMoves

\* Inv holds of every release.
LEMMA Invariance == Spec => []Inv
<1> QED  BY InitInv, NextInv, PTL DEF Spec

-----------------------------------------------------------------------------
\* Every variable keeps its type.
THEOREM TypeCorrect == Spec => []DeploymentTypeOK
<1>1. Inv => DeploymentTypeOK
  BY DEF Inv, MigrationInv, MigrationTypeOK, SchedulerInv, SchedulerTypeOK, DeploymentTypeOK
<1> QED  BY Invariance, <1>1, PTL

\* The schema is the first migrations, once each and in order, and its table
\* says so: migrate.mjs applies each in one transaction with its row, behind a lock.
THEOREM SchemaHolds == Spec => []SchemaIsRecorded
<1>1. Inv => SchemaIsRecorded
  BY DEF Inv, MigrationInv
<1> QED  BY Invariance, <1>1, PTL

\* While nobody has lost the lock, migrators that race behind it do not fail: each
\* that failed had a fault under it, for what one still has to apply there is what
\* nobody has recorded.  And who fails on schema_migrations, outside the lock, has
\* another beside it that made the table and went on.
THEOREM RacesConfined == Spec => []RacesAtTheTableOnly
<1>1. Inv => (strays = {} => Cardinality({d \in Deploys : runner[d].at = "failed"}) <= MaxFaults - faults)
  BY DEF Inv, FailuresCounted, Failed
<1>2. ASSUME Inv, NEW d \in Deploys, runner[d].at = "collided"
      PROVE  \E e \in Deploys : runner[e].at \notin {"released", "creating", "collided"}
  BY <1>2 DEF Inv, MigrationInv, TableIsMade, AtTable
<1>3. Inv => RacesAtTheTableOnly
  BY <1>1, <1>2 DEF RacesAtTheTableOnly
<1> QED  BY Invariance, <1>3, PTL

\* verifyDatabase looks for what the last migration makes, and since they are
\* applied in order a replica that serves has them all.
THEOREM ServesHolds == Spec => []ServesOnWholeSchema
<1>1. ASSUME Inv, NEW r \in Replicas, replica[r] # "down"
      PROVE  DOMAIN recorded = Names
  <2>1. Migrations \in DOMAIN recorded
    BY <1>1, DeploymentAssumption DEF Inv, ServesInv
  <2>2. DOMAIN recorded = 1..Len(schema) /\ Len(schema) \in Nat /\ DOMAIN recorded \subseteq 1..Migrations
    BY <1>1 DEF Inv, MigrationInv, MigrationTypeOK, SchemaIsRecorded, Names
  <2>3. Len(schema) = Migrations
    <3>1. Migrations \in Nat /\ Migrations <= Len(schema)
      BY <2>1, <2>2, DeploymentAssumption
    <3>2. Len(schema) > 0 /\ Len(schema) \in 1..Len(schema)
      BY <2>2, <3>1, DeploymentAssumption
    <3>3. Len(schema) \in 1..Migrations
      BY <2>2, <3>2
    <3> QED  BY <2>2, <3>1, <3>3
  <2> QED  BY <2>2, <2>3 DEF Names
<1>2. Inv => ServesOnWholeSchema
  BY <1>1 DEF ServesOnWholeSchema
<1> QED  BY Invariance, <1>2, PTL

\* However many replicas tick, stop and die, a job runs in one of those that
\* have their connection, and the daily one is begun once a day.
THEOREM RunsOnce == Spec => []EachRunsOnce
<1>1. ASSUME Inv, NEW job \in Jobs, NEW r \in Replicas, NEW s \in Replicas,
             Runs(r, job), Runs(s, job), ~severed[r], ~severed[s]
      PROVE  r = s
  BY <1>1 DEF Runs, Inv, SchedulerInv, JobIsLocked
<1>2. ASSUME Inv, NEW day \in 0..LastDay
      PROVE  kept[day] <= 1
  BY <1>2 DEF Inv, SchedulerInv, KeptIsMarked
<1>3. Inv => EachRunsOnce
  BY <1>1, <1>2 DEF EachRunsOnce
<1> QED  BY Invariance, <1>3, PTL
===============================================================================
