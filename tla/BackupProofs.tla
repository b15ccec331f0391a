---------------------------- MODULE BackupProofs ----------------------------
(***************************************************************************)
(* Theorems of Backup, for every number of consumers, requests and faults  *)
(* and every set of retention counts.  The inductive invariant has three   *)
(* layers:                                                                 *)
(*   TypeOK     types, and a consumer between deletion and marker holds an *)
(*              attempt it still has to handle;                            *)
(*   OwnInv     one consumer runs an attempt, and what it is about to      *)
(*              record as a success is in storage;                         *)
(*   RetainInv  what a retention run has picked, retired or deleted has as *)
(*              many newer successful attempts as some retention count.    *)
(***************************************************************************)
EXTENDS Backup, FiniteSetTheorems, TLAPS

\* A boolean column may take any boolean.
LEMMA RowWith ==
  ASSUME NEW row \in Rows, NEW b \in BOOLEAN
  PROVE  [row EXCEPT !.complete = b] \in Rows
  BY DEF Rows

LEMMA ConfigWith ==
  ASSUME NEW c \in Configs, NEW n \in Nat, NEW b \in BOOLEAN
  PROVE  [c EXCEPT !.failures = n, !.suspended = b] \in Configs
  BY DEF Configs

\* The state after the target is configured is well typed.
LEMMA TypeInit == Init => TypeOK
<1> SUFFICES ASSUME Init PROVE TypeOK
  OBVIOUS
<1>1. config \in Configs
  BY BackupAssumption DEF Init, Configs
<1>2. job \in [Jobs -> JobRows] /\ \A j \in Jobs : job[j].attempts < MaxAttempts
  BY BackupAssumption DEF Init, JobRows
<1>3. attempt \in [Refs -> Rows]
  BY DEF Init, Rows
<1> QED
  BY <1>1, <1>2, <1>3, BackupAssumption DEF Init, TypeOK

\* What the steps of runBackup write to attempts, storage and labels is well typed.
LEMMA TypeStep == TypeOK /\ [Next]_vars => TypeOK'
<1> SUFFICES ASSUME TypeOK, [Next]_vars PROVE TypeOK'
  OBVIOUS
<1> USE DEF TypeOK, Configs, Goto, UseFault, UseEdit, schedule, local, retention
<1>1. ASSUME NEW k \in Retentions, ConfigureTarget(k) PROVE TypeOK'
  BY <1>1, BackupAssumption DEF ConfigureTarget
<1>2. CASE TestConnection
  BY <1>2 DEF TestConnection
<1>3. ASSUME NEW e \in BOOLEAN, NEW k \in Retentions, SetSchedule(e, k) PROVE TypeOK'
  <2>1. config' \in Configs
    BY <1>3 DEF SetSchedule
  <2> QED
    BY <1>3, <2>1, BackupAssumption DEF SetSchedule
<1>4. ASSUME NEW m \in Manual, RequestBackup(m) PROVE TypeOK'
  BY <1>4, BackupAssumption DEF RequestBackup, JobRows, Jobs
<1>5. CASE TimePasses
  BY <1>5 DEF TimePasses
<1>6. CASE SelectDue
  BY <1>6 DEF SelectDue
<1>7. CASE RecordMissed
  BY <1>7 DEF RecordMissed
<1>8. CASE SendScheduled
  <2>1. PICK n \in Firings :
          job' = [job EXCEPT ![n].status = "PENDING", ![n].window = window]
          /\ job[n].status = "NONE"
    BY <1>8 DEF SendScheduled
  <2>2. n \in Jobs
    BY DEF Jobs
  <2>3. job' \in [Jobs -> JobRows]
    <3>1. job[n] \in JobRows /\ window \in Nat
      BY <2>2
    <3>2. [job[n] EXCEPT !.status = "PENDING", !.window = window] \in JobRows
      BY <3>1 DEF JobRows
    <3>3. job' = [job EXCEPT ![n] = [job[n] EXCEPT !.status = "PENDING", !.window = window]]
      BY <2>1, <2>2
    <3> QED
      BY <2>2, <3>2, <3>3
  <2>4. \A i \in Jobs : job'[i].status \in {"NONE", "PENDING"} => job'[i].attempts < MaxAttempts
    <3>1. \A i \in Jobs : job'[i].attempts = job[i].attempts
      BY <2>1, <2>2 DEF JobRows
    <3>2. \A i \in Jobs : i # n => job'[i] = job[i]
      BY <2>1, <2>2
    <3> QED
      BY <2>1, <3>1, <3>2
  <2> QED
    BY <1>8, <2>3, <2>4 DEF SendScheduled
<1>9. CASE AdvanceWindow
  BY <1>9 DEF AdvanceWindow
<1>10. CASE SchedulerStops
  BY <1>10, BackupAssumption DEF SchedulerStops
<1>11. ASSUME NEW j \in Jobs, LeaseExpires(j) PROVE TypeOK'
  BY <1>11, BackupAssumption DEF LeaseExpires, JobRows
<1>12. ASSUME NEW w \in Workers, NEW j \in Jobs, Claim(w, j) PROVE TypeOK'
  <2>1. (IF j \in Manual THEN <<j, 0>> ELSE <<j, job[j].attempts + 1>>) \in Refs
    <3>1. job[j].attempts + 1 \in 1..MaxAttempts
      BY <1>12, BackupAssumption DEF Claim, JobRows
    <3> QED
      BY <3>1 DEF Refs, Jobs
  <2>2. job' \in [Jobs -> JobRows]
        /\ \A i \in Jobs : job'[i].status \in {"NONE", "PENDING"} => job'[i].attempts < MaxAttempts
    BY <1>12, BackupAssumption DEF Claim, JobRows
  <2> QED
    BY <1>12, <2>1, <2>2, BackupAssumption DEF Claim, Running, Retaining
<1>13. ASSUME NEW w \in Workers, ReadConfig(w) PROVE TypeOK'
  BY <1>13, BackupAssumption DEF ReadConfig, Running, Retaining
<1>14. ASSUME NEW w \in Workers, NEW s \in {"STARTED", "FAILED"}, Insert(w, s), pc[w] # "idle"
       PROVE  attempt' \in [Refs -> Rows]
  BY <1>14, BackupAssumption DEF Insert, Rows
<1>15. ASSUME NEW w \in Workers, Refuse(w) PROVE TypeOK'
  BY <1>14, <1>15 DEF Refuse, Running, Retaining
<1>16. ASSUME NEW w \in Workers, InsertAttempt(w) PROVE TypeOK'
  BY <1>14, <1>16 DEF InsertAttempt, Running, Retaining
<1>17. ASSUME NEW w \in Workers, Upload(w) PROVE TypeOK'
  BY <1>17 DEF Upload, Running, Retaining
<1>18. ASSUME NEW w \in Workers, Commit(w) PROVE TypeOK'
  BY <1>18 DEF Commit, Rows, Running, Retaining
<1>19. ASSUME NEW w \in Workers, FailAttempt(w) PROVE TypeOK'
  <2>1. config' \in Configs
    <3> DEFINE n == config.failures + 1
               b == IF config.failures + 1 >= MaxFailures THEN TRUE ELSE config.suspended
    <3>1. config \in Configs
      OBVIOUS
    <3>2. config.failures \in Nat /\ config.suspended \in BOOLEAN
      BY <3>1 DEF Configs
    <3>3. n \in Nat
      BY <3>2
    <3>4. b \in BOOLEAN
      BY <3>2, Zenon
    <3>5. [config EXCEPT !.failures = n, !.suspended = b] \in Configs
      BY <3>1, <3>3, <3>4, ConfigWith, Zenon
    <3> QED
      BY <1>19, <3>1, <3>5, Zenon DEF FailAttempt
  <2>2. attempt' \in [Refs -> Rows]
    <3>1. attempt \in [Refs -> Rows]
      OBVIOUS
    <3>2. \A r \in Rows : [r EXCEPT !.status = "FAILED"] \in Rows
      BY DEF Rows
    <3>3. attempt' = attempt \/ attempt' = [attempt EXCEPT ![on[w]] = [@ EXCEPT !.status = "FAILED"]]
      BY <1>19 DEF FailAttempt
    <3> QED
      BY <3>1, <3>2, <3>3
  <2> QED
    BY <1>19, <2>1, <2>2 DEF FailAttempt, Running, Retaining
<1>20. ASSUME NEW w \in Workers, SelectSurplus(w) PROVE TypeOK'
  BY <1>20 DEF SelectSurplus, Surplus, Live, Succeeded, Running, Retaining
<1>21. ASSUME NEW w \in Workers, DeleteObject(w) PROVE TypeOK'
  BY <1>21, BackupAssumption DEF DeleteObject, Foremost, Running, Retaining
<1>22. ASSUME NEW w \in Workers, NEW r, SkipObject(w, r), pc[w] # "idle",
              faults' \in 0..MaxFaults
       PROVE  TypeOK'
  BY <1>22 DEF SkipObject, Running, Retaining
<1>23. ASSUME NEW w \in Workers, DeleteFails(w) PROVE TypeOK'
  BY <1>22, <1>23 DEF DeleteFails
<1>24. ASSUME NEW w \in Workers, MarkFails(w) PROVE TypeOK'
  BY <1>22, <1>24, BackupAssumption DEF MarkFails
<1>25. ASSUME NEW w \in Workers, MarkRetired(w) PROVE TypeOK'
  BY <1>25 DEF MarkRetired, Rows, Running, Retaining
<1>26. ASSUME NEW w \in Workers, RecordRetention(w) PROVE TypeOK'
  <2>1. (~dirty[w]) \in BOOLEAN
    OBVIOUS
  <2>2. attempt' \in [Refs -> Rows]
    <3>1. \A r \in Refs : attempt[r] \in Rows /\ [attempt[r] EXCEPT !.complete = ~dirty[w]] \in Rows
      BY <2>1, RowWith, Zenon
    <3>2. \A r \in Refs : attempt'[r] \in Rows
      BY <1>26, <3>1 DEF RecordRetention
    <3> QED
      BY <1>26, <3>2 DEF RecordRetention
  <2> QED
    BY <1>26, <2>2 DEF RecordRetention, Running, Retaining
<1>27. ASSUME NEW w \in Workers, Release(w), job' \in [Jobs -> JobRows],
              \A i \in Jobs : job'[i].status \in {"NONE", "PENDING"} => job'[i].attempts < MaxAttempts,
              faults' \in 0..MaxFaults
       PROVE  TypeOK'
  BY <1>27 DEF Release, Running, Retaining
<1>28. ASSUME NEW w \in Workers, Ack(w) PROVE TypeOK'
  <2>1. on[w][1] \in Jobs
    BY <1>28, BackupAssumption DEF Ack, Refs, Jobs
  <2>2. job' \in [Jobs -> JobRows]
        /\ \A i \in Jobs : job'[i].status \in {"NONE", "PENDING"} => job'[i].attempts < MaxAttempts
    BY <1>28, <2>1 DEF Ack, JobRows
  <2> QED
    BY <1>27, <1>28, <2>2 DEF Ack
<1>29. ASSUME NEW w \in Workers, Crash(w) PROVE TypeOK'
  BY <1>27, <1>29, BackupAssumption DEF Crash
<1>30. ASSUME NEW w \in Workers, StatementFails(w) PROVE TypeOK'
  BY <1>30, BackupAssumption DEF StatementFails, Running, Retaining
<1>31. CASE UNCHANGED vars
  BY <1>31 DEF vars
<1> QED
  BY <1>1, <1>2, <1>3, <1>4, <1>5, <1>6, <1>7, <1>8, <1>9, <1>10, <1>11, <1>12, <1>13, <1>15,
     <1>16, <1>17, <1>18, <1>19, <1>20, <1>21, <1>23, <1>24, <1>25, <1>26, <1>28, <1>29, <1>30,
     <1>31 DEF Next, Consume

\* Every variable keeps its type, and a job still to be delivered has deliveries left.
THEOREM TypeCorrect == Spec => []TypeOK
  BY TypeInit, TypeStep, PTL DEF Spec

-----------------------------------------------------------------------------
(* Who runs an attempt.                                                    *)

OwnInv ==
  /\ \A w \in Workers : pc[w] \in Running => attempt[on[w]].status # "NONE"
  /\ \A w \in Workers : pc[w] \in {"upload", "commit"} => attempt[on[w]].status = "STARTED"
  /\ \A w, v \in Workers : pc[w] \in Running /\ pc[v] \in Running /\ on[w] = on[v] => w = v
  /\ \A w \in Workers : pc[w] = "commit" => on[w] \in stored

\* As many newer successful attempts exist as some retention count.
Covered(r) == \E k \in Retentions : Cardinality(Newer(Succeeded, r)) >= k

RetainInv ==
  /\ \A w \in Workers : picked[w] \subseteq Succeeded
  /\ \A w \in Workers : \A r \in picked[w] : Covered(r)
  /\ \A r \in Refs : attempt[r].retired => r \in Succeeded /\ Covered(r) /\ r \notin stored
  /\ \A r \in Succeeded \ stored : Covered(r)
  /\ \A w \in Workers : pc[w] = "mark" => hand[w] \notin stored
  /\ \A w \in Workers : pc[w] \in {"delete", "mark"} /\ ~dirty[w] =>
       \A r \in picked[w] \ todo[w] : attempt[r].retired

BackupInv == TypeOK /\ OwnInv /\ RetainInv

Step(w) == Consume(w) \/ Crash(w) \/ StatementFails(w) \/ MarkFails(w)

\* Only a consumer touches the attempts, the storage and the consumers' own variables.
LEMMA WhoSteps ==
  ASSUME [Next]_vars
  PROVE  UNCHANGED <<attempt, stored, local>> \/ \E w \in Workers : Step(w)
  BY DEF Next, Step, vars, ConfigureTarget, TestConnection, SetSchedule, RequestBackup, TimePasses,
         SelectDue, RecordMissed, SendScheduled, AdvanceWindow, SchedulerStops, LeaseExpires

\* No two consumers run one attempt: the second to insert its reference finds it taken.
LEMMA OwnStep == BackupInv /\ [Next]_vars => OwnInv'
<1> SUFFICES ASSUME BackupInv, [Next]_vars PROVE OwnInv'
  OBVIOUS
<1> USE DEF BackupInv, TypeOK, OwnInv, Goto, Running, Retaining
<1>0. CASE UNCHANGED <<attempt, stored, local>>
  BY <1>0 DEF local
<1>1. ASSUME NEW w \in Workers, NEW j \in Jobs, Claim(w, j) PROVE OwnInv'
  BY <1>1 DEF Claim
<1>2. ASSUME NEW w \in Workers, ReadConfig(w) PROVE OwnInv'
  BY <1>2 DEF ReadConfig
<1>3. ASSUME NEW w \in Workers, Refuse(w) PROVE OwnInv'
  BY <1>3, BackupAssumption DEF Refuse, Insert, Rows
<1>4. ASSUME NEW w \in Workers, InsertAttempt(w) PROVE OwnInv'
  BY <1>4, BackupAssumption DEF InsertAttempt, Insert, Rows
<1>5. ASSUME NEW w \in Workers, Upload(w) PROVE OwnInv'
  BY <1>5 DEF Upload
<1>6. ASSUME NEW w \in Workers, Commit(w) PROVE OwnInv'
  BY <1>6, BackupAssumption DEF Commit, Rows
<1>7. ASSUME NEW w \in Workers, FailAttempt(w) PROVE OwnInv'
  BY <1>7, BackupAssumption DEF FailAttempt, Rows
<1>8. ASSUME NEW w \in Workers, SelectSurplus(w) PROVE OwnInv'
  BY <1>8 DEF SelectSurplus
<1>9. ASSUME NEW w \in Workers, DeleteObject(w) PROVE OwnInv'
  BY <1>9, BackupAssumption DEF DeleteObject, Foremost, RetainInv, Succeeded
<1>10. ASSUME NEW w \in Workers, NEW r, SkipObject(w, r), pc[w] \in Retaining PROVE OwnInv'
  BY <1>10 DEF SkipObject
<1>11. ASSUME NEW w \in Workers, MarkRetired(w) PROVE OwnInv'
  BY <1>11, BackupAssumption DEF MarkRetired, Rows
<1>12. ASSUME NEW w \in Workers, RecordRetention(w) PROVE OwnInv'
  <2>1. \A r \in Refs : attempt'[r].status = attempt[r].status
    BY <1>12 DEF RecordRetention, Rows
  <2> QED
    BY <1>12, <2>1, BackupAssumption DEF RecordRetention
<1>13. ASSUME NEW w \in Workers, Release(w) PROVE OwnInv'
  BY <1>13 DEF Release
<1>14. ASSUME NEW w \in Workers, StatementFails(w) PROVE OwnInv'
  BY <1>14 DEF StatementFails
<1>15. ASSUME NEW w \in Workers, Step(w) PROVE OwnInv'
  BY <1>1, <1>2, <1>3, <1>4, <1>5, <1>6, <1>7, <1>8, <1>9, <1>10, <1>11, <1>12, <1>13, <1>14,
     <1>15 DEF Step, Consume, DeleteFails, MarkFails, Ack, Crash
<1> QED
  BY <1>0, <1>15, WhoSteps

\* What a row says once it exists stays: when it started, its outcome, that it is retired.
KeepsRows ==
  \A r \in Refs :
    /\ attempt[r].status # "NONE" => attempt'[r].at = attempt[r].at
    /\ attempt[r].status \in {"SUCCESS", "FAILED"} => attempt'[r].status = attempt[r].status
    /\ attempt[r].retired => attempt'[r].retired

LEMMA RowsKept == BackupInv /\ [Next]_vars => KeepsRows
<1> SUFFICES ASSUME BackupInv, [Next]_vars PROVE KeepsRows
  OBVIOUS
<1> USE BackupAssumption DEF BackupInv, TypeOK, OwnInv, Rows, KeepsRows
<1>1. CASE UNCHANGED attempt
  BY <1>1
<1>2. ASSUME NEW w \in Workers, Refuse(w) \/ InsertAttempt(w) PROVE KeepsRows
  BY <1>2 DEF Refuse, InsertAttempt, Insert
<1>3. ASSUME NEW w \in Workers, Commit(w) PROVE KeepsRows
  BY <1>3 DEF Commit
<1>4. ASSUME NEW w \in Workers, FailAttempt(w) PROVE KeepsRows
  BY <1>4 DEF FailAttempt
<1>5. ASSUME NEW w \in Workers, MarkRetired(w) PROVE KeepsRows
  BY <1>5 DEF MarkRetired
<1>6. ASSUME NEW w \in Workers, RecordRetention(w) PROVE KeepsRows
  BY <1>6 DEF RecordRetention
<1>7. ASSUME NEW w \in Workers, Step(w) PROVE KeepsRows
  <2>1. \/ UNCHANGED attempt
        \/ Refuse(w) \/ InsertAttempt(w) \/ Commit(w) \/ FailAttempt(w)
        \/ MarkRetired(w) \/ RecordRetention(w)
    BY <1>7 DEF Step, Consume, Claim, ReadConfig, Upload, SelectSurplus, DeleteObject, DeleteFails,
                MarkFails, SkipObject, Ack, Crash, Release, StatementFails
  <2> QED
    BY <1>1, <1>2, <1>3, <1>4, <1>5, <1>6, <2>1
<1> QED
  BY <1>1, <1>7, WhoSteps

-----------------------------------------------------------------------------
(* What retention may touch.                                               *)

\* There are finitely many references, so counting the newer attempts makes sense.
LEMMA RefsFinite == IsFiniteSet(Refs)
<1>1. IsFiniteSet(Firings) /\ IsFiniteSet(1..MaxAttempts)
  BY BackupAssumption, FS_Interval DEF Firings
<1>2. IsFiniteSet(Manual \X {0}) /\ IsFiniteSet(Firings \X (1..MaxAttempts))
  BY <1>1, BackupAssumption, FS_Product, FS_Singleton
<1> QED
  BY <1>2, FS_Union DEF Refs

\* Successes are only added, so a covered attempt stays covered.
LEMMA CoveredStays ==
  ASSUME TypeOK, KeepsRows, NEW r \in Succeeded, Covered(r)
  PROVE  r \in Succeeded' /\ Covered(r)'
<1>1. Succeeded \subseteq Succeeded' /\ Succeeded' \subseteq Refs /\ r \in Refs
  BY DEF KeepsRows, Succeeded
<1>2. \A s \in Succeeded : attempt'[s].at = attempt[s].at
  BY DEF KeepsRows, Succeeded
<1>3. Newer(Succeeded, r) \subseteq Newer(Succeeded, r)'
  BY <1>1, <1>2 DEF Newer
<1>4. IsFiniteSet(Newer(Succeeded, r)')
  BY <1>1, RefsFinite, FS_Subset DEF Newer
<1>5. /\ Cardinality(Newer(Succeeded, r)) <= Cardinality(Newer(Succeeded, r)')
      /\ Cardinality(Newer(Succeeded, r)) \in Nat /\ Cardinality(Newer(Succeeded, r)') \in Nat
  BY <1>3, <1>4, FS_Subset, FS_CardinalityType
<1>6. PICK k \in Retentions : Cardinality(Newer(Succeeded, r)) >= k
  BY DEF Covered
<1>7. Cardinality(Newer(Succeeded, r)') >= k /\ k \in Nat
  BY <1>5, <1>6, BackupAssumption
<1> QED
  BY <1>1, <1>7 DEF Covered

\* What enforceRetention selects is covered by the count it read.
LEMMA SurplusCovered ==
  ASSUME TypeOK, NEW r \in Surplus(config.keep)
  PROVE  r \in Succeeded /\ Covered(r)
<1>1. r \in Succeeded /\ config.keep \in Retentions
  BY DEF Surplus, Live, TypeOK, Configs
<1>2. Newer(Live, r) \subseteq Newer(Succeeded, r)
  BY DEF Newer, Live
<1>3. IsFiniteSet(Newer(Succeeded, r))
  BY RefsFinite, FS_Subset DEF Newer, Succeeded
<1>4. /\ Cardinality(Newer(Live, r)) <= Cardinality(Newer(Succeeded, r))
      /\ Cardinality(Newer(Live, r)) \in Nat /\ Cardinality(Newer(Succeeded, r)) \in Nat
  BY <1>2, <1>3, FS_Subset, FS_CardinalityType
<1>5. Cardinality(Newer(Live, r)) >= config.keep
  BY DEF Surplus
<1>6. Cardinality(Newer(Succeeded, r)) >= config.keep
  <2>1. config.keep \in Nat
    BY <1>1, BackupAssumption
  <2> QED
    BY <1>4, <1>5, <2>1
<1> QED
  BY <1>1, <1>6 DEF Covered

\* Every step keeps what retention has picked, deleted and retired within its limit.
LEMMA RetainStep == BackupInv /\ [Next]_vars => RetainInv'
<1> SUFFICES ASSUME BackupInv, [Next]_vars PROVE RetainInv'
  OBVIOUS
<1>a. KeepsRows
  BY RowsKept
<1>b. \A r \in Succeeded : r \in Succeeded' /\ (Covered(r) => Covered(r)')
  <2> TAKE r \in Succeeded
  <2>1. r \in Succeeded'
    BY <1>a DEF KeepsRows, Succeeded
  <2> QED
    BY <2>1, <1>a, CoveredStays DEF BackupInv
<1> USE BackupAssumption DEF BackupInv, TypeOK, RetainInv, Goto
<1>0. CASE UNCHANGED <<attempt, stored, local>>
  BY <1>0 DEF local, retention, Succeeded, Newer, Covered
<1>1. ASSUME NEW w \in Workers, NEW label, label \notin {"delete", "mark"}, Goto(w, label),
             UNCHANGED <<stored, retention>>, Succeeded' = Succeeded,
             \A r \in Refs : attempt'[r].retired = attempt[r].retired
      PROVE  RetainInv'
  BY <1>1, <1>b DEF retention
<1>2. ASSUME NEW w \in Workers, NEW j \in Jobs, Claim(w, j) PROVE RetainInv'
  <2>1. UNCHANGED <<attempt, stored, retention>> /\ Goto(w, "read")
    BY <1>2 DEF Claim
  <2>2. Succeeded' = Succeeded
    BY <2>1 DEF Succeeded
  <2> QED
    BY <1>1, <2>1, <2>2
<1>3. ASSUME NEW w \in Workers, ReadConfig(w) PROVE RetainInv'
  <2>1. UNCHANGED <<attempt, stored, retention>> /\ (Goto(w, "refuse") \/ Goto(w, "insert"))
    BY <1>3 DEF ReadConfig
  <2>2. Succeeded' = Succeeded
    BY <2>1 DEF Succeeded
  <2> QED
    BY <1>1, <2>1, <2>2
<1>4. ASSUME NEW w \in Workers, Refuse(w) PROVE RetainInv'
  <2>1. \A r \in Refs : attempt'[r].retired = attempt[r].retired
    BY <1>4 DEF Refuse, Insert, Rows
  <2>2. Succeeded' = Succeeded
    BY <1>4 DEF Refuse, Insert, Rows, Succeeded
  <2> QED
    BY <1>1, <1>4, <2>1, <2>2 DEF Refuse
<1>5. ASSUME NEW w \in Workers, InsertAttempt(w) PROVE RetainInv'
  <2>1. \A r \in Refs : attempt'[r].retired = attempt[r].retired
    BY <1>5 DEF InsertAttempt, Insert, Rows
  <2>2. Succeeded' = Succeeded
    BY <1>5 DEF InsertAttempt, Insert, Rows, Succeeded
  <2> QED
    BY <1>1, <1>5, <2>1, <2>2 DEF InsertAttempt
<1>6. ASSUME NEW w \in Workers, FailAttempt(w) PROVE RetainInv'
  <2>1. \A r \in Refs : attempt'[r].retired = attempt[r].retired
    BY <1>6 DEF FailAttempt, Rows
  <2>2. Succeeded' = Succeeded
    BY <1>6 DEF FailAttempt, Rows, Succeeded
  <2> QED
    BY <1>1, <1>6, <2>1, <2>2 DEF FailAttempt
<1>7. ASSUME NEW w \in Workers, RecordRetention(w) PROVE RetainInv'
  <2>1. \A r \in Refs : /\ attempt'[r].retired = attempt[r].retired
                        /\ attempt'[r].status = attempt[r].status
    BY <1>7 DEF RecordRetention, Rows
  <2>2. Succeeded' = Succeeded
    BY <2>1 DEF Succeeded
  <2> QED
    BY <1>1, <1>7, <2>1, <2>2 DEF RecordRetention
<1>8. ASSUME NEW w \in Workers, StatementFails(w) PROVE RetainInv'
  BY <1>1, <1>8 DEF StatementFails, Succeeded
<1>9. ASSUME NEW w \in Workers, Upload(w) PROVE RetainInv'
  <2>1. attempt[on[w]].status = "STARTED" /\ on[w] \notin Succeeded
    BY <1>9 DEF Upload, OwnInv, Succeeded
  <2>2. \A v \in Workers : pc[v] = "mark" => hand[v] \in Succeeded
    OBVIOUS
  <2>3. stored \subseteq stored' /\ stored' \subseteq stored \cup {on[w]}
    BY <1>9 DEF Upload
  <2>4. Succeeded' = Succeeded
    BY <1>9 DEF Upload, Succeeded
  <2> QED
    BY <1>9, <1>b, <2>1, <2>2, <2>3, <2>4 DEF Upload, retention
<1>10. ASSUME NEW w \in Workers, Commit(w) PROVE RetainInv'
  <2>1. on[w] \in stored
    BY <1>10 DEF Commit, OwnInv
  <2>2. \A r \in Refs : attempt'[r].retired = attempt[r].retired
    BY <1>10 DEF Commit, Rows
  <2>3. Succeeded' \subseteq Succeeded \cup {on[w]}
    BY <1>10 DEF Commit, Rows, Succeeded
  <2> QED
    BY <1>10, <1>b, <2>1, <2>2, <2>3 DEF Commit, retention
<1>11. ASSUME NEW w \in Workers, SelectSurplus(w) PROVE RetainInv'
  <2>1. \A r \in Surplus(config.keep) : r \in Succeeded /\ Covered(r)
    BY SurplusCovered
  <2>2. Succeeded' = Succeeded
    BY <1>11 DEF SelectSurplus, Succeeded
  <2> QED
    BY <1>11, <1>b, <2>1, <2>2 DEF SelectSurplus
<1>12. ASSUME NEW w \in Workers, DeleteObject(w) PROVE RetainInv'
  <2>1. PICK r \in todo[w] : stored' = stored \ {r} /\ hand' = [hand EXCEPT ![w] = r]
    BY <1>12 DEF DeleteObject, Foremost
  <2>2. r \in Succeeded /\ Covered(r)
    BY <2>1
  <2>3. Succeeded' = Succeeded
    BY <1>12 DEF DeleteObject, Succeeded
  <2> QED
    BY <1>12, <1>b, <2>1, <2>2, <2>3 DEF DeleteObject
<1>13. ASSUME NEW w \in Workers, NEW r, SkipObject(w, r) PROVE RetainInv'
  <2>1. Succeeded' = Succeeded
    BY <1>13 DEF SkipObject, Succeeded
  <2> QED
    BY <1>13, <1>b, <2>1 DEF SkipObject
<1>14. ASSUME NEW w \in Workers, MarkRetired(w) PROVE RetainInv'
  <2>1. hand[w] \in todo[w] /\ hand[w] \in picked[w] /\ hand[w] \notin stored
        /\ hand[w] \in Succeeded /\ Covered(hand[w])
    BY <1>14 DEF MarkRetired
  <2>2. /\ attempt'[hand[w]].retired
        /\ \A r \in Refs : r # hand[w] => attempt'[r].retired = attempt[r].retired
    BY <1>14, <2>1 DEF MarkRetired, Rows
  <2>3. Succeeded' = Succeeded
    BY <1>14 DEF MarkRetired, Rows, Succeeded
  <2> QED
    BY <1>14, <1>b, <2>1, <2>2, <2>3 DEF MarkRetired
<1>15. ASSUME NEW w \in Workers, Release(w) PROVE RetainInv'
  <2>1. Succeeded' = Succeeded
    BY <1>15 DEF Release, Succeeded
  <2> QED
    BY <1>15, <1>b, <2>1 DEF Release
<1>16. ASSUME NEW w \in Workers, Step(w) PROVE RetainInv'
  BY <1>2, <1>3, <1>4, <1>5, <1>6, <1>7, <1>8, <1>9, <1>10, <1>11, <1>12, <1>13, <1>14, <1>15,
     <1>16 DEF Step, Consume, DeleteFails, MarkFails, Ack, Crash
<1> QED
  BY <1>0, <1>16, WhoSteps

\* Nothing has succeeded, is picked or is running at the start.
LEMMA InvInit == Init => BackupInv
<1> SUFFICES ASSUME Init PROVE BackupInv
  OBVIOUS
<1>1. Succeeded = {}
  BY DEF Init, Succeeded
<1> QED
  BY <1>1, TypeInit DEF BackupInv, OwnInv, RetainInv, Init, Running, Retaining

\* The three layers are inductive together.
LEMMA InvHolds == Spec => []BackupInv
<1>1. BackupInv /\ [Next]_vars => BackupInv'
  BY TypeStep, OwnStep, RetainStep DEF BackupInv
<1> QED
  BY InvInit, <1>1, PTL DEF Spec

\* However many consumers, deliveries, crashes and changes of the retention count: the newest
\* successful backups are still in storage, as many as the smallest count.
THEOREM NewestKept == Spec => []NewestAreRestorable
<1>1. BackupInv => NewestAreRestorable
  <2> SUFFICES ASSUME BackupInv, NEW r \in Succeeded,
                      \A k \in Retentions : Cardinality(Newer(Succeeded, r)) < k
               PROVE  r \in stored /\ ~attempt[r].retired
    BY DEF NewestAreRestorable
  <2>1. Cardinality(Newer(Succeeded, r)) \in Nat
    BY RefsFinite, FS_Subset, FS_CardinalityType DEF Newer, Succeeded
  <2>2. ~Covered(r)
    BY <2>1, BackupAssumption DEF Covered
  <2> QED
    BY <2>2 DEF BackupInv, RetainInv, Succeeded
<1> QED
  BY <1>1, InvHolds, PTL

\* An attempt marked as retired has no object left in storage.
THEOREM RetiredGone == Spec => []RetiredIsGone
<1>1. BackupInv => RetiredIsGone
  BY DEF BackupInv, RetainInv, RetiredIsGone
<1> QED
  BY <1>1, InvHolds, PTL

\* A retention run that claims to be complete has retired everything it selected.
THEOREM CompletionTrue == Spec => []CompletionIsTrue
<1>1. BackupInv => CompletionIsTrue
  BY DEF BackupInv, TypeOK, RetainInv, CompletionIsTrue
<1> QED
  BY <1>1, InvHolds, PTL

\* An outcome, once recorded, is never replaced by another.
THEOREM OutcomeFinal == Spec => OutcomeIsFinal
<1>1. BackupInv /\ [Next]_vars =>
        [\A r \in Refs : attempt[r].status \in {"SUCCESS", "FAILED"} =>
           attempt'[r].status = attempt[r].status]_vars
  BY RowsKept DEF KeepsRows
<1> QED
  BY <1>1, InvHolds, PTL DEF Spec, OutcomeIsFinal

-----------------------------------------------------------------------------
(* Attempts that never get an outcome.                                     *)

\* A step without a fault abandons no attempt, and a fault abandons one at most.
AbandonsOne ==
  \/ Abandoned' \subseteq Abandoned /\ faults' >= faults
  \/ faults' = faults + 1 /\ \E r \in Refs : Abandoned' \subseteq Abandoned \cup {r}

LEMMA AbandonStep == BackupInv /\ [Next]_vars => AbandonsOne
<1> SUFFICES ASSUME BackupInv, [Next]_vars PROVE AbandonsOne
  OBVIOUS
<1> USE BackupAssumption
        DEF BackupInv, TypeOK, OwnInv, Goto, Running, Retaining, Abandoned, AbandonsOne, UseFault
<1>1. ASSUME UNCHANGED <<attempt, local>>, faults' = faults \/ UseFault PROVE AbandonsOne
  BY <1>1 DEF local
<1>2. ASSUME NEW w \in Workers, NEW j \in Jobs, Claim(w, j) PROVE AbandonsOne
  BY <1>2 DEF Claim
<1>3. ASSUME NEW w \in Workers, Refuse(w) PROVE AbandonsOne
  BY <1>3 DEF Refuse, Insert, Rows
<1>4. ASSUME NEW w \in Workers, InsertAttempt(w) PROVE AbandonsOne
  <2>1. CASE attempt[on[w]].status # "NONE"
    BY <1>4, <2>1 DEF InsertAttempt, Insert
  <2>2. CASE attempt[on[w]].status = "NONE"
    BY <1>4, <2>2 DEF InsertAttempt, Insert, Rows
  <2> QED
    BY <2>1, <2>2
<1>5. ASSUME NEW w \in Workers, Upload(w) PROVE AbandonsOne
  BY <1>5 DEF Upload
<1>6. ASSUME NEW w \in Workers, Commit(w) PROVE AbandonsOne
  BY <1>6 DEF Commit, Rows
<1>7. ASSUME NEW w \in Workers, FailAttempt(w) PROVE AbandonsOne
  <2>1. on[w] \in Refs /\ on' = on /\ faults' = faults
    BY <1>7 DEF FailAttempt
  <2>2. CASE attempt[on[w]].status = "STARTED"
    <3>1. attempt' = [attempt EXCEPT ![on[w]].status = "FAILED"] /\ pc' = [pc EXCEPT ![w] = "ack"]
      BY <1>7, <2>2, Zenon DEF FailAttempt
    <3> QED
      BY <1>7, <2>1, <3>1 DEF Rows
  <2>3. CASE attempt[on[w]].status # "STARTED"
    <3>1. attempt' = attempt /\ pc' = [pc EXCEPT ![w] = "ack"]
      BY <1>7, <2>3, Zenon DEF FailAttempt
    <3> QED
      BY <1>7, <2>1, <2>3, <3>1
  <2> QED
    BY <2>2, <2>3
<1>8. ASSUME NEW w \in Workers, MarkRetired(w) PROVE AbandonsOne
  BY <1>8 DEF MarkRetired, Rows
<1>9. ASSUME NEW w \in Workers, RecordRetention(w) PROVE AbandonsOne
  <2>1. \A r \in Refs : attempt'[r].status = attempt[r].status
    BY <1>9 DEF RecordRetention, Rows
  <2> QED
    BY <1>9, <2>1 DEF RecordRetention
<1>10. ASSUME NEW w \in Workers, Ack(w) PROVE AbandonsOne
  BY <1>10 DEF Ack, Release
<1>11. ASSUME NEW w \in Workers, Crash(w) PROVE AbandonsOne
  <2>1. on[w] \in Refs /\ \A v \in Workers \ {w} : on'[v] = on[v] /\ pc'[v] = pc[v]
    BY <1>11 DEF Crash, Release
  <2>2. Abandoned' \subseteq Abandoned \cup {on[w]}
    BY <1>11, <2>1 DEF Crash, Release
  <2> QED
    BY <1>11, <2>1, <2>2 DEF Crash
<1>12. ASSUME NEW w \in Workers, StatementFails(w) PROVE AbandonsOne
  <2>1. on[w] \in Refs /\ on' = on /\ \A v \in Workers \ {w} : pc'[v] = pc[v]
    BY <1>12 DEF StatementFails
  <2>2. Abandoned' \subseteq Abandoned \cup {on[w]}
    BY <1>12, <2>1 DEF StatementFails
  <2> QED
    BY <1>12, <2>1, <2>2 DEF StatementFails
<1>13. ASSUME NEW w \in Workers, NEW r, SkipObject(w, r), pc[w] \in Retaining,
              faults' = faults \/ UseFault
       PROVE  AbandonsOne
  BY <1>13 DEF SkipObject
<1>14. ASSUME NEW w \in Workers, ReadConfig(w) \/ SelectSurplus(w) \/ DeleteObject(w)
       PROVE  AbandonsOne
  BY <1>14 DEF ReadConfig, SelectSurplus, DeleteObject
<1>15. ASSUME NEW w \in Workers, Step(w) PROVE AbandonsOne
  BY <1>2, <1>3, <1>4, <1>5, <1>6, <1>7, <1>8, <1>9, <1>10, <1>11, <1>12, <1>13, <1>14, <1>15
     DEF Step, Consume, DeleteFails, MarkFails
<1> QED
  BY <1>1, <1>15 DEF Next, Step, vars, ConfigureTarget, TestConnection, SetSchedule, RequestBackup,
     TimePasses, SelectDue, RecordMissed, SendScheduled, AdvanceWindow, SchedulerStops, LeaseExpires

\* No failing upload, overlapping delivery or failing retention run leaves an attempt without an
\* outcome: there are never more such attempts than there were crashes and failing statements.
THEOREM FaultsAbandon == Spec => []OnlyFaultsAbandon
<1>1. Init => OnlyFaultsAbandon
  <2> SUFFICES ASSUME Init PROVE OnlyFaultsAbandon
    OBVIOUS
  <2>1. Abandoned = {}
    BY DEF Init, Abandoned
  <2> QED
    BY <2>1, FS_EmptySet DEF Init, OnlyFaultsAbandon
<1>2. BackupInv /\ OnlyFaultsAbandon /\ [Next]_vars => OnlyFaultsAbandon'
  <2> SUFFICES ASSUME BackupInv, OnlyFaultsAbandon, [Next]_vars PROVE OnlyFaultsAbandon'
    OBVIOUS
  <2>1. AbandonsOne
    BY AbandonStep
  <2>2. IsFiniteSet(Abandoned) /\ Cardinality(Abandoned) \in Nat
    BY RefsFinite, FS_Subset, FS_CardinalityType DEF Abandoned
  <2>3. IsFiniteSet(Abandoned') /\ Cardinality(Abandoned') \in Nat
    BY RefsFinite, FS_Subset, FS_CardinalityType DEF Abandoned
  <2>4. TypeOK' /\ faults \in Nat /\ faults' \in Nat
    BY TypeStep, BackupAssumption DEF BackupInv, TypeOK
  <2>5. CASE Abandoned' \subseteq Abandoned /\ faults' >= faults
    <3>1. Cardinality(Abandoned') <= Cardinality(Abandoned)
      BY <2>2, <2>5, FS_Subset
    <3> QED
      BY <2>2, <2>3, <2>4, <2>5, <3>1 DEF OnlyFaultsAbandon
  <2>6. ASSUME NEW r \in Refs, Abandoned' \subseteq Abandoned \cup {r}, faults' = faults + 1
        PROVE  OnlyFaultsAbandon'
    <3>1. /\ IsFiniteSet(Abandoned \cup {r})
          /\ Cardinality(Abandoned \cup {r}) \in Nat
          /\ Cardinality(Abandoned \cup {r}) <= Cardinality(Abandoned) + 1
      BY <2>2, FS_AddElement, FS_CardinalityType
    <3>2. Cardinality(Abandoned') <= Cardinality(Abandoned \cup {r})
      BY <2>6, <3>1, FS_Subset
    <3> QED
      BY <2>2, <2>3, <2>4, <2>6, <3>1, <3>2 DEF OnlyFaultsAbandon
  <2> QED
    BY <2>1, <2>5, <2>6 DEF AbandonsOne
<1> QED
  BY <1>1, <1>2, InvHolds, PTL DEF Spec

-----------------------------------------------------------------------------
(* The archive that backups and retention amount to.                       *)

\* The archive counts as the backups do.
LEMMA SameCount ==
  ASSUME NEW S
  PROVE  Promised!Cardinality(S) = Cardinality(S)
  BY DEF Promised!Cardinality, Cardinality

\* A step that leaves outcomes, restorable objects and markers alone is none of the archive's.
LEMMA ArchiveSame ==
  ASSUME KeepsRows,
         \A r \in Refs : attempt'[r].status \in {"SUCCESS", "FAILED"} =>
                          attempt'[r].status = attempt[r].status,
         Held' = Held, Marked' = Marked
  PROVE  UNCHANGED Promised!vars
<1>1. Succeeded' = Succeeded /\ Failed' = Failed
  BY DEF KeepsRows, Succeeded, Failed
<1>2. Began' = Began
  BY <1>1 DEF KeepsRows, Began, Succeeded
<1> QED
  BY <1>1, <1>2 DEF Promised!vars

\* A first outcome other than success.
LEMMA ArchiveFails ==
  ASSUME TypeOK, KeepsRows, NEW r \in Refs, attempt[r].status \notin {"SUCCESS", "FAILED"},
         attempt'[r].status = "FAILED",
         \A s \in Refs \ {r} : attempt'[s].status = attempt[s].status,
         Marked' = Marked, stored' = stored
  PROVE  Promised!Fail(r)
<1>1. Succeeded' = Succeeded /\ Failed' = Failed \cup {r} /\ r \notin Succeeded \cup Failed
  BY DEF Succeeded, Failed
<1>2. Began' = Began
  BY <1>1 DEF KeepsRows, Began, Succeeded
<1> QED
  BY <1>1, <1>2 DEF Promised!Fail, Held

\* Each step of Backup is a step of the archive, or none.
LEMMA ArchiveStep == BackupInv /\ [Next]_vars => [Promised!Next]_(Promised!vars)
<1> SUFFICES ASSUME BackupInv, [Next]_vars PROVE Promised!Next \/ UNCHANGED Promised!vars
  OBVIOUS
<1>a. KeepsRows
  BY RowsKept
<1> USE BackupAssumption DEF BackupInv, TypeOK, OwnInv, Goto
<1>1. ASSUME UNCHANGED <<attempt, stored>> PROVE UNCHANGED Promised!vars
  BY <1>1 DEF Promised!vars, Began, Succeeded, Failed, Held, Marked
<1>2. ASSUME NEW w \in Workers, Refuse(w) PROVE Promised!Next \/ UNCHANGED Promised!vars
  <2>1. CASE attempt[on[w]].status # "NONE"
    BY <1>1, <1>2, <2>1 DEF Refuse, Insert
  <2>2. CASE attempt[on[w]].status = "NONE"
    <3>1. on[w] \in Refs
      BY <1>2 DEF Refuse
    <3>2. /\ attempt'[on[w]].status = "FAILED"
          /\ \A s \in Refs \ {on[w]} : attempt'[s].status = attempt[s].status
      BY <1>2, <2>2, <3>1 DEF Refuse, Insert, Rows
    <3>3. Marked' = Marked /\ stored' = stored
      BY <1>2 DEF Refuse, Insert, Rows, Marked
    <3>4. Promised!Fail(on[w])
      BY <1>a, <2>2, <3>1, <3>2, <3>3, ArchiveFails
    <3> QED
      BY <3>1, <3>4 DEF Promised!Next
  <2> QED
    BY <2>1, <2>2
<1>3. ASSUME NEW w \in Workers, InsertAttempt(w) PROVE UNCHANGED Promised!vars
  <2>1. \A r \in Refs : /\ attempt'[r].retired = attempt[r].retired
                        /\ attempt'[r].status \in {"SUCCESS", "FAILED"} =>
                             attempt'[r].status = attempt[r].status
    BY <1>3 DEF InsertAttempt, Insert, Rows
  <2>2. Held' = Held /\ Marked' = Marked
    BY <1>3, <1>a, <2>1 DEF InsertAttempt, Held, Marked, Succeeded, KeepsRows
  <2> QED
    BY <1>a, <2>1, <2>2, ArchiveSame
<1>4. ASSUME NEW w \in Workers, Upload(w) PROVE UNCHANGED Promised!vars
  <2>1. on[w] \notin Succeeded /\ Succeeded' = Succeeded
    BY <1>4 DEF Upload, Succeeded
  <2>2. Held' = Held /\ Marked' = Marked
    BY <1>4, <2>1 DEF Upload, Held, Marked
  <2> QED
    BY <1>4, <1>a, <2>2, ArchiveSame DEF Upload
<1>5. ASSUME NEW w \in Workers, Commit(w) PROVE Promised!Next
  <2>1. on[w] \in Refs /\ attempt[on[w]].status = "STARTED" /\ on[w] \in stored
    BY <1>5 DEF Commit
  <2>2. /\ Succeeded' = Succeeded \cup {on[w]} /\ on[w] \notin Succeeded \cup Failed
        /\ Failed' = Failed /\ Marked' = Marked
    BY <1>5, <2>1 DEF Commit, Rows, Succeeded, Failed, Marked
  <2>3. Held' = Held \cup {on[w]}
    BY <1>5, <2>1, <2>2 DEF Commit, Held
  <2>4. Began' \in [Refs -> Nat] /\ \A s \in Refs \ {on[w]} : Began'[s] = Began[s]
    BY <1>5, <2>1, <2>2 DEF Commit, Rows, Began
  <2>5. Promised!Record(on[w])
    BY <2>2, <2>3, <2>4 DEF Promised!Record
  <2> QED
    BY <2>1, <2>5 DEF Promised!Next
<1>6. ASSUME NEW w \in Workers, FailAttempt(w) PROVE Promised!Next \/ UNCHANGED Promised!vars
  <2>1. CASE attempt[on[w]].status # "STARTED"
    BY <1>1, <1>6, <2>1 DEF FailAttempt
  <2>2. CASE attempt[on[w]].status = "STARTED"
    <3>1. on[w] \in Refs
      BY <1>6 DEF FailAttempt
    <3>2. attempt' = [attempt EXCEPT ![on[w]].status = "FAILED"] /\ stored' = stored
      BY <1>6, <2>2, Zenon DEF FailAttempt
    <3>3. /\ attempt'[on[w]].status = "FAILED"
          /\ \A s \in Refs \ {on[w]} : attempt'[s].status = attempt[s].status
          /\ Marked' = Marked
      BY <3>1, <3>2 DEF Rows, Marked
    <3>4. Promised!Fail(on[w])
      BY <1>a, <2>2, <3>1, <3>2, <3>3, ArchiveFails
    <3> QED
      BY <3>1, <3>4 DEF Promised!Next
  <2> QED
    BY <2>1, <2>2
<1>7. ASSUME NEW w \in Workers, DeleteObject(w) PROVE Promised!Next \/ UNCHANGED Promised!vars
  <2>1. PICK r \in todo[w] : stored' = stored \ {r}
    BY <1>7 DEF DeleteObject, Foremost
  <2>2. r \in Succeeded /\ Covered(r)
    BY <2>1 DEF RetainInv
  <2>3. UNCHANGED <<Began, Succeeded, Failed, Marked>>
    BY <1>7 DEF DeleteObject, Began, Succeeded, Failed, Marked
  <2>4. Held' = Held \ {r}
    BY <2>1, <2>3 DEF Held
  <2>5. CASE r \notin stored
    BY <2>3, <2>4, <2>5 DEF Held, Promised!vars
  <2>6. CASE r \in stored
    <3>1. {s \in Succeeded : Began[s] > Began[r]} = Newer(Succeeded, r)
      BY <2>2 DEF Began, Newer, Succeeded
    <3>2. Promised!Beyond(r)
      <4>1. PICK k \in Retentions : Cardinality(Newer(Succeeded, r)) >= k
        BY <2>2 DEF Covered
      <4>2. Cardinality({s \in Succeeded : Began[s] > Began[r]}) >= k
        BY <3>1, <4>1
      <4> QED
        BY <4>2, SameCount DEF Promised!Beyond
    <3>3. Promised!Drop(r)
      BY <2>2, <2>3, <2>4, <2>6, <3>2 DEF Held, Promised!Drop
    <3> QED
      BY <2>2, <3>3 DEF Succeeded, Promised!Next
  <2> QED
    BY <2>5, <2>6
<1>8. ASSUME NEW w \in Workers, MarkRetired(w) PROVE Promised!Next
  <2>1. hand[w] \in Succeeded \ stored
    BY <1>8 DEF MarkRetired, RetainInv
  <2>2. \A r \in Refs : /\ attempt'[r].status = attempt[r].status
                        /\ attempt'[r].at = attempt[r].at
                        /\ attempt'[r].retired <=> attempt[r].retired \/ r = hand[w]
    BY <1>8, <2>1 DEF MarkRetired, Rows, Succeeded
  <2>3. Succeeded' = Succeeded /\ Failed' = Failed
    BY <2>2 DEF Succeeded, Failed
  <2>4. Began' = Began /\ Held' = Held
    BY <1>8, <2>2, <2>3 DEF MarkRetired, Began, Held
  <2>5. Marked' = Marked \cup {hand[w]}
    BY <2>1, <2>2 DEF Marked, Succeeded
  <2>6. Promised!Mark(hand[w])
    BY <2>1, <2>3, <2>4, <2>5 DEF Held, Promised!Mark
  <2> QED
    BY <2>1, <2>6 DEF Succeeded, Promised!Next
<1>9. ASSUME NEW w \in Workers, RecordRetention(w) PROVE UNCHANGED Promised!vars
  <2>1. \A r \in Refs : /\ attempt'[r].retired = attempt[r].retired
                        /\ attempt'[r].status = attempt[r].status
    BY <1>9 DEF RecordRetention, Rows
  <2>2. Held' = Held /\ Marked' = Marked
    BY <1>9, <2>1 DEF RecordRetention, Held, Marked, Succeeded
  <2> QED
    BY <1>a, <2>1, <2>2, ArchiveSame
<1>10. ASSUME NEW w \in Workers, Step(w) PROVE Promised!Next \/ UNCHANGED Promised!vars
  <2>1. \/ UNCHANGED <<attempt, stored>>
        \/ Refuse(w) \/ InsertAttempt(w) \/ Upload(w) \/ Commit(w) \/ FailAttempt(w)
        \/ DeleteObject(w) \/ MarkRetired(w) \/ RecordRetention(w)
    BY <1>10 DEF Step, Consume, Claim, ReadConfig, SelectSurplus, DeleteFails, MarkFails, SkipObject,
                 Ack, Crash, Release, StatementFails
  <2> QED
    BY <1>1, <1>2, <1>3, <1>4, <1>5, <1>6, <1>7, <1>8, <1>9, <2>1
<1> QED
  BY <1>1, <1>10, WhoSteps

\* Backups and retention, with every overlap, failure and crash, are the archive of module Archive:
\* one outcome for each attempt, a success only with its object in storage, nothing deleted within
\* the limit, nothing marked that is still there.
THEOREM ArchiveImplemented == Spec => ImplementsArchive
<1>1. Init => Promised!Init
  BY BackupAssumption DEF Init, Promised!Init, Began, Succeeded, Failed, Held, Marked
<1> QED
  BY <1>1, ArchiveStep, InvHolds, PTL DEF Spec, ImplementsArchive, Promised!Spec

-----------------------------------------------------------------------------
(* The schedule.                                                           *)

Queued(v) == \E n \in Firings : job[n].status # "NONE" /\ job[n].window = v

WindowInv ==
  /\ NoWindowLost
  /\ sched = "sent" => Queued(window)

\* A job keeps the window it was sent for.
LEMMA QueuedStays ==
  ASSUME TypeOK, [Next]_vars, NEW v, Queued(v)
  PROVE  Queued(v)'
<1> USE DEF TypeOK, JobRows
<1>1. PICK n \in Firings : job[n].status # "NONE" /\ job[n].window = v
  BY DEF Queued
<1>2. n \in Jobs
  BY DEF Jobs
<1> SUFFICES job'[n].status # "NONE" /\ job'[n].window = v
  BY <1>1 DEF Queued
<1>3. CASE UNCHANGED job
  BY <1>1, <1>3
<1>4. CASE SendScheduled
  BY <1>1, <1>2, <1>4 DEF SendScheduled, Jobs
<1>5. ASSUME NEW m \in Manual, RequestBackup(m) PROVE job'[n].status # "NONE" /\ job'[n].window = v
  BY <1>1, <1>2, <1>5 DEF RequestBackup, Jobs
<1>6. ASSUME NEW j \in Jobs, LeaseExpires(j) PROVE job'[n].status # "NONE" /\ job'[n].window = v
  BY <1>1, <1>2, <1>6 DEF LeaseExpires
<1>7. ASSUME NEW w \in Workers, NEW j \in Jobs, Claim(w, j)
      PROVE  job'[n].status # "NONE" /\ job'[n].window = v
  BY <1>1, <1>2, <1>7 DEF Claim
<1>8. ASSUME NEW w \in Workers, Ack(w) PROVE job'[n].status # "NONE" /\ job'[n].window = v
  BY <1>1, <1>2, <1>8 DEF Ack
<1>9. ASSUME NEW w \in Workers, Step(w) PROVE job'[n].status # "NONE" /\ job'[n].window = v
  <2>1. UNCHANGED job \/ Ack(w) \/ \E j \in Jobs : Claim(w, j)
    BY <1>9 DEF Step, Consume, ReadConfig, Refuse, InsertAttempt, Upload, Commit, FailAttempt,
                SelectSurplus, DeleteObject, DeleteFails, MarkFails, SkipObject, MarkRetired,
                RecordRetention, Crash, StatementFails
  <2> QED
    BY <1>3, <1>7, <1>8, <2>1
<1> QED
  BY <1>3, <1>4, <1>5, <1>6, <1>9 DEF Next, Step, vars, ConfigureTarget, TestConnection, SetSchedule,
     TimePasses, SelectDue, RecordMissed, AdvanceWindow, SchedulerStops, schedule

\* Wherever the scheduler stops, a window it has left behind has its backup queued.
THEOREM WindowsKept == Spec => []NoWindowLost
<1>1. Init => WindowInv
  BY DEF Init, WindowInv, NoWindowLost
<1>2. TypeOK /\ WindowInv /\ [Next]_vars => WindowInv'
  <2> SUFFICES ASSUME TypeOK, WindowInv, [Next]_vars PROVE WindowInv'
    OBVIOUS
  <2>1. \A v : Queued(v) => Queued(v)'
    BY QueuedStays
  <2>2. CASE UNCHANGED <<window, sched>>
    BY <2>1, <2>2 DEF WindowInv, NoWindowLost, Queued
  <2>3. CASE AdvanceWindow
    <3>1. \A v \in 0..(window' - 1) : v \in 0..(window - 1) \/ v = window
      BY <2>3 DEF AdvanceWindow, TypeOK
    <3>2. \A v \in 0..(window' - 1) : Queued(v)
      BY <2>3, <3>1 DEF AdvanceWindow, WindowInv, NoWindowLost, Queued
    <3>3. sched' = "idle"
      BY <2>3 DEF AdvanceWindow
    <3> QED
      BY <2>1, <3>2, <3>3 DEF WindowInv, NoWindowLost, Queued
  <2>4. CASE SendScheduled
    <3>1. Queued(window)'
      BY <2>4 DEF SendScheduled, Queued, TypeOK, JobRows, Jobs
    <3> QED
      BY <2>1, <2>4, <3>1 DEF SendScheduled, WindowInv, NoWindowLost, Queued
  <2>5. CASE window' = window /\ sched' # "sent"
    BY <2>1, <2>5 DEF WindowInv, NoWindowLost, Queued
  <2>6. ASSUME NEW w \in Workers, Step(w) PROVE UNCHANGED <<window, sched>>
    BY <2>6 DEF Step, Consume, Claim, ReadConfig, Refuse, InsertAttempt, Upload, Commit, FailAttempt,
                SelectSurplus, DeleteObject, DeleteFails, MarkFails, SkipObject, MarkRetired,
                RecordRetention, Ack, Crash, Release, StatementFails, schedule
  <2> QED
    BY <2>2, <2>3, <2>4, <2>5, <2>6 DEF Next, Step, vars, schedule, ConfigureTarget, TestConnection,
       SetSchedule, RequestBackup, TimePasses, SelectDue, RecordMissed, SchedulerStops, LeaseExpires
<1>3. WindowInv => NoWindowLost
  BY DEF WindowInv
<1> QED
  BY <1>1, <1>2, <1>3, TypeCorrect, PTL DEF Spec
=============================================================================
