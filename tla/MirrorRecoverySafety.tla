------------------------ MODULE MirrorRecoverySafety ------------------------
(* For every set of rows, shards, executions and scripts: MirrorRecovery     *)
(* keeps its types, its executions touch only their own database rows, and   *)
(* the plan's rows are inserted at most once.  The invariant says what holds *)
(* inside the transaction: from its first look to its commit nobody else     *)
(* changes the database or the journal.  When no manual script ignores the   *)
(* history lock, publication adds the plan's rows and nothing else, over     *)
(* shards the plan knows, and the database phase ends in an exact mirror:    *)
(* there the invariant follows each shard from what the plan saw to what the *)
(* plan makes of it.  The last part shows that what executions leave behind  *)
(* when they die is what a later one needs in order not to refuse.           *)
EXTENDS MirrorRecoveryProps, RealAppendTypes

-----------------------------------------------------------------------------
(* Types.                                                                    *)

LEMMA NewRunType == NewRun \in RunState
  BY TableTypes, TableAssumption DEF NewRun, RunState, Outcomes

LEMMA PlanTypes ==
    ASSUME TypeOK
    PROVE  /\ LegacyShards \subseteq Shards
           /\ MissingIds \subseteq RowIds
           /\ \A t \in Table : Image(t) \in Table
           /\ \A t \in Table, s \in Shards : OnlyShard(t, s) \in Table
           /\ Inserted \in Database /\ WithoutInserted \in Database
  <1>1. plan.hist \in Table /\ plan.db \in Database /\ db \in Database
    BY DEF TypeOK
  <1>2. LegacyShards \subseteq Shards /\ MissingIds \subseteq RowIds
    BY TableAssumption DEF LegacyShards, LegacyIds, MissingIds, Stored, Ids
  <1>3. ASSUME NEW t \in Table PROVE Image(t) \in Table
    <2>1. ASSUME NEW id \in LegacyIds PROVE plan.db[id] \in Hashes
      BY <1>1, <2>1 DEF LegacyIds, Stored, Database
    <2>. QED
      BY <2>1 DEF Image, Table
  <1>4. ASSUME NEW t \in Table, NEW s \in Shards PROVE OnlyShard(t, s) \in Table
    BY TableTypes DEF OnlyShard
  <1>5. Inserted \in Database
    BY <1>1, TableTypes DEF Inserted
  <1>6. WithoutInserted \in Database
    BY <1>1 DEF WithoutInserted, Database
  <1>. QED
    BY <1>2, <1>3, <1>4, <1>5, <1>6

LEMMA AfterType ==
    ASSUME TypeOK, NEW r \in Runs
    PROVE  After(r) \in Table
  <1>1. run[r].before \in Table /\ run[r].shard \in Shards
    BY DEF TypeOK, RunState
  <1>. QED
    BY <1>1, PlanTypes DEF After

LEMMA GotoType ==
    ASSUME TypeOK, NEW r \in Runs, NEW label \in Pc, Goto(r, label)
    PROVE  pc' \in [Runs -> Pc]
  BY DEF TypeOK, Goto

LEMMA EndType ==
    ASSUME TypeOK, NEW r \in Runs, NEW outcome \in Outcomes, End(r, outcome)
    PROVE  run' \in [Runs -> RunState] /\ pc' \in [Runs -> Pc]
  <1>1. [NewRun EXCEPT !.outcome = outcome] \in RunState
    BY NewRunType DEF RunState
  <1>. QED
    BY <1>1 DEF End, Goto, Pc, TypeOK

LEMMA RefuseType ==
    ASSUME TypeOK, NEW r \in Runs, Refuse(r)
    PROVE  run' \in [Runs -> RunState] /\ pc' \in [Runs -> Pc]
  BY EndType DEF Refuse, Outcomes

\* A change of one execution's prepared context.
LEMMA RunType ==
    ASSUME TypeOK, NEW r \in Runs, NEW x \in RunState,
           run' = [run EXCEPT ![r] = x]
    PROVE  run' \in [Runs -> RunState]
  BY DEF TypeOK

\* The steps of an execution, its failure and its death keep the types.
LEMMA RunStepType ==
    ASSUME TypeOK, NEW r \in Runs, RunStep(r) \/ Fail(r) \/ Crash(r)
    PROVE  TypeOK'
  <1>. USE DEF TypeOK, RaTypeOK, stores, locks, saved, raVars, RemoveLockFile
  <1>0. run[r] \in RunState /\ r \in Procs
    BY RecoveryAssumption
  <1>1. CASE LockHistory(r)
    <2>1. pc' \in [Runs -> Pc] /\ run' \in [Runs -> RunState]
      BY <1>1, GotoType, EndType DEF LockHistory, Pc, Outcomes
    <2>. QED
      BY <1>1, <2>1 DEF LockHistory
  <1>2. CASE CheckAppendLock(r)
    <2>1. pc' \in [Runs -> Pc] /\ run' \in [Runs -> RunState]
      BY <1>2, GotoType, EndType DEF CheckAppendLock, Pc, Outcomes
    <2>. QED
      BY <1>2, <2>1 DEF CheckAppendLock
  <1>3. CASE TakeAppendLock(r)
    <2>1. pc' \in [Runs -> Pc] /\ run' \in [Runs -> RunState]
      BY <1>3, GotoType, EndType DEF TakeAppendLock, Pc, Outcomes
    <2>. QED
      BY <1>0, <1>3, <2>1 DEF TakeAppendLock
  <1>4. CASE Open(r)
    <2>1. CASE Refuse(r)
      BY <1>4, <2>1, RefuseType DEF Open
    <2>2. CASE Goto(r, "manifest")
               /\ run' = [run EXCEPT ![r].expected = hist,
                     ![r].published = \A s \in LegacyShards : Published(s)]
      <3>1. run' \in [Runs -> RunState]
        <4>1. (\A s \in LegacyShards : Published(s)) \in BOOLEAN
          OBVIOUS
        <4>. QED
          BY <1>0, <2>2, <4>1 DEF RunState
      <3>2. pc' \in [Runs -> Pc]
        BY <2>2, GotoType DEF Pc
      <3>. QED
        BY <1>4, <3>1, <3>2 DEF Open
    <2>. QED
      BY <1>4, <2>1, <2>2 DEF Open
  <1>5. CASE SaveManifest(r)
    <2>1. pc' \in [Runs -> Pc] /\ run' \in [Runs -> RunState]
      BY <1>5, GotoType, RefuseType DEF SaveManifest, Pc
    <2>. QED
      BY <1>5, <2>1 DEF SaveManifest
  <1>6. CASE SaveLockReceipt(r)
    <2>1. pc' \in [Runs -> Pc]
      BY <1>6, GotoType DEF SaveLockReceipt, Pc
    <2>. QED
      BY <1>6, <2>1 DEF SaveLockReceipt
  <1>7. CASE BeginPublish(r)
    <2>1. pc' \in [Runs -> Pc]
      BY <1>7, GotoType, RefuseType DEF BeginPublish, Pc
    <2>2. run' \in [Runs -> RunState]
      <3>1. CASE run' = [run EXCEPT ![r].todo = LegacyShards]
        BY <1>0, <3>1, PlanTypes DEF RunState
      <3>. QED
        BY <1>7, <3>1, RefuseType DEF BeginPublish
    <2>. QED
      BY <1>7, <2>1, <2>2 DEF BeginPublish
  <1>8. CASE NextShard(r)
    <2>1. pc' \in [Runs -> Pc]
      BY <1>8, GotoType, RefuseType DEF NextShard, Pc
    <2>2. run' \in [Runs -> RunState]
      <3>1. CASE Refuse(r)
        BY <3>1, RefuseType
      <3>2. CASE run' = [run EXCEPT ![r].published = TRUE]
        BY <1>0, <3>2 DEF RunState
      <3>3. ASSUME NEW s \in run[r].todo,
                   run' = [run EXCEPT ![r].todo = @ \ {s}]
            PROVE  run' \in [Runs -> RunState]
        BY <1>0, <3>3 DEF RunState
      <3>4. ASSUME NEW s \in run[r].todo,
                   run' = [run EXCEPT ![r].todo = @ \ {s}, ![r].shard = s,
                                      ![r].before = OnlyShard(hist, s)]
            PROVE  run' \in [Runs -> RunState]
        <4>1. s \in Shards /\ OnlyShard(hist, s) \in Table
          BY <1>0, PlanTypes DEF RunState
        <4>. QED
          BY <1>0, <3>4, <4>1 DEF RunState
      <3>. QED
        BY <1>8, <3>1, <3>2, <3>3, <3>4 DEF NextShard
    <2>. QED
      BY <1>8, <2>1, <2>2 DEF NextShard
  <1>9. CASE SaveBackup(r)
    <2>1. pc' \in [Runs -> Pc]
      BY <1>9, GotoType DEF SaveBackup, Pc
    <2>. QED
      BY <1>0, <1>9, <2>1 DEF SaveBackup, RunState
  <1>10. CASE SaveReceipt(r)
    <2>1. pc' \in [Runs -> Pc] /\ run' \in [Runs -> RunState]
      BY <1>10, GotoType, RefuseType DEF SaveReceipt, Pc
    <2>2. [before |-> run[r].before, after |-> After(r)] \in Receipt
      BY <1>0, AfterType DEF Receipt, RunState
    <2>3. receipts' \in [Shards -> Receipt]
      BY <1>10, <2>2 DEF SaveReceipt
    <2>. QED
      BY <1>10, <2>1, <2>3 DEF SaveReceipt
  <1>11. CASE CheckShard(r)
    <2>1. pc' \in [Runs -> Pc] /\ run' \in [Runs -> RunState]
      BY <1>11, GotoType, RefuseType DEF CheckShard, Pc
    <2>. QED
      BY <1>11, <2>1 DEF CheckShard
  <1>12. CASE RenameShard(r)
    <2>1. pc' \in [Runs -> Pc]
      BY <1>12, GotoType DEF RenameShard, Pc
    <2>2. hist' \in Table
      BY <1>12, AfterType, TableTypes DEF RenameShard
    <2>. QED
      BY <1>12, <2>1, <2>2 DEF RenameShard
  <1>13. CASE Readback(r)
    <2>1. pc' \in [Runs -> Pc]
      BY <1>13, GotoType, RefuseType DEF Readback, Pc
    <2>2. run' \in [Runs -> RunState]
      <3>1. CASE Refuse(r)
        BY <3>1, RefuseType
      <3>2. CASE run' = [run EXCEPT
                   ![r].expected = PutShards(@, hist, {run[r].shard}),
                   ![r].before = EmptyTable]
        <4>1. run[r].expected \in Table
          BY <1>0 DEF RunState
        <4>2. PutShards(run[r].expected, hist, {run[r].shard}) \in Table
              /\ EmptyTable \in Table
          BY <4>1, TableTypes
        <4>. QED
          BY <1>0, <3>2, <4>2 DEF RunState
      <3>. QED
        BY <1>13, <3>1, <3>2 DEF Readback
    <2>. QED
      BY <1>13, <2>1, <2>2 DEF Readback
  <1>14. CASE BeginApply(r)
    <2>1. pc' \in [Runs -> Pc] /\ run' \in [Runs -> RunState]
      BY <1>14, GotoType, EndType, RefuseType DEF BeginApply, Pc, Outcomes
    <2>. QED
      BY <1>14, <2>1 DEF BeginApply
  <1>15. CASE Validate(r)
    <2>1. pc' \in [Runs -> Pc] /\ run' \in [Runs -> RunState]
      BY <1>15, GotoType, RefuseType DEF Validate, Pc
    <2>. QED
      BY <1>15, <2>1 DEF Validate
  <1>16. CASE Commit(r)
    <2>1. pc' \in [Runs -> Pc] /\ run' \in [Runs -> RunState]
      BY <1>16, EndType DEF Commit, Outcomes
    <2>2. db' \in Database /\ MissingIds \subseteq RowIds
      BY <1>16, PlanTypes DEF Commit
    <2>. QED
      BY <1>16, <2>1, <2>2 DEF Commit
  <1>17. CASE Rollback(r)
    <2>1. pc' \in [Runs -> Pc] /\ run' \in [Runs -> RunState]
      BY <1>17, EndType, RefuseType DEF Rollback, Outcomes
    <2>2. db' \in Database
      BY <1>17, PlanTypes DEF Rollback
    <2>3. journal' \in [state: {"none", "APPLIED", "ROLLED_BACK"},
                        rows: SUBSET RowIds]
      BY <1>17 DEF Rollback, AfterRollback
    <2>. QED
      BY <1>17, <2>1, <2>2, <2>3 DEF Rollback
  <1>18. CASE Release(r)
    <2>1. pc' \in [Runs -> Pc]
      BY <1>18, GotoType DEF Release, Pc
    <2>. QED
      BY <1>18, <2>1 DEF Release
  <1>19. CASE Fail(r)
    <2>1. pc' \in [Runs -> Pc] /\ run' \in [Runs -> RunState]
      BY <1>19, EndType DEF Fail, Outcomes
    <2>. QED
      BY <1>19, <2>1 DEF Fail
  <1>20. CASE Crash(r)
    <2>1. [NewRun EXCEPT !.outcome = Remembered(r)] \in RunState
      <3>1. Remembered(r) \in Outcomes
        BY DEF Remembered, Outcomes
      <3>. QED
        BY <3>1, NewRunType DEF RunState
    <2>2. pc' \in [Runs -> Pc] /\ run' \in [Runs -> RunState]
      BY <1>20, <2>1, GotoType DEF Crash, Pc
    <2>. QED
      BY <1>20, <2>2 DEF Crash
  <1>. QED
    BY <1>1, <1>2, <1>3, <1>4, <1>5, <1>6, <1>7, <1>8, <1>9, <1>10, <1>11,
       <1>12, <1>13, <1>14, <1>15, <1>16, <1>17, <1>18, <1>19, <1>20
    DEF RunStep

\* The environment keeps the types.
LEMMA EnvironmentType ==
    ASSUME TypeOK, Environment
    PROVE  TypeOK'
  <1>. USE DEF TypeOK, RaTypeOK, locks, saved, raVars, RemoveLockFile
  <1>1. CASE JobAppends
    <2>. PICK id \in RowIds, hash \in Hashes :
            /\ hist' = [hist EXCEPT ![id] = <<hash>>]
            /\ \/ UNCHANGED db
               \/ db' = [db EXCEPT ![id] = hash]
      BY <1>1 DEF JobAppends
    <2>1. hist' \in Table
      BY DEF Table
    <2>2. db' \in Database
      BY DEF Database
    <2>3. edits' \in 0..MaxEdits
      BY <1>1, RecoveryAssumption DEF JobAppends, Edit
    <2>. QED
      BY <1>1, <2>1, <2>2, <2>3 DEF JobAppends
  <1>2. CASE OtherDbEdit
    <2>1. db' \in Database
      BY <1>2 DEF OtherDbEdit, Database
    <2>2. edits' \in 0..MaxEdits
      BY <1>2, RecoveryAssumption DEF OtherDbEdit, Edit
    <2>. QED
      BY <1>2, <2>1, <2>2 DEF OtherDbEdit
  <1>3. CASE AgeLock
    BY <1>3 DEF AgeLock
  <1>4. CASE OperatorRemovesLock
    BY <1>4 DEF OperatorRemovesLock
  <1>5. ASSUME NEW m \in Scripts, ScriptStarts(m)
        PROVE  TypeOK'
    <2>1. edits' \in 0..MaxEdits
      BY <1>5, RecoveryAssumption DEF ScriptStarts, Edit
    <2>2. RaTypeOK'
      BY <1>5, RaStartType, RecoveryAssumption DEF ScriptStarts
    <2>. QED
      BY <1>5, <2>1, <2>2 DEF ScriptStarts
  <1>6. ASSUME NEW m \in Scripts, ScriptStep(m)
        PROVE  TypeOK'
    <2>1. RaTypeOK'
      BY <1>6, RaStepType, RecoveryAssumption DEF ScriptStep
    <2>. QED
      BY <1>6, <2>1 DEF ScriptStep
  <1>7. ASSUME NEW m \in Scripts, ScriptDies(m)
        PROVE  TypeOK'
    <2>1. ra' \in [Procs -> RaState]
      BY <1>7, RaIdleType DEF ScriptDies
    <2>. QED
      BY <1>7, <2>1 DEF ScriptDies
  <1>. QED
    BY <1>1, <1>2, <1>3, <1>4, <1>5, <1>6, <1>7 DEF Environment

LEMMA TypeInit == Init => TypeOK
  <1>. SUFFICES ASSUME Init PROVE TypeOK
    OBVIOUS
  <1>1. PICK start \in Starts :
            /\ hist = start[1] /\ db = start[2]
            /\ plan = [hist |-> start[1], db |-> start[2]]
    BY DEF Init
  <1>2. start[1] \in Table /\ start[2] \in Database
    BY RecoveryAssumption
  <1>3. RaTypeOK
    BY <1>1, <1>2, RaIdleType DEF Init, RaInit, RaTypeOK
  <1>4. receipts \in [Shards -> Receipt]
    BY TableTypes DEF Init, Receipt, NoReceipt
  <1>5. run \in [Runs -> RunState]
    BY NewRunType DEF Init
  <1>6. edits \in 0..MaxEdits
    BY RecoveryAssumption DEF Init
  <1>. QED
    BY <1>1, <1>2, <1>3, <1>4, <1>5, <1>6 DEF Init, TypeOK, Pc

LEMMA TypeStep == TypeOK /\ [Next]_vars => TypeOK'
  <1>. SUFFICES ASSUME TypeOK, [Next]_vars PROVE TypeOK'
    OBVIOUS
  <1>1. ASSUME NEW r \in Runs, RunStep(r) \/ Fail(r) \/ Crash(r)
        PROVE  TypeOK'
    BY <1>1, RunStepType
  <1>2. CASE Environment
    BY <1>2, EnvironmentType
  <1>3. CASE UNCHANGED vars
    BY <1>3 DEF vars, raVars, locks, saved, TypeOK, RaTypeOK
  <1>. QED
    BY <1>1, <1>2, <1>3 DEF Next

\* MirrorRecovery is type correct whatever the sets and the plan.
THEOREM RecoveryTypeCorrect == Spec => []TypeOK
  BY TypeInit, TypeStep, PTL DEF Spec
-----------------------------------------------------------------------------
(* The transaction.                                                          *)

\* From its first look to its commit an execution holds the database, which
\* is the plan's and bears no record of it.
TxnInv ==
    \A r \in Runs : pc[r] \in {"validate", "commit"} =>
        dblock = r /\ db = plan.db /\ journal.state = "none"

\* The journal names rows of the plan, and forgets no application.
JournalInv ==
    /\ journal.rows \subseteq MissingIds
    /\ (\E r \in Runs : run[r].outcome = "applied") => journal.state # "none"

SafetyInv == TypeOK /\ TxnInv /\ JournalInv /\ InsertedOnce

\* A step of r outside the transaction, or one that ends it for nothing.
Quiet(r) ==
    /\ UNCHANGED <<db, journal, plan, edits>>
    /\ \/ UNCHANGED dblock
       \/ dblock = r /\ dblock' = NoProc
    /\ \A q \in Runs : q # r =>
           pc'[q] = pc[q] /\ run'[q].outcome = run[q].outcome
    /\ pc'[r] \notin {"validate", "commit"}
    /\ run'[r].outcome = "applied" => run[r].outcome = "applied"

LEMMA QuietEnd ==
    ASSUME TypeOK, NEW r \in Runs, NEW outcome \in Outcomes \ {"applied"},
           End(r, outcome)
    PROVE  /\ \A q \in Runs : q # r =>
                  pc'[q] = pc[q] /\ run'[q].outcome = run[q].outcome
           /\ pc'[r] = "release" /\ run'[r].outcome = outcome
  BY NewRunType DEF TypeOK, End, Goto, NewRun

LEMMA QuietRefuse ==
    ASSUME TypeOK, NEW r \in Runs, Refuse(r)
    PROVE  /\ \A q \in Runs : q # r =>
                  pc'[q] = pc[q] /\ run'[q].outcome = run[q].outcome
           /\ pc'[r] = "release" /\ run'[r].outcome = "refused"
  BY QuietEnd DEF Refuse, Outcomes

\* The steps that are not quiet.
Begins(r) == BeginApply(r) /\ dblock' = r
Validates(r) == Validate(r) /\ dblock' = dblock
RollsBack(r) == Rollback(r) /\ journal.state = "APPLIED" /\ db' = WithoutInserted
                /\ \A id \in journal.rows : db[id] = Union[id]

LEMMA StepIsQuiet ==
    ASSUME TypeOK, TxnInv, NEW r \in Runs, RunStep(r) \/ Fail(r) \/ Crash(r)
    PROVE  Quiet(r) \/ Begins(r) \/ Validates(r) \/ Commit(r) \/ RollsBack(r)
  <1>. USE DEF Quiet, stores, locks, saved, raVars, Goto
  <1>0. pc \in [Runs -> Pc] /\ run \in [Runs -> RunState] /\ run[r] \in RunState
    BY DEF TypeOK
  <1>1. CASE LockHistory(r)
    BY <1>0, <1>1, QuietEnd DEF LockHistory, Outcomes
  <1>2. CASE CheckAppendLock(r)
    BY <1>0, <1>2, QuietEnd DEF CheckAppendLock, Outcomes
  <1>3. CASE TakeAppendLock(r)
    BY <1>0, <1>3, QuietEnd DEF TakeAppendLock, Outcomes
  <1>4. CASE Open(r)
    BY <1>0, <1>4, QuietRefuse DEF Open, RunState
  <1>5. CASE SaveManifest(r)
    BY <1>0, <1>5, QuietRefuse DEF SaveManifest
  <1>6. CASE SaveLockReceipt(r)
    BY <1>0, <1>6 DEF SaveLockReceipt
  <1>7. CASE BeginPublish(r)
    BY <1>0, <1>7, QuietRefuse DEF BeginPublish, RunState
  <1>8. CASE NextShard(r)
    <2>1. CASE Refuse(r)
      BY <1>8, <2>1, QuietRefuse DEF NextShard
    <2>2. ASSUME NEW s \in run[r].todo,
                 \/ run' = [run EXCEPT ![r].todo = @ \ {s}] /\ UNCHANGED pc
                 \/ /\ run' = [run EXCEPT ![r].todo = @ \ {s},
                            ![r].shard = s, ![r].before = OnlyShard(hist, s)]
                    /\ pc' = [pc EXCEPT ![r] = "backup"]
          PROVE  Quiet(r)
      <3>1. UNCHANGED <<db, journal, plan, edits, dblock>>
        BY <1>8 DEF NextShard
      <3>2. /\ \A q \in Runs : q # r => run'[q] = run[q] /\ pc'[q] = pc[q]
            /\ pc'[r] \in {"shard", "backup"}
        BY <1>0, <1>8, <2>2 DEF NextShard
      <3>3. run'[r].outcome = run[r].outcome
        BY <1>0, <2>2 DEF RunState
      <3>. QED
        BY <3>1, <3>2, <3>3
    <2>3. CASE /\ run' = [run EXCEPT ![r].published = TRUE]
               /\ pc' = [pc EXCEPT ![r] = "apply"]
      BY <1>0, <1>8, <2>3 DEF NextShard, RunState
    <2>. QED
      BY <1>8, <2>1, <2>2, <2>3 DEF NextShard
  <1>9. CASE SaveBackup(r)
    BY <1>0, <1>9 DEF SaveBackup
  <1>10. CASE SaveReceipt(r)
    BY <1>0, <1>10, QuietRefuse DEF SaveReceipt
  <1>11. CASE CheckShard(r)
    BY <1>0, <1>11, QuietRefuse DEF CheckShard
  <1>12. CASE RenameShard(r)
    BY <1>0, <1>12 DEF RenameShard
  <1>13. CASE Readback(r)
    BY <1>0, <1>13, QuietRefuse DEF Readback, RunState
  <1>14. CASE BeginApply(r)
    BY <1>0, <1>14, QuietRefuse, QuietEnd DEF BeginApply, Begins, Outcomes
  <1>15. CASE Validate(r)
    <2>1. CASE UNCHANGED dblock
      BY <1>15, <2>1 DEF Validates
    <2>2. CASE dblock' # dblock
      <3>1. dblock = r
        BY <1>15 DEF Validate, TxnInv
      <3>. QED
        BY <1>0, <1>15, <2>2, <3>1, QuietRefuse DEF Validate
    <2>. QED
      BY <2>1, <2>2
  <1>16. CASE Rollback(r)
    BY <1>0, <1>16, QuietRefuse DEF Rollback, RollsBack
  <1>17. CASE Release(r)
    BY <1>0, <1>17 DEF Release
  <1>18. CASE Fail(r)
    BY <1>0, <1>18, QuietEnd DEF Fail, Outcomes
  <1>19. CASE Crash(r)
    BY <1>0, <1>19 DEF Crash, NewRun, Remembered
  <1>. QED
    BY <1>1, <1>2, <1>3, <1>4, <1>5, <1>6, <1>7, <1>8, <1>9, <1>10, <1>11,
       <1>12, <1>13, <1>14, <1>15, <1>16, <1>17, <1>18, <1>19
    DEF RunStep

\* A quiet step keeps the invariant.
LEMMA QuietKeeps ==
    ASSUME SafetyInv, TypeOK', NEW r \in Runs, Quiet(r)
    PROVE  SafetyInv'
  <1>. USE DEF SafetyInv, Quiet
  <1>1. TxnInv'
    BY DEF TxnInv
  <1>2. \A q \in Runs : run'[q].outcome = "applied" => run[q].outcome = "applied"
    OBVIOUS
  <1>3. JournalInv'
    BY <1>2 DEF JournalInv, MissingIds
  <1>4. InsertedOnce'
    BY <1>2 DEF InsertedOnce
  <1>. QED
    BY <1>1, <1>3, <1>4

\* So do a step of the environment and a stuttering step.
LEMMA EnvironmentKeeps ==
    ASSUME SafetyInv, TypeOK', Environment \/ UNCHANGED vars
    PROVE  SafetyInv'
  <1>. USE DEF SafetyInv
  <1>1. UNCHANGED <<dblock, journal, plan, pc, run>>
    BY DEF Environment, JobAppends, OtherDbEdit, AgeLock, OperatorRemovesLock,
           ScriptStarts, ScriptStep, ScriptDies, vars, locks
  <1>2. UNCHANGED db \/ dblock = NoProc
    BY DEF Environment, JobAppends, OtherDbEdit, AgeLock, OperatorRemovesLock,
           ScriptStarts, ScriptStep, ScriptDies, vars
  <1>3. \A r \in Runs : r # NoProc
    BY ProcAssumption, RecoveryAssumption
  <1>4. TxnInv'
    BY <1>1, <1>2, <1>3 DEF TxnInv
  <1>5. JournalInv' /\ InsertedOnce'
    BY <1>1 DEF JournalInv, InsertedOnce, MissingIds
  <1>. QED
    BY <1>4, <1>5

LEMMA SafetyInit == Init => SafetyInv
  <1>. SUFFICES ASSUME Init PROVE SafetyInv
    OBVIOUS
  <1>1. \A r \in Runs : pc[r] = "new" /\ run[r].outcome = "none"
    BY DEF Init, NewRun
  <1>2. journal.rows = {}
    BY DEF Init
  <1>. QED
    BY <1>1, <1>2, TypeInit DEF SafetyInv, TxnInv, JournalInv, InsertedOnce

LEMMA SafetyStep == SafetyInv /\ [Next]_vars => SafetyInv'
  <1>. SUFFICES ASSUME SafetyInv, [Next]_vars PROVE SafetyInv'
    OBVIOUS
  <1>. USE DEF SafetyInv
  <1>1. TypeOK'
    BY TypeStep
  <1>2. ASSUME NEW r \in Runs, RunStep(r) \/ Fail(r) \/ Crash(r)
        PROVE  SafetyInv'
    <2>0. /\ pc \in [Runs -> Pc] /\ run \in [Runs -> RunState]
          /\ run[r] \in RunState /\ r # NoProc
      BY ProcAssumption, RecoveryAssumption DEF TypeOK
    <2>1. CASE Quiet(r)
      BY <1>1, <2>1, QuietKeeps
    <2>2. CASE Begins(r)
      <3>1. /\ dblock = NoProc /\ dblock' = r /\ FirstApply(r)
            /\ pc' = [pc EXCEPT ![r] = "validate"] /\ UNCHANGED run
        BY <2>0, <2>2 DEF Begins, BeginApply, Goto
      <3>2. UNCHANGED <<db, journal, plan>>
        BY <2>2 DEF Begins, BeginApply, stores
      <3>3. TxnInv'
        BY <2>0, <3>1, <3>2, ProcAssumption, RecoveryAssumption
        DEF TxnInv, FirstApply
      <3>. QED
        BY <1>1, <3>1, <3>2, <3>3 DEF JournalInv, InsertedOnce, MissingIds
    <2>3. CASE Validates(r)
      <3>1. pc[r] = "validate" /\ dblock' = dblock
            /\ UNCHANGED <<db, journal, plan>>
        BY <2>3 DEF Validates, Validate, stores
      <3>2. CASE pc' = [pc EXCEPT ![r] = "commit"] /\ UNCHANGED run
        BY <1>1, <3>1, <3>2 DEF TxnInv, JournalInv, InsertedOnce, MissingIds
      <3>3. CASE Refuse(r) /\ dblock' = NoProc
        BY <2>0, <3>1, <3>3 DEF TxnInv
      <3>. QED
        BY <2>3, <3>2, <3>3 DEF Validates, Validate, Goto
    <2>4. CASE Commit(r)
      <3>1. pc[r] = "commit" /\ dblock = r /\ journal.state = "none"
        BY <2>4 DEF Commit, TxnInv
      <3>2. /\ journal' = [state |-> "APPLIED", rows |-> MissingIds]
            /\ UNCHANGED plan
            /\ pc' = [pc EXCEPT ![r] = "release"]
            /\ run' = [run EXCEPT ![r] = [NewRun EXCEPT !.outcome = "applied"]]
        BY <2>4 DEF Commit, End, Goto
      <3>3. \A q \in Runs : run[q].outcome # "applied"
        BY <3>1 DEF JournalInv
      <3>4. TxnInv'
        BY <2>0, <3>1, <3>2 DEF TxnInv
      <3>5. JournalInv'
        BY <3>2 DEF JournalInv, MissingIds
      <3>6. InsertedOnce'
        BY <2>0, <3>2, <3>3 DEF InsertedOnce
      <3>. QED
        BY <1>1, <3>4, <3>5, <3>6
    <2>5. CASE RollsBack(r)
      <3>1. /\ dblock = NoProc /\ dblock' = dblock /\ UNCHANGED plan
        BY <2>5 DEF RollsBack, Rollback, locks
      <3>2. /\ journal.state = "APPLIED" /\ pc[r] = "rollback"
            /\ \/ journal' = [journal EXCEPT !.state = "ROLLED_BACK"]
                  /\ End(r, "rolled_back")
               \/ UNCHANGED journal /\ Refuse(r)
        BY <2>5 DEF RollsBack, Rollback, AfterRollback
      <3>3. /\ \A q \in Runs : q # r =>
                   pc'[q] = pc[q] /\ run'[q].outcome = run[q].outcome
            /\ pc'[r] = "release" /\ run'[r].outcome # "applied"
        BY <3>2, QuietEnd, QuietRefuse DEF Outcomes
      <3>4. TxnInv'
        BY <2>0, <3>1, <3>3, ProcAssumption, RecoveryAssumption DEF TxnInv
      <3>5. journal'.state # "none" /\ journal'.rows = journal.rows
        BY <3>2 DEF TypeOK
      <3>6. JournalInv'
        BY <3>1, <3>5 DEF JournalInv, MissingIds
      <3>7. InsertedOnce'
        BY <3>3 DEF InsertedOnce
      <3>. QED
        BY <1>1, <3>4, <3>6, <3>7
    <2>. QED
      BY <1>2, <2>1, <2>2, <2>3, <2>4, <2>5, StepIsQuiet
  <1>3. CASE Environment \/ UNCHANGED vars
    BY <1>1, <1>3, EnvironmentKeeps
  <1>. QED
    BY <1>2, <1>3 DEF Next

LEMMA SafetyInvariant == Spec => []SafetyInv
  BY SafetyInit, SafetyStep, PTL DEF Spec

\* The plan's rows are inserted by at most one execution, however many repeat
\* it, die after the commit or follow a rollback.
THEOREM RowsInsertedOnce == Spec => []InsertedOnce
  <1>1. SafetyInv => InsertedOnce
    BY DEF SafetyInv
  <1>. QED
    BY <1>1, SafetyInvariant, PTL
-----------------------------------------------------------------------------
(* What a step does to the database.                                         *)

DbStep ==
    edits' = edits => \A id \in RowIds : db'[id] # db[id] =>
        /\ id \in MissingIds
        /\ \/ db[id] = NoRow /\ db'[id] = RowOf(plan.hist, id)
           \/ db[id] = RowOf(plan.hist, id) /\ db'[id] = NoRow

LEMMA SafeDbStep == SafetyInv /\ [Next]_vars => DbStep
  <1>. SUFFICES ASSUME SafetyInv, [Next]_vars, edits' = edits,
                       NEW id \in RowIds, db'[id] # db[id]
                PROVE  /\ id \in MissingIds
                       /\ \/ db[id] = NoRow /\ db'[id] = RowOf(plan.hist, id)
                          \/ db[id] = RowOf(plan.hist, id) /\ db'[id] = NoRow
    BY DEF DbStep
  <1>. USE DEF SafetyInv
  <1>0. edits \in Nat /\ db \in Database /\ plan.db \in Database
    BY RecoveryAssumption DEF TypeOK
  <1>1. ASSUME NEW r \in Runs, RunStep(r) \/ Fail(r) \/ Crash(r)
        PROVE  Commit(r) \/ RollsBack(r)
    BY <1>1, StepIsQuiet DEF Quiet, Begins, BeginApply, Validates, Validate, stores
  <1>2. ASSUME NEW r \in Runs, Commit(r)
        PROVE  /\ id \in MissingIds
               /\ db[id] = NoRow /\ db'[id] = RowOf(plan.hist, id)
    <2>1. db = plan.db /\ db' = InsertRows(db, plan.hist, MissingIds)
      BY <1>2 DEF Commit, TxnInv, Inserted
    <2>2. id \in MissingIds /\ db'[id] = RowOf(plan.hist, id)
      BY <2>1, <1>0 DEF InsertRows, Database
    <2>. QED
      BY <2>1, <2>2 DEF MissingIds, Stored
  <1>3. ASSUME NEW r \in Runs, RollsBack(r)
        PROVE  /\ id \in MissingIds
               /\ db[id] = RowOf(plan.hist, id) /\ db'[id] = NoRow
    <2>1. db'[id] = IF id \in journal.rows THEN NoRow ELSE db[id]
      BY <1>3 DEF RollsBack, WithoutInserted
    <2>2. id \in journal.rows /\ id \in MissingIds
      BY <2>1 DEF JournalInv
    <2>3. db[id] = Union[id]
      BY <1>3, <2>2 DEF RollsBack
    <2>. QED
      BY <2>1, <2>2, <2>3 DEF Union, InsertRows
  <1>4. CASE Environment
    <2>1. UNCHANGED db \/ edits' = edits + 1
      BY <1>4 DEF Environment, JobAppends, OtherDbEdit, AgeLock, Edit,
         OperatorRemovesLock, ScriptStarts, ScriptStep, ScriptDies
    <2>. QED
      BY <2>1, <1>0
  <1>5. CASE UNCHANGED vars
    BY <1>5 DEF vars
  <1>. QED
    BY <1>1, <1>2, <1>3, <1>4, <1>5 DEF Next

\* Executions insert rows that history had when the plan was made, under the
\* hash it had them, and a rollback removes only such rows: nothing else of
\* the database is theirs to change.
THEOREM RecoveryScope == Spec => RecoveryTouchesOnlyItsRows
  <1>1. SafetyInv /\ [Next]_vars => [DbStep]_db
    BY SafeDbStep
  <1>. QED
    BY <1>1, SafetyInvariant, PTL DEF Spec, RecoveryTouchesOnlyItsRows, DbStep
-----------------------------------------------------------------------------
(* Shards, row by row.                                                       *)

LEMMA ShardRows ==
    ASSUME NEW t \in Table, NEW u \in Table, NEW s
    PROVE  OnlyShard(t, s) = OnlyShard(u, s)
             <=> \A id \in RowIds : ShardOf[id] = s => t[id] = u[id]
  <1>1. ASSUME OnlyShard(t, s) = OnlyShard(u, s), NEW id \in RowIds, ShardOf[id] = s
        PROVE  t[id] = u[id]
    <2>1. OnlyShard(t, s)[id] = t[id] /\ OnlyShard(u, s)[id] = u[id]
      BY <1>1 DEF OnlyShard, OnlyIds
    <2>. QED
      BY <1>1, <2>1
  <1>2. ASSUME \A id \in RowIds : ShardOf[id] = s => t[id] = u[id]
        PROVE  OnlyShard(t, s) = OnlyShard(u, s)
    BY <1>2 DEF OnlyShard, OnlyIds
  <1>. QED
    BY <1>1, <1>2

\* What the plan saw of a shard, and what it makes of it.
Original(s) == OnlyShard(hist, s) = OnlyShard(plan.hist, s)
Restored(s) == OnlyShard(hist, s) = OnlyShard(Image(plan.hist), s)

\* The image of a planned shard is its restored form.
LEMMA ImageRestores ==
    ASSUME TypeOK, NEW s, Original(s) \/ Restored(s)
    PROVE  OnlyShard(Image(hist), s) = OnlyShard(Image(plan.hist), s)
  <1>1. hist \in Table /\ plan.hist \in Table
    BY DEF TypeOK, RaTypeOK
  <1>2. Image(hist) \in Table /\ Image(plan.hist) \in Table
    BY <1>1, PlanTypes
  <1>3. ASSUME NEW id \in RowIds, ShardOf[id] = s
        PROVE  Image(hist)[id] = Image(plan.hist)[id]
    <2>1. hist[id] = plan.hist[id] \/ hist[id] = Image(plan.hist)[id]
      BY <1>1, <1>2, <1>3, ShardRows DEF Original, Restored
    <2>. QED
      BY <2>1 DEF Image
  <1>. QED
    BY <1>2, <1>3, ShardRows

\* A history restored everywhere mirrors the union of the plan's two states.
LEMMA RestoredIsUnion ==
    ASSUME TypeOK, Admissible(plan.hist, plan.db),
           \A s \in Shards : Original(s) \/ Restored(s),
           \A s \in LegacyShards : Restored(s),
           NEW id \in RowIds
    PROVE  hist[id] = IF Union[id] = NoRow THEN <<>> ELSE <<Union[id]>>
  <1>1. hist \in Table /\ plan.hist \in Table /\ plan.db \in Database
    BY DEF TypeOK, RaTypeOK
  <1>2. Image(plan.hist) \in Table
    BY <1>1, PlanTypes
  <1>3. ShardOf[id] \in Shards
    BY TableAssumption
  <1>4. hist[id] = Image(plan.hist)[id]
    <2>1. CASE ShardOf[id] \in LegacyShards
      BY <1>1, <1>2, <2>1, ShardRows DEF Restored
    <2>2. CASE ShardOf[id] \notin LegacyShards
      <3>1. id \notin LegacyIds
        BY <2>2 DEF LegacyShards
      <3>2. Image(plan.hist)[id] = plan.hist[id]
        BY <3>1 DEF Image
      <3>. QED
        BY <1>1, <1>2, <1>3, <3>2, ShardRows DEF Original, Restored
    <2>. QED
      BY <2>1, <2>2
  <1>5. plan.hist[id] \in Seq(Hashes) /\ plan.db[id] \in Hashes \cup {NoRow}
    BY <1>1 DEF Table, Database
  <1>6. CASE plan.hist[id] = <<>>
    <2>1. Union[id] = plan.db[id]
      BY <1>6 DEF Union, InsertRows, MissingIds, Ids
    <2>2. Image(plan.hist)[id] = IF plan.db[id] = NoRow THEN <<>> ELSE <<plan.db[id]>>
      BY <1>6 DEF Image, LegacyIds, Stored, Ids
    <2>. QED
      BY <1>4, <2>1, <2>2
  <1>7. CASE plan.hist[id] # <<>>
    <2>1. ~(Len(plan.hist[id]) > 1)
      BY DEF Admissible, HasDuplicates
    <2>2. /\ Len(plan.hist[id]) = 1 /\ plan.hist[id] = <<plan.hist[id][1]>>
          /\ plan.hist[id][1] \in Hashes
      BY <1>5, <1>7, <2>1, Singleton
    <2>3. RowOf(plan.hist, id) = plan.hist[id][1]
      BY <1>7, <2>2 DEF RowOf
    <2>4. Union[id] = plan.hist[id][1]
      <3>1. CASE plan.db[id] = NoRow
        BY <1>7, <2>3, <3>1 DEF Union, InsertRows, MissingIds, Ids, Stored
      <3>2. CASE plan.db[id] # NoRow
        <4>1. id \in Ids(plan.hist) \cap Stored(plan.db) /\ id \notin MissingIds
          BY <1>7, <3>2 DEF Ids, Stored, MissingIds
        <4>. QED
          BY <2>3, <4>1 DEF Admissible, Union, InsertRows
      <3>. QED
        BY <3>1, <3>2
    <2>5. Image(plan.hist)[id] = plan.hist[id]
      BY <1>7 DEF Image
    <2>6. plan.hist[id][1] # NoRow
      BY <2>2, TableAssumption
    <2>. QED
      BY <1>4, <2>2, <2>4, <2>5, <2>6
  <1>. QED
    BY <1>6, <1>7
-----------------------------------------------------------------------------
(* The invariant.                                                            *)

Locked == Pc \ {"new", "release", "done", "dead"}
Prep == {"manifest", "lockReceipt", "publish", "shard", "backup", "receipt",
         "check", "rename", "readback", "apply", "validate", "commit"}
Pending == {"backup", "receipt", "check", "rename"}
Publishing == {"shard", "readback"} \cup Pending

\* From taking the history lock to its end an execution holds it.
HoldInv == \A r \in Runs : pc[r] \in Locked => hlock = r

\* What an execution that has looked at the stores knows of the shards.
PlanInvOf(r) ==
    /\ pc[r] \in Prep => \A s \in Shards : Original(s) \/ Restored(s)
    /\ pc[r] \in Prep /\ run[r].published => \A s \in LegacyShards : Restored(s)
    /\ pc[r] \in Publishing => \A s \in LegacyShards \ run[r].todo :
           Restored(s) \/ (s = run[r].shard /\ pc[r] \in Pending)
    /\ pc[r] \in Pending => run[r].before = OnlyShard(hist, run[r].shard)
    /\ pc[r] \in {"validate", "commit"} => run[r].published

PlanInv == /\ Admissible(plan.hist, plan.db)
           /\ \A r \in Runs : PlanInvOf(r)

RestoreInv == SafetyInv /\ HoldInv /\ PlanInv

\* A step of one execution leaves the others alone, takes the history lock
\* only when it is free, and history only by a rename.
LEMMA RunEffects ==
    ASSUME TypeOK, NEW r \in Runs, RunStep(r) \/ Fail(r) \/ Crash(r)
    PROVE  /\ UNCHANGED plan
           /\ \A q \in Runs : q # r => pc'[q] = pc[q] /\ run'[q] = run[q]
           /\ \/ UNCHANGED hlock
              \/ hlock = NoProc /\ hlock' = r /\ pc[r] = "new"
              \/ hlock = r /\ hlock' = NoProc /\ pc'[r] \in {"done", "dead"}
           /\ pc[r] = "new" => pc'[r] = "release" \/ hlock' = r
           /\ pc[r] \in {"release", "done", "dead"} => pc'[r] \notin Locked
           /\ UNCHANGED hist \/ RenameShard(r)
  <1>. USE DEF TypeOK, stores, locks, saved, raVars, End, Refuse, Goto
  <1>1. CASE LockHistory(r)
    BY <1>1 DEF LockHistory
  <1>2. CASE CheckAppendLock(r)
    BY <1>2 DEF CheckAppendLock
  <1>3. CASE TakeAppendLock(r)
    BY <1>3 DEF TakeAppendLock
  <1>4. CASE Open(r)
    BY <1>4 DEF Open
  <1>5. CASE SaveManifest(r)
    BY <1>5 DEF SaveManifest
  <1>6. CASE SaveLockReceipt(r)
    BY <1>6 DEF SaveLockReceipt
  <1>7. CASE BeginPublish(r)
    BY <1>7 DEF BeginPublish
  <1>8. CASE NextShard(r)
    BY <1>8 DEF NextShard
  <1>9. CASE SaveBackup(r)
    BY <1>9 DEF SaveBackup
  <1>10. CASE SaveReceipt(r)
    BY <1>10 DEF SaveReceipt
  <1>11. CASE CheckShard(r)
    BY <1>11 DEF CheckShard
  <1>12. CASE RenameShard(r)
    BY <1>12 DEF RenameShard
  <1>13. CASE Readback(r)
    BY <1>13 DEF Readback
  <1>14. CASE BeginApply(r)
    BY <1>14 DEF BeginApply
  <1>15. CASE Validate(r)
    BY <1>15 DEF Validate
  <1>16. CASE Commit(r)
    BY <1>16 DEF Commit
  <1>17. CASE Rollback(r)
    BY <1>17 DEF Rollback
  <1>18. CASE Release(r)
    BY <1>18 DEF Release, Locked
  <1>19. CASE Fail(r)
    BY <1>19 DEF Fail
  <1>20. CASE Crash(r)
    BY <1>20 DEF Crash, Locked
  <1>. QED
    BY <1>1, <1>2, <1>3, <1>4, <1>5, <1>6, <1>7, <1>8, <1>9, <1>10, <1>11,
       <1>12, <1>13, <1>14, <1>15, <1>16, <1>17, <1>18, <1>19, <1>20
    DEF RunStep

LEMMA HoldStep ==
    ASSUME TypeOK, HoldInv, NEW r \in Runs, RunStep(r) \/ Fail(r) \/ Crash(r)
    PROVE  HoldInv'
  <1>. SUFFICES ASSUME NEW q \in Runs, pc'[q] \in Locked PROVE hlock' = q
    BY DEF HoldInv
  <1>0. q # NoProc /\ r # NoProc
    BY ProcAssumption, RecoveryAssumption
  <1>1. CASE q # r
    BY <1>0, <1>1, RunEffects DEF HoldInv
  <1>2. CASE q = r
    <2>1. pc'[r] \notin {"new", "release", "done", "dead"}
      BY <1>2 DEF Locked
    <2>2. pc[r] \in Pc
      BY DEF TypeOK
    <2>3. CASE pc[r] = "new"
      BY <1>2, <2>1, <2>3, RunEffects
    <2>4. CASE pc[r] \in Locked
      BY <1>2, <2>1, <2>4, RunEffects DEF HoldInv, Locked
    <2>5. CASE pc[r] \in {"release", "done", "dead"}
      BY <1>2, <2>5, RunEffects
    <2>. QED
      BY <2>2, <2>3, <2>4, <2>5 DEF Locked
  <1>. QED
    BY <1>1, <1>2

\* An execution that has looked at the stores holds the lock, so that its own
\* steps alone can change what it knows.
LEMMA OthersKeepPlanInv ==
    ASSUME TypeOK, HoldInv, PlanInv, NEW r \in Runs,
           RunStep(r) \/ Fail(r) \/ Crash(r), NEW q \in Runs, q # r
    PROVE  PlanInvOf(q)'
  <1>1. pc'[q] = pc[q] /\ run'[q] = run[q] /\ plan' = plan
    BY RunEffects
  <1>2. CASE pc[q] \notin Prep
    <2>1. pc[q] \notin Publishing \cup Pending \cup {"validate", "commit"}
      BY <1>2 DEF Prep, Publishing, Pending
    <2>. QED
      BY <1>1, <1>2, <2>1 DEF PlanInvOf
  <1>3. CASE pc[q] \in Prep
    <2>1. hlock = q
      BY <1>3 DEF HoldInv, Locked, Prep, Pc
    <2>2. pc[r] # "rename"
      BY <2>1 DEF HoldInv, Locked, Pc
    <2>3. hist' = hist
      BY <2>2, RunEffects DEF RenameShard
    <2>. QED
      BY <1>1, <2>3 DEF PlanInv, PlanInvOf, Original, Restored, LegacyShards,
         LegacyIds, Image
  <1>. QED
    BY <1>2, <1>3

\* A look at the stores that finds the plan's states, or its own work on them.
LEMMA OpenKeepsPlanInv ==
    ASSUME TypeOK, NEW r \in Runs, Open(r)
    PROVE  PlanInvOf(r)'
  <1>. USE DEF Goto
  <1>1. UNCHANGED <<hist, plan>>
    BY DEF Open, stores
  <1>2. CASE Refuse(r)
    BY <1>2, QuietRefuse DEF PlanInvOf, Prep, Publishing, Pending
  <1>3. CASE /\ Prepared
             /\ run' = [run EXCEPT ![r].expected = hist,
                   ![r].published = \A s \in LegacyShards : Published(s)]
             /\ pc' = [pc EXCEPT ![r] = "manifest"]
    <2>0. hist \in Table /\ plan.hist \in Table /\ LegacyShards \subseteq Shards
      BY PlanTypes DEF TypeOK, RaTypeOK
    <2>1. pc'[r] = "manifest"
      BY <1>3 DEF TypeOK
    <2>2. run'[r].published = (\A s \in LegacyShards : Published(s))
      BY <1>3 DEF TypeOK, RunState
    <2>3. ASSUME NEW s \in Shards
          PROVE  Original(s) \/ (Published(s) /\ Restored(s))
      <3>1. CASE ~manifest
        BY <1>3, <3>1 DEF Prepared, Original
      <3>2. CASE manifest /\ s \in ShardsOf(plan.hist)
        BY <1>3, <3>2 DEF Prepared, ShardProven, Published, Original, Restored
      <3>3. CASE manifest /\ s \notin ShardsOf(plan.hist)
        <4>1. s \notin ShardsOf(hist)
          BY <1>3, <3>3 DEF Prepared
        <4>2. \A id \in RowIds : ShardOf[id] = s =>
                 hist[id] = <<>> /\ plan.hist[id] = <<>>
          BY <3>3, <4>1 DEF ShardsOf, Ids
        <4>. QED
          BY <2>0, <4>2, ShardRows DEF Original
      <3>. QED
        BY <3>1, <3>2, <3>3
    <2>4. (\A s \in LegacyShards : Published(s)) =>
              \A s \in LegacyShards : Restored(s)
      BY <2>0, <2>3 DEF Published, Original
    <2>. QED
      BY <1>1, <2>1, <2>2, <2>3, <2>4
      DEF PlanInvOf, Prep, Publishing, Pending, Original, Restored,
          LegacyShards, LegacyIds, Image
  <1>. QED
    BY <1>2, <1>3 DEF Open

\* A step that keeps history, plan and an execution's knowledge, and moves it
\* outside the publication.
LEMMA MoveKeepsPlanInv ==
    ASSUME NEW r \in Runs, PlanInvOf(r), UNCHANGED <<hist, plan>>,
           \/ pc'[r] \notin Prep
           \/ /\ pc[r] \in Prep /\ run'[r] = run[r]
              /\ pc'[r] \in Prep \ Publishing
              /\ pc'[r] \in {"validate", "commit"} => run[r].published
    PROVE  PlanInvOf(r)'
  BY DEF PlanInvOf, Original, Restored, LegacyShards, LegacyIds, Image,
         Prep, Publishing, Pending

LEMMA PublishKeepsPlanInv ==
    ASSUME TypeOK, NEW r \in Runs, PlanInvOf(r), BeginPublish(r)
    PROVE  PlanInvOf(r)'
  <1>. USE DEF Goto
  <1>1. UNCHANGED <<hist, plan>> /\ pc[r] = "publish"
    BY DEF BeginPublish, stores
  <1>2. CASE Refuse(r)
    BY <1>1, <1>2, QuietRefuse, MoveKeepsPlanInv DEF Prep
  <1>3. CASE pc' = [pc EXCEPT ![r] = "apply"] /\ UNCHANGED run
    <2>1. pc'[r] = "apply"
      BY <1>3 DEF TypeOK
    <2>. QED
      BY <1>1, <1>3, <2>1, MoveKeepsPlanInv DEF Prep, Publishing, Pending
  <1>4. CASE /\ pc' = [pc EXCEPT ![r] = "shard"]
             /\ run' = [run EXCEPT ![r].todo = LegacyShards]
    <2>1. pc'[r] = "shard"
      BY <1>4 DEF TypeOK
    <2>2. run'[r].todo = LegacyShards /\ run'[r].published = run[r].published
      BY <1>4 DEF TypeOK, RunState
    <2>. QED
      BY <1>1, <2>1, <2>2
      DEF PlanInvOf, Original, Restored, LegacyShards, LegacyIds, Image,
          Prep, Publishing, Pending
  <1>. QED
    BY <1>2, <1>3, <1>4 DEF BeginPublish

\* The shards it skips are restored already, and the one it turns to is the
\* only one that is neither restored nor still to do.
LEMMA NextShardKeepsPlanInv ==
    ASSUME TypeOK, NEW r \in Runs, PlanInvOf(r), NextShard(r)
    PROVE  PlanInvOf(r)'
  <1>. USE DEF Goto
  <1>1. UNCHANGED <<hist, plan>> /\ pc[r] = "shard"
    BY DEF NextShard, stores
  <1>2. CASE Refuse(r)
    BY <1>1, <1>2, QuietRefuse, MoveKeepsPlanInv DEF Prep
  <1>0. /\ \A s \in Shards : Original(s) \/ Restored(s)
        /\ run[r].published => \A s \in LegacyShards : Restored(s)
        /\ \A s \in LegacyShards \ run[r].todo : Restored(s)
        /\ run[r].todo \subseteq Shards
    BY <1>1 DEF PlanInvOf, Prep, Publishing, Pending, TypeOK, RunState
  <1>3. ASSUME NEW s \in run[r].todo,
               OnlyShard(Image(hist), s) = OnlyShard(hist, s),
               run' = [run EXCEPT ![r].todo = @ \ {s}], UNCHANGED pc
        PROVE  PlanInvOf(r)'
    <2>1. Restored(s)
      BY <1>0, <1>3, ImageRestores DEF Restored
    <2>2. /\ run'[r].todo = run[r].todo \ {s}
          /\ run'[r].published = run[r].published
      BY <1>3 DEF TypeOK, RunState
    <2>. QED
      BY <1>0, <1>1, <1>3, <2>1, <2>2
      DEF PlanInvOf, Original, Restored, LegacyShards, LegacyIds, Image,
          Prep, Publishing, Pending
  <1>4. ASSUME NEW s \in run[r].todo,
               run' = [run EXCEPT ![r].todo = @ \ {s}, ![r].shard = s,
                                  ![r].before = OnlyShard(hist, s)],
               pc' = [pc EXCEPT ![r] = "backup"]
        PROVE  PlanInvOf(r)'
    <2>1. pc'[r] = "backup"
      BY <1>4 DEF TypeOK
    <2>2. /\ run'[r].todo = run[r].todo \ {s} /\ run'[r].shard = s
          /\ run'[r].published = run[r].published
          /\ run'[r].before = OnlyShard(hist, s)
      BY <1>4 DEF TypeOK, RunState
    <2>3. OnlyShard(hist, s)' = OnlyShard(hist', s)
      BY DEF OnlyShard, OnlyIds
    <2>. QED
      BY <1>0, <1>1, <2>1, <2>2, <2>3
      DEF PlanInvOf, Original, Restored, LegacyShards, LegacyIds, Image,
          Prep, Publishing, Pending
  <1>5. CASE /\ run[r].todo = {} /\ run' = [run EXCEPT ![r].published = TRUE]
             /\ pc' = [pc EXCEPT ![r] = "apply"]
    <2>1. pc'[r] = "apply"
      BY <1>5 DEF TypeOK
    <2>. QED
      BY <1>0, <1>1, <1>5, <2>1
      DEF PlanInvOf, Original, Restored, LegacyShards, LegacyIds, Image,
          Prep, Publishing, Pending
  <1>. QED
    BY <1>2, <1>3, <1>4, <1>5 DEF NextShard

\* Backup, receipt and last check change neither the shard nor its image.
LEMMA PendingKeepsPlanInv ==
    ASSUME TypeOK, NEW r \in Runs, PlanInvOf(r),
           SaveBackup(r) \/ SaveReceipt(r) \/ CheckShard(r)
    PROVE  PlanInvOf(r)'
  <1>1. UNCHANGED <<hist, plan>> /\ pc[r] \in {"backup", "receipt", "check"}
    BY DEF SaveBackup, SaveReceipt, CheckShard, stores
  <1>2. CASE Refuse(r)
    BY <1>1, <1>2, QuietRefuse, MoveKeepsPlanInv DEF Prep
  <1>3. CASE ~Refuse(r)
    <2>1. UNCHANGED run /\ pc[r] \in Pending /\ pc'[r] \in Pending
      BY <1>3 DEF SaveBackup, SaveReceipt, CheckShard, Goto, TypeOK, Pending
    <2>2. /\ OnlyShard(hist, run[r].shard)' = OnlyShard(hist, run[r].shard)
          /\ LegacyShards' = LegacyShards
          /\ \A s : Original(s)' = Original(s) /\ Restored(s)' = Restored(s)
      BY <1>1, <2>1 DEF OnlyShard, OnlyIds, LegacyShards, LegacyIds, Original,
         Restored, Image
    <2>3. /\ pc'[r] \in Prep /\ pc'[r] \in Publishing
          /\ pc'[r] \notin {"validate", "commit"}
          /\ pc[r] \in Prep /\ pc[r] \in Publishing
      BY <2>1 DEF Pending, Prep, Publishing
    <2>. QED
      BY <2>1, <2>2, <2>3 DEF PlanInvOf
  <1>. QED
    BY <1>2, <1>3

\* A rename gives the shard its image and leaves the other shards alone.
LEMMA RenameEffect ==
    ASSUME TypeOK, NEW r \in Runs, PlanInvOf(r), RenameShard(r), NEW id \in RowIds
    PROVE  hist'[id] = IF ShardOf[id] = run[r].shard THEN Image(hist)[id]
                                                     ELSE hist[id]
  <1>1. run[r].before = OnlyShard(hist, run[r].shard)
    BY DEF PlanInvOf, RenameShard, Pending
  <1>2. hist'[id] = IF ShardOf[id] = run[r].shard THEN After(r)[id] ELSE hist[id]
    BY DEF RenameShard, PutShards
  <1>3. CASE ShardOf[id] = run[r].shard
    <2>1. run[r].before[id] = hist[id]
      BY <1>1, <1>3 DEF OnlyShard, OnlyIds
    <2>2. After(r)[id] = Image(run[r].before)[id]
      BY <1>3 DEF After, OnlyShard, OnlyIds
    <2>3. Image(run[r].before)[id] = Image(hist)[id]
      BY <2>1 DEF Image
    <2>. QED
      BY <1>2, <1>3, <2>2, <2>3
  <1>. QED
    BY <1>2, <1>3

LEMMA RenameKeepsPlanInv ==
    ASSUME TypeOK, TypeOK', NEW r \in Runs, PlanInvOf(r), RenameShard(r)
    PROVE  PlanInvOf(r)'
  <1>0. PICK shard \in Shards : shard = run[r].shard
    BY DEF TypeOK, RunState
  <1>1. /\ UNCHANGED <<plan, run>> /\ pc[r] = "rename" /\ pc'[r] = "readback"
    BY DEF RenameShard, Goto, TypeOK
  <1>2. /\ hist \in Table /\ hist' \in Table /\ Image(hist) \in Table
        /\ LegacyShards \subseteq Shards
    BY PlanTypes DEF TypeOK, RaTypeOK
  <1>3. /\ \A s \in Shards : Original(s) \/ Restored(s)
        /\ run[r].published => \A s \in LegacyShards : Restored(s)
        /\ \A s \in LegacyShards \ run[r].todo : Restored(s) \/ s = shard
    BY <1>0, <1>1 DEF PlanInvOf, Prep, Publishing, Pending
  <1>4. OnlyShard(hist', shard) = OnlyShard(Image(plan.hist), shard)
    <2>1. OnlyShard(hist', shard) = OnlyShard(Image(hist), shard)
      BY <1>0, <1>2, RenameEffect, ShardRows
    <2>2. OnlyShard(Image(hist), shard) = OnlyShard(Image(plan.hist), shard)
      BY <1>2, <1>3, ImageRestores
    <2>. QED
      BY <2>1, <2>2
  <1>5. ASSUME NEW s, s # shard PROVE OnlyShard(hist', s) = OnlyShard(hist, s)
    BY <1>0, <1>2, <1>5, RenameEffect, ShardRows
  <1>6. /\ \A s : Original(s)' <=> OnlyShard(hist', s) = OnlyShard(plan.hist, s)
        /\ \A s : Restored(s)' <=>
                      OnlyShard(hist', s) = OnlyShard(Image(plan.hist), s)
        /\ LegacyShards' = LegacyShards
    BY <1>1 DEF Original, Restored, OnlyShard, OnlyIds, Image, LegacyShards,
       LegacyIds
  <1>7. /\ \A s : Restored(s) => Restored(s)'
        /\ \A s : Original(s) => Original(s)' \/ Restored(s)'
        /\ Restored(shard)'
    <2>1. Restored(shard)'
      BY <1>4, <1>6
    <2>2. ASSUME NEW s
          PROVE  /\ Restored(s) => Restored(s)'
                 /\ Original(s) => Original(s)' \/ Restored(s)'
      BY <2>1, <1>5, <1>6 DEF Original, Restored
    <2>. QED
      BY <2>1, <2>2
  <1>. QED
    BY <1>0, <1>1, <1>3, <1>6, <1>7 DEF PlanInvOf, Prep, Publishing, Pending

LEMMA ReadbackKeepsPlanInv ==
    ASSUME TypeOK, NEW r \in Runs, PlanInvOf(r), Readback(r)
    PROVE  PlanInvOf(r)'
  <1>1. UNCHANGED <<hist, plan>> /\ pc[r] = "readback"
    BY DEF Readback, stores
  <1>2. CASE Refuse(r)
    BY <1>1, <1>2, QuietRefuse, MoveKeepsPlanInv DEF Prep
  <1>3. CASE ~Refuse(r)
    <2>1. /\ pc'[r] = "shard" /\ run'[r].todo = run[r].todo
          /\ run'[r].published = run[r].published
      BY <1>3 DEF Readback, Goto, TypeOK, RunState
    <2>2. /\ LegacyShards' = LegacyShards
          /\ \A s : Original(s)' = Original(s) /\ Restored(s)' = Restored(s)
      BY <1>1 DEF OnlyShard, OnlyIds, LegacyShards, LegacyIds, Original,
         Restored, Image
    <2>. QED
      BY <1>1, <2>1, <2>2 DEF PlanInvOf, Prep, Publishing, Pending
  <1>. QED
    BY <1>2, <1>3

LEMMA OwnKeepsPlanInv ==
    ASSUME TypeOK, TypeOK', NEW r \in Runs, PlanInvOf(r),
           RunStep(r) \/ Fail(r) \/ Crash(r)
    PROVE  PlanInvOf(r)'
  <1>. USE DEF stores, locks, saved, raVars
  <1>0. pc \in [Runs -> Pc] /\ run \in [Runs -> RunState]
    BY DEF TypeOK
  <1>1. ASSUME UNCHANGED <<hist, plan>>, pc'[r] \notin Prep
        PROVE  PlanInvOf(r)'
    BY <1>1, MoveKeepsPlanInv
  <1>2. ASSUME UNCHANGED <<hist, plan>>, NEW outcome, End(r, outcome)
        PROVE  PlanInvOf(r)'
    BY <1>0, <1>1, <1>2 DEF End, Goto, Prep
  <1>3. CASE LockHistory(r)
    BY <1>0, <1>1, <1>2, <1>3 DEF LockHistory, Goto, Prep
  <1>4. CASE CheckAppendLock(r)
    BY <1>0, <1>1, <1>2, <1>4 DEF CheckAppendLock, Goto, Prep
  <1>5. CASE TakeAppendLock(r)
    BY <1>0, <1>1, <1>2, <1>5 DEF TakeAppendLock, Goto, Prep
  <1>6. CASE SaveManifest(r)
    BY <1>0, <1>2, <1>6, MoveKeepsPlanInv
    DEF SaveManifest, Refuse, Goto, Prep, Publishing, Pending
  <1>7. CASE SaveLockReceipt(r)
    BY <1>0, <1>7, MoveKeepsPlanInv
    DEF SaveLockReceipt, Goto, Prep, Publishing, Pending
  <1>8. CASE BeginApply(r)
    BY <1>0, <1>2, <1>8, MoveKeepsPlanInv
    DEF BeginApply, Refuse, Goto, Prep, Publishing, Pending
  <1>9. CASE Validate(r)
    <2>1. run[r].published
      BY <1>9 DEF Validate, PlanInvOf
    <2>. QED
      BY <1>0, <1>2, <1>9, <2>1, MoveKeepsPlanInv
      DEF Validate, Refuse, Goto, Prep, Publishing, Pending
  <1>10. CASE Commit(r) \/ Rollback(r) \/ Fail(r)
    BY <1>2, <1>10 DEF Commit, Rollback, Fail, Refuse
  <1>11. CASE Release(r) \/ Crash(r)
    BY <1>0, <1>1, <1>11 DEF Release, Crash, Goto, Prep
  <1>. QED
    BY <1>3, <1>4, <1>5, <1>6, <1>7, <1>8, <1>9, <1>10, <1>11,
       OpenKeepsPlanInv, PublishKeepsPlanInv, NextShardKeepsPlanInv,
       PendingKeepsPlanInv, RenameKeepsPlanInv, ReadbackKeepsPlanInv
    DEF RunStep
-----------------------------------------------------------------------------
(* The invariant holds.                                                      *)

LEMMA RestoreInit == Init => RestoreInv
  <1>. SUFFICES ASSUME Init PROVE RestoreInv
    OBVIOUS
  <1>1. \A r \in Runs : pc[r] = "new"
    BY DEF Init
  <1>2. HoldInv
    BY <1>1 DEF HoldInv, Locked
  <1>3. Admissible(plan.hist, plan.db)
    BY RecoveryAssumption DEF Init
  <1>4. PlanInv
    BY <1>1, <1>3 DEF PlanInv, PlanInvOf, Prep, Publishing, Pending
  <1>. QED
    BY <1>2, <1>4, SafetyInit DEF RestoreInv

\* Only a scheduled job changes history beside the executions, and only while
\* none of them holds the history lock.
LEMMA QuietEnvironment ==
    ASSUME Scripts = {}, Environment \/ UNCHANGED vars
    PROVE  /\ UNCHANGED <<plan, pc, run, hlock>>
           /\ UNCHANGED hist \/ (JobAppends /\ hlock = NoProc)
  BY DEF Environment, JobAppends, OtherDbEdit, AgeLock, OperatorRemovesLock,
         vars, raVars, locks

LEMMA RestoreStep ==
    ASSUME Scripts = {}, RestoreInv, [Next]_vars
    PROVE  RestoreInv'
  <1>. USE DEF RestoreInv
  <1>1. SafetyInv' /\ TypeOK /\ TypeOK'
    BY SafetyStep DEF SafetyInv
  <1>2. ASSUME NEW r \in Runs, RunStep(r) \/ Fail(r) \/ Crash(r)
        PROVE  RestoreInv'
    <2>1. HoldInv'
      BY <1>1, <1>2, HoldStep
    <2>2. ASSUME NEW q \in Runs PROVE PlanInvOf(q)'
      <3>1. CASE q = r
        <4>1. PlanInvOf(r)'
          BY <1>1, <1>2, OwnKeepsPlanInv DEF PlanInv
        <4>. QED
          BY <3>1, <4>1
      <3>2. CASE q # r
        BY <1>1, <1>2, <3>2, OthersKeepPlanInv
      <3>. QED
        BY <3>1, <3>2
    <2>3. Admissible(plan.hist, plan.db)'
      <3>1. plan' = plan
        BY <1>1, <1>2, RunEffects
      <3>. QED
        BY <3>1 DEF PlanInv, Admissible, HasDuplicates, Ids, Stored, RowOf,
           ShardsOf
    <2>. QED
      BY <1>1, <2>1, <2>2, <2>3 DEF PlanInv
  <1>3. CASE Environment \/ UNCHANGED vars
    <2>1. /\ UNCHANGED <<plan, pc, run, hlock>>
          /\ UNCHANGED hist \/ hlock = NoProc
      BY <1>3, QuietEnvironment
    <2>2. HoldInv'
      BY <2>1 DEF HoldInv
    <2>3. ASSUME NEW r \in Runs PROVE PlanInvOf(r)'
      <3>1. CASE pc[r] \in Prep
        <4>1. pc[r] \in Locked /\ r # NoProc
          BY <3>1, ProcAssumption, RecoveryAssumption DEF Prep, Locked, Pc
        <4>2. hist' = hist
          BY <2>1, <4>1 DEF HoldInv
        <4>. QED
          BY <2>1, <4>2 DEF PlanInv, PlanInvOf, Original, Restored,
             LegacyShards, LegacyIds, Image
      <3>2. CASE pc[r] \notin Prep
        BY <2>1, <3>2 DEF PlanInvOf, Prep, Publishing, Pending
      <3>. QED
        BY <3>1, <3>2
    <2>4. Admissible(plan.hist, plan.db)'
      BY <2>1 DEF PlanInv, Admissible, HasDuplicates, Ids, Stored, RowOf,
         ShardsOf
    <2>. QED
      BY <1>1, <2>2, <2>3, <2>4 DEF PlanInv
  <1>. QED
    BY <1>2, <1>3 DEF Next

LEMMA RestoreInvariant ==
    ASSUME Scripts = {}
    PROVE  Spec => []RestoreInv
  <1>1. RestoreInv /\ [Next]_vars => RestoreInv'
    BY RestoreStep
  <1>. QED
    BY <1>1, RestoreInit, PTL DEF Spec
-----------------------------------------------------------------------------
(* What steps do to the stores.                                              *)

GainStep ==
    \A id \in RowIds : hist'[id] # hist[id] =>
        /\ hist[id] = <<>>
        /\ \/ edits' # edits
           \/ id \in LegacyIds /\ hist'[id] = <<plan.db[id]>>

PublishStep ==
    edits' = edits =>
        \A s \in Shards : OnlyShard(hist, s) \in
            {OnlyShard(plan.hist, s), OnlyShard(Image(plan.hist), s)}

LEMMA SafeHistoryStep ==
    ASSUME Scripts = {}, RestoreInv, [Next]_vars, hist' # hist
    PROVE  GainStep /\ PublishStep
  <1>. USE DEF RestoreInv
  <1>0. TypeOK /\ TypeOK' /\ edits \in Nat
    BY TypeStep, RecoveryAssumption DEF SafetyInv, TypeOK
  <1>1. ASSUME NEW r \in Runs, RenameShard(r)
        PROVE  GainStep /\ PublishStep
    <2>1. pc[r] = "rename" /\ PlanInvOf(r)
      BY <1>1 DEF RenameShard, PlanInv
    <2>2. GainStep
      BY <1>0, <1>1, <2>1, RenameEffect DEF GainStep, Image
    <2>3. PublishStep
      BY <2>1 DEF PlanInvOf, Prep, PublishStep, Original, Restored
    <2>. QED
      BY <2>2, <2>3
  <1>2. CASE JobAppends
    <2>1. edits' # edits
      BY <1>0, <1>2 DEF JobAppends, Edit
    <2>2. \A id \in RowIds : hist'[id] # hist[id] => hist[id] = <<>>
      BY <1>0, <1>2 DEF JobAppends, TypeOK, RaTypeOK, Table, Ids
    <2>. QED
      BY <2>1, <2>2 DEF GainStep, PublishStep
  <1>. QED
    BY <1>0, <1>1, <1>2, RunEffects, QuietEnvironment DEF Next

\* With no manual scripts about, publication adds exactly rows that only the
\* database had, under the hash it has them, and no line of history is changed
\* or removed, whatever executions die and resume.
THEOREM PublicationOnlyAdds ==
    ASSUME Scripts = {}
    PROVE  Spec => HistoryOnlyGains
  <1>1. RestoreInv /\ [Next]_vars => [GainStep]_hist
    BY SafeHistoryStep
  <1>. QED
    BY <1>1, RestoreInvariant, PTL DEF Spec, HistoryOnlyGains, GainStep

\* With no manual scripts about, an execution publishes only while every shard
\* is as the plan saw it or as the plan leaves it.
THEOREM PublicationIsPlanned ==
    ASSUME Scripts = {}
    PROVE  Spec => PublishesOnlyPlannedHistory
  <1>1. RestoreInv /\ [Next]_vars => [PublishStep]_hist
    BY SafeHistoryStep
  <1>. QED
    BY <1>1, RestoreInvariant, PTL
    DEF Spec, PublishesOnlyPlannedHistory, PublishStep

ApplyStep ==
    journal'.state = "APPLIED" =>
        \A id \in RowIds :
            hist[id] = IF db'[id] = NoRow THEN <<>> ELSE <<db'[id]>>

LEMMA SafeApplyStep ==
    ASSUME Scripts = {}, RestoreInv, [Next]_vars, journal' # journal
    PROVE  ApplyStep
  <1>. USE DEF RestoreInv, SafetyInv
  <1>1. ASSUME NEW r \in Runs, Commit(r)
        PROVE  ApplyStep
    <2>1. pc[r] = "commit" /\ db = plan.db /\ db' = Union
      BY <1>1 DEF Commit, TxnInv, Inserted, Union
    <2>2. /\ \A s \in Shards : Original(s) \/ Restored(s)
          /\ \A s \in LegacyShards : Restored(s)
      BY <2>1 DEF PlanInv, PlanInvOf, Prep
    <2>3. \A id \in RowIds :
              hist[id] = IF Union[id] = NoRow THEN <<>> ELSE <<Union[id]>>
      BY <2>2, RestoredIsUnion DEF PlanInv
    <2>. QED
      BY <2>1, <2>3 DEF ApplyStep
  <1>2. ASSUME NEW r \in Runs, RollsBack(r)
        PROVE  ApplyStep
    <2>1. journal' = [journal EXCEPT !.state = "ROLLED_BACK"]
      BY <1>2 DEF RollsBack, Rollback, AfterRollback
    <2>. QED
      BY <2>1 DEF TypeOK, ApplyStep
  <1>3. ASSUME NEW r \in Runs, RunStep(r) \/ Fail(r) \/ Crash(r)
        PROVE  Commit(r) \/ RollsBack(r)
    BY <1>3, StepIsQuiet
    DEF Quiet, Begins, BeginApply, Validates, Validate
  <1>4. CASE Environment \/ UNCHANGED vars
    BY <1>4 DEF Environment, JobAppends, OtherDbEdit, AgeLock,
       OperatorRemovesLock, vars
  <1>. QED
    BY <1>1, <1>2, <1>3, <1>4 DEF Next

\* With no manual scripts about, the transaction that records the plan as
\* applied leaves the database the exact mirror of history, however many
\* executions died or failed on the way.
THEOREM AppliedIsExact ==
    ASSUME Scripts = {}
    PROVE  Spec => AppliedMakesExactMirror
  <1>1. RestoreInv /\ [Next]_vars => [ApplyStep]_journal
    BY SafeApplyStep
  <1>. QED
    BY <1>1, RestoreInvariant, PTL DEF Spec, AppliedMakesExactMirror, ApplyStep

-----------------------------------------------------------------------------
(* Resumption.  As long as nobody else changes a store, an execution finds   *)
(* what it needs wherever earlier ones died: LeftInv says what they leave,   *)
(* ResumeInvOf what an execution has made sure of for its next step, and     *)
(* together they contradict the condition of every refusal.                  *)

\* Nobody but executions has changed a store, and no rollback undid the plan.
Undisturbed == edits = 0 /\ journal.state # "ROLLED_BACK"

\* The receipt of a shard's publication, as every execution writes it.
PlanReceipt(s) == [before |-> OnlyShard(plan.hist, s),
                   after |-> OnlyShard(Image(plan.hist), s)]

\* Labels at which an execution owns the lock file.
Owning == Locked \ {"appendLock", "take"}

\* What dead executions leave: each shard is as the plan saw it or as the plan
\* makes it, the latter with receipt and backup; the journal and the database
\* agree; and without a manifest nothing has begun.
LeftInv ==
    /\ \A m \in Scripts : RaQuiet(m)
    /\ \A s \in Shards : Original(s) \/ Restored(s)
    /\ \A s \in Shards : receipts[s] \in {NoReceipt, PlanReceipt(s)}
    /\ \A s \in Shards : Published(s) =>
           receipts[s] = PlanReceipt(s) /\ OnlyShard(plan.hist, s) \in backups
    /\ journal.state = "none" => db = plan.db
    /\ journal.state = "APPLIED" =>
           /\ db = Union /\ journal.rows = MissingIds
           /\ \A s \in LegacyShards : Published(s)
    /\ ~manifest => hist = plan.hist /\ journal.state = "none"

\* What an execution needs in order not to refuse its next step.
ResumeInvOf(r) ==
    LET s == run[r].shard IN
    /\ pc[r] \in Owning => alock = r
    /\ pc[r] \in Prep \ {"manifest"} => manifest
    /\ pc[r] \in Prep /\ pc[r] # "readback" => run[r].expected = hist
    /\ pc[r] \in Prep /\ ~run[r].published =>
           journal.state = "none" /\ LegacyIds # {}
    /\ pc[r] \in {"apply", "validate", "commit"} => run[r].published
    /\ pc[r] \in Pending \cup {"readback"} =>
           run[r].before = OnlyShard(plan.hist, s)
    /\ pc[r] \in {"receipt", "check", "rename"} => run[r].before \in backups
    /\ pc[r] \in {"check", "rename"} => receipts[s] = PlanReceipt(s)
    /\ pc[r] = "readback" =>
           Restored(s) /\ run[r].expected = PutShards(hist, plan.hist, {s})
    /\ pc[r] = "rollback" \/ run[r].outcome = "refused" => r \in Rollbacks

ResumeInv == Undisturbed => LeftInv /\ PlanInv /\ \A r \in Runs : ResumeInvOf(r)

LEMMA PlannedTypes ==
    ASSUME TypeOK
    PROVE  /\ hist \in Table /\ plan.hist \in Table /\ plan.db \in Database
           /\ Image(plan.hist) \in Table /\ Image(hist) \in Table
           /\ LegacyShards \subseteq Shards
  BY PlanTypes DEF TypeOK, RaTypeOK

\* The plan changes every shard it restores a row to.
LEMMA LegacyShardsDiffer ==
    ASSUME TypeOK, NEW s \in LegacyShards
    PROVE  OnlyShard(Image(plan.hist), s) # OnlyShard(plan.hist, s)
  <1>1. PICK id \in LegacyIds : ShardOf[id] = s
    BY DEF LegacyShards
  <1>2. id \in RowIds /\ plan.hist[id] = <<>>
    BY DEF LegacyIds, Stored, Ids
  <1>3. Image(plan.hist)[id] # plan.hist[id]
    BY <1>1, <1>2 DEF Image
  <1>. QED
    BY <1>1, <1>2, <1>3, PlannedTypes, ShardRows

\* Restoring rows makes no new shard file and removes none.
LEMMA PlannedShardsOf ==
    ASSUME TypeOK, Admissible(plan.hist, plan.db), NEW t \in Table,
           \A s \in Shards : OnlyShard(t, s) \in
               {OnlyShard(plan.hist, s), OnlyShard(Image(plan.hist), s)}
    PROVE  ShardsOf(t) = ShardsOf(plan.hist)
  <1>1. ASSUME NEW id \in RowIds
        PROVE  /\ t[id] \in {plan.hist[id], Image(plan.hist)[id]}
               /\ ShardOf[id] \in Shards
    <2>1. ShardOf[id] \in Shards
      BY TableAssumption
    <2>. QED
      BY <2>1, PlannedTypes, ShardRows
  <1>2. ASSUME NEW id \in RowIds, t[id] # <<>>
        PROVE  ShardOf[id] \in ShardsOf(plan.hist)
    <2>1. CASE plan.hist[id] # <<>>
      BY <2>1 DEF ShardsOf, Ids
    <2>2. CASE plan.hist[id] = <<>>
      <3>1. id \in LegacyIds
        BY <1>1, <1>2, <2>2 DEF Image
      <3>. QED
        BY <3>1 DEF LegacyIds, Admissible
    <2>. QED
      BY <2>1, <2>2
  <1>3. ASSUME NEW id \in RowIds, plan.hist[id] # <<>> PROVE t[id] # <<>>
    BY <1>1, <1>3 DEF Image
  <1>. QED
    BY <1>2, <1>3 DEF ShardsOf, Ids

LEMMA NoImageConflict ==
    ASSUME TypeOK, NEW s, Original(s) \/ Restored(s)
    PROVE  ~ImageConflict(hist, s)
  <1>1. ASSUME NEW id \in LegacyIds, ShardOf[id] = s, hist[id] # <<>>
        PROVE  RowOf(hist, id) = plan.db[id]
    <2>1. id \in RowIds /\ plan.hist[id] = <<>>
      BY DEF LegacyIds, Stored, Ids
    <2>2. hist[id] \in {plan.hist[id], Image(plan.hist)[id]}
      BY <1>1, <2>1, PlannedTypes, ShardRows DEF Original, Restored
    <2>3. hist[id] = <<plan.db[id]>>
      BY <1>1, <2>1, <2>2 DEF Image
    <2>. QED
      BY <2>3 DEF RowOf
  <1>. QED
    BY <1>1 DEF ImageConflict

\* An execution writes the receipt the plan determines.
LEMMA AfterPlanned ==
    ASSUME TypeOK, NEW r \in Runs,
           run[r].before = OnlyShard(plan.hist, run[r].shard)
    PROVE  After(r) = OnlyShard(Image(plan.hist), run[r].shard)
  <1>1. ASSUME NEW id \in RowIds, ShardOf[id] = run[r].shard
        PROVE  Image(run[r].before)[id] = Image(plan.hist)[id]
    <2>1. run[r].before[id] = plan.hist[id]
      BY <1>1 DEF OnlyShard, OnlyIds
    <2>. QED
      BY <2>1 DEF Image
  <1>. QED
    BY <1>1 DEF After, OnlyShard, OnlyIds

\* Whatever the plan has done so far leaves the recovered rows alone.
LEMMA LegacyStays ==
    ASSUME TypeOK, Undisturbed, LeftInv
    PROVE  LegacyUnchanged
  <1>1. db \in {plan.db, Union}
    BY DEF LeftInv, Undisturbed, TypeOK
  <1>2. \A id \in LegacyIds : Union[id] = plan.db[id]
    BY DEF Union, InsertRows, LegacyIds, MissingIds, Stored, Ids
  <1>. QED
    BY <1>1, <1>2 DEF LegacyUnchanged

LEMMA IsRechecked ==
    ASSUME TypeOK, Undisturbed, LeftInv, NEW r \in Runs, ResumeInvOf(r),
           pc[r] \in Prep, pc[r] # "readback"
    PROVE  Rechecked(r)
  <1>1. pc[r] \in Owning
    BY DEF Prep, Owning, Locked, Pc
  <1>. QED
    BY <1>1, LegacyStays DEF ResumeInvOf, Rechecked, OwnsLock, SourceUnchanged

\* What dead executions leave passes for the plan's own work.
LEMMA IsPrepared ==
    ASSUME TypeOK, Undisturbed, LeftInv, Admissible(plan.hist, plan.db)
    PROVE  Prepared
  <1>1. ASSUME NEW s \in Shards PROVE ShardProven(s)
    BY DEF LeftInv, ShardProven, Published, Original, Restored, PlanReceipt
  <1>2. ShardsOf(plan.hist) \subseteq Shards
    BY PlannedTypes, TableTypes
  <1>3. ShardsOf(hist) = ShardsOf(plan.hist)
    BY PlannedTypes, PlannedShardsOf DEF LeftInv, Original, Restored
  <1>4. DatabaseProven
    BY DEF LeftInv, Undisturbed, TypeOK, DatabaseProven
  <1>5. ~manifest => hist = plan.hist /\ db = plan.db
    BY DEF LeftInv
  <1>. QED
    BY <1>1, <1>2, <1>3, <1>4, <1>5 DEF Prepared

\* A step that leaves history, the database and the journal alone, and adds
\* backups or the manifest at most.
LEMMA LeftKept ==
    ASSUME LeftInv, UNCHANGED <<hist, ra, plan, db, journal, receipts>>,
           backups \subseteq backups', manifest => manifest'
    PROVE  LeftInv'
  <1>1. \A s : /\ Original(s)' <=> Original(s)
               /\ Restored(s)' <=> Restored(s)
               /\ Published(s)' <=> Published(s)
               /\ PlanReceipt(s)' = PlanReceipt(s)
    BY DEF Original, Restored, Published, PlanReceipt, OnlyShard, OnlyIds,
       Image, LegacyIds
  <1>2. Union' = Union /\ MissingIds' = MissingIds /\ LegacyShards' = LegacyShards
    BY DEF Union, InsertRows, MissingIds, LegacyShards, LegacyIds
  <1>. QED
    BY <1>1, <1>2 DEF LeftInv, RaQuiet

\* A step out of the plan's work knows nothing of it any more.
LEMMA LeaveResume ==
    ASSUME NEW r \in Runs, pc'[r] \in {"new", "appendLock", "take", "release",
                                       "done", "dead"},
           run'[r].outcome = "refused" => r \in Rollbacks
    PROVE  ResumeInvOf(r)'
  BY DEF ResumeInvOf, Owning, Locked, Prep, Pending

\* What an execution under way has to offer to its next step.
Able(r) ==
    /\ SafetyInv /\ Undisturbed /\ LeftInv /\ Admissible(plan.hist, plan.db)
    /\ PlanInvOf(r) /\ ResumeInvOf(r)

LEMMA EndResume ==
    ASSUME NEW r \in Runs, Able(r), NEW outcome \in Outcomes, End(r, outcome),
           outcome = "refused" => r \in Rollbacks
    PROVE  ResumeInvOf(r)'
  <1>1. pc'[r] = "release" /\ run'[r].outcome = outcome
    BY NewRunType DEF End, Goto, NewRun, Able, SafetyInv, TypeOK
  <1>. QED
    BY <1>1, LeaveResume

\* Before the plan is read.
LEMMA ResumeLocks ==
    ASSUME NEW r \in Runs, Able(r),
           LockHistory(r) \/ CheckAppendLock(r) \/ TakeAppendLock(r)
    PROVE  LeftInv' /\ ResumeInvOf(r)'
  <1>. USE DEF Able
  <1>0. pc \in [Runs -> Pc] /\ run \in [Runs -> RunState]
    BY DEF SafetyInv, TypeOK
  <1>1. LeftInv'
    BY LeftKept DEF LockHistory, CheckAppendLock, TakeAppendLock, stores, saved,
       raVars
  <1>2. CASE \E outcome \in {"lock_refused"} : End(r, outcome)
    BY <1>1, <1>2, EndResume DEF Outcomes
  <1>3. CASE UNCHANGED run /\ (Goto(r, "appendLock") \/ Goto(r, "take"))
    <2>1. /\ pc'[r] \in {"appendLock", "take"}
          /\ run'[r].outcome = "refused" => r \in Rollbacks
      BY <1>0, <1>3 DEF Goto, ResumeInvOf
    <2>. QED
      BY <1>1, <2>1, LeaveResume
  <1>4. CASE /\ UNCHANGED run /\ alock' = r
             /\ Goto(r, IF r \in Rollbacks THEN "rollback" ELSE "open")
    <2>1. /\ pc'[r] = IF r \in Rollbacks THEN "rollback" ELSE "open"
          /\ run'[r].outcome = "refused" => r \in Rollbacks
      BY <1>0, <1>4 DEF Goto, ResumeInvOf
    <2>. QED
      BY <1>1, <1>4, <2>1 DEF ResumeInvOf, Prep, Pending
  <1>. QED
    BY <1>1, <1>2, <1>3, <1>4 DEF LockHistory, CheckAppendLock, TakeAppendLock

LEMMA ResumeOpen ==
    ASSUME NEW r \in Runs, Able(r), Open(r)
    PROVE  LeftInv' /\ ResumeInvOf(r)'
  <1>. USE DEF Able
  <1>0. /\ pc \in [Runs -> Pc] /\ run \in [Runs -> RunState]
        /\ pc[r] = "open" /\ UNCHANGED <<hist, alock, plan, db, journal>>
    BY DEF SafetyInv, TypeOK, Open, stores, raVars
  <1>1. LeftInv'
    BY LeftKept DEF Open, stores, saved, raVars
  <1>2. Prepared /\ OwnsLock(r)
    BY <1>0, IsPrepared DEF SafetyInv, ResumeInvOf, Owning, Locked, Pc, OwnsLock
  <1>3. /\ pc'[r] = "manifest" /\ run'[r].expected = hist
        /\ run'[r].published = (\A s \in LegacyShards : Published(s))
        /\ run'[r].outcome = run[r].outcome
    <2>. DEFINE all == \A s \in LegacyShards : Published(s)
    <2>1. /\ run' = [run EXCEPT ![r].expected = hist, ![r].published = all]
          /\ pc' = [pc EXCEPT ![r] = "manifest"]
      BY <1>2 DEF Open, Goto
    <2>2. all \in BOOLEAN
      OBVIOUS
    <2>. HIDE DEF all
    <2>3. /\ pc'[r] = "manifest" /\ run'[r].expected = hist
          /\ run'[r].published = all /\ run'[r].outcome = run[r].outcome
      BY <1>0, <2>1, <2>2 DEF RunState
    <2>. QED
      BY <2>3 DEF all
  <1>4. ~run'[r].published => journal.state = "none" /\ LegacyIds # {}
    <2>1. journal.state # "none" => \A s \in LegacyShards : Published(s)
      BY DEF LeftInv, Undisturbed, SafetyInv, TypeOK
    <2>2. LegacyIds = {} => LegacyShards = {}
      BY DEF LegacyShards
    <2>. QED
      BY <1>3, <2>1, <2>2
  <1>5. LegacyIds' = LegacyIds /\ alock = r
    BY <1>0, <1>2 DEF LegacyIds, OwnsLock
  <1>. QED
    BY <1>0, <1>1, <1>3, <1>4, <1>5 DEF ResumeInvOf, Pending

\* Steps of an execution in its work that change nothing it has made sure of.
LEMMA ResumeOn ==
    ASSUME NEW r \in Runs, Able(r), pc[r] \in Prep \ {"readback"},
           UNCHANGED <<hist, alock, plan, journal>>, manifest',
           run'[r].expected = run[r].expected,
           run[r].published => run'[r].published,
           run'[r].outcome = run[r].outcome,
           pc'[r] \in Prep \ (Pending \cup {"readback"}),
           pc'[r] \in {"apply", "validate", "commit"} => run'[r].published
    PROVE  ResumeInvOf(r)'
  <1>1. alock = r /\ run[r].expected = hist
    BY DEF Able, ResumeInvOf, Owning, Locked, Prep, Pc
  <1>2. ~run'[r].published => journal.state = "none" /\ LegacyIds # {}
    BY DEF Able, ResumeInvOf
  <1>3. LegacyIds' = LegacyIds /\ (run[r].outcome = "refused" => r \in Rollbacks)
    BY DEF LegacyIds, Able, ResumeInvOf
  <1>4. pc'[r] \notin Pending \cup {"receipt", "check", "rename", "readback", "rollback"}
    BY DEF Pending, Prep
  <1>. QED
    BY <1>1, <1>2, <1>3, <1>4 DEF ResumeInvOf

LEMMA ResumeSaves ==
    ASSUME NEW r \in Runs, Able(r), SaveManifest(r) \/ SaveLockReceipt(r)
    PROVE  LeftInv' /\ ResumeInvOf(r)'
  <1>0. /\ pc \in [Runs -> Pc] /\ run \in [Runs -> RunState] /\ TypeOK
        /\ pc[r] \in {"manifest", "lockReceipt"}
        /\ UNCHANGED <<hist, ra, alock, plan, db, journal, receipts, backups>>
    BY DEF Able, SafetyInv, TypeOK, SaveManifest, SaveLockReceipt, stores, raVars
  <1>1. Rechecked(r)
    BY <1>0, IsRechecked DEF Able, Prep
  <1>2. UNCHANGED run /\ manifest'
    BY <1>0, <1>1 DEF SaveManifest, SaveLockReceipt, Able, ResumeInvOf, Prep
  <1>3. \/ pc'[r] \in {"lockReceipt", "publish"}
        \/ pc'[r] = "apply" /\ LegacyIds = {}
    BY <1>0, <1>1 DEF SaveManifest, SaveLockReceipt, Goto
  <1>4. LegacyIds = {} => run[r].published
    BY <1>0 DEF Able, ResumeInvOf, Prep
  <1>5. LeftInv'
    BY <1>0, <1>2, LeftKept DEF Able
  <1>6. ResumeInvOf(r)'
    BY <1>0, <1>2, <1>3, <1>4, ResumeOn DEF Prep, Pending
  <1>. QED
    BY <1>5, <1>6

LEMMA ResumePublish ==
    ASSUME NEW r \in Runs, Able(r), BeginPublish(r)
    PROVE  LeftInv' /\ ResumeInvOf(r)'
  <1>0. /\ pc \in [Runs -> Pc] /\ run \in [Runs -> RunState] /\ TypeOK
        /\ pc[r] = "publish"
        /\ UNCHANGED <<hist, ra, alock, plan, db, journal, receipts, backups,
                       manifest>>
    BY DEF Able, SafetyInv, TypeOK, BeginPublish, stores, saved, raVars
  <1>1. Rechecked(r) /\ manifest
    BY <1>0, IsRechecked DEF Able, Prep, ResumeInvOf
  <1>2. ~run[r].published => db = plan.db
    BY <1>0 DEF Able, ResumeInvOf, Prep, LeftInv
  <1>3. /\ run'[r].expected = run[r].expected
        /\ run'[r].published = run[r].published
        /\ run'[r].outcome = run[r].outcome
        /\ \/ pc'[r] = "apply" /\ run[r].published
           \/ pc'[r] = "shard"
    BY <1>0, <1>1, <1>2 DEF BeginPublish, Goto, RunState
  <1>4. LeftInv'
    BY <1>0, LeftKept DEF Able
  <1>5. ResumeInvOf(r)'
    BY <1>0, <1>1, <1>3, ResumeOn DEF Prep, Pending
  <1>. QED
    BY <1>4, <1>5

LEMMA ResumeNextShard ==
    ASSUME NEW r \in Runs, Able(r), NextShard(r)
    PROVE  LeftInv' /\ ResumeInvOf(r)'
  <1>0. /\ pc \in [Runs -> Pc] /\ run \in [Runs -> RunState] /\ TypeOK
        /\ pc[r] = "shard"
        /\ UNCHANGED <<hist, ra, alock, plan, db, journal, receipts, backups,
                       manifest>>
    BY DEF Able, SafetyInv, TypeOK, NextShard, stores, saved, raVars
  <1>1. Rechecked(r) /\ manifest /\ alock = r /\ SourceUnchanged(r)
    BY <1>0, IsRechecked
       DEF Able, Prep, ResumeInvOf, Rechecked, OwnsLock
  <1>2. ASSUME NEW s \in run[r].todo PROVE Original(s) \/ Restored(s)
    BY <1>0 DEF RunState, Able, LeftInv
  <1>3. LeftInv'
    BY <1>0, LeftKept DEF Able
  <1>4. ASSUME NEW s \in run[r].todo,
               run' = [run EXCEPT ![r].todo = @ \ {s}], UNCHANGED pc
        PROVE  ResumeInvOf(r)'
    <2>1. /\ run'[r].expected = run[r].expected
          /\ run'[r].published = run[r].published
          /\ run'[r].outcome = run[r].outcome
          /\ pc'[r] = "shard"
      BY <1>0, <1>4 DEF RunState
    <2>. QED
      BY <1>0, <1>1, <2>1, ResumeOn DEF Prep, Pending
  <1>5. CASE run' = [run EXCEPT ![r].published = TRUE] /\ Goto(r, "apply")
    <2>1. /\ run'[r].expected = run[r].expected
          /\ run'[r].published
          /\ run'[r].outcome = run[r].outcome
          /\ pc'[r] = "apply"
      BY <1>0, <1>5 DEF RunState, Goto
    <2>. QED
      BY <1>0, <1>1, <1>3, <2>1, ResumeOn DEF Prep, Pending
  <1>6. ASSUME NEW s \in run[r].todo, Goto(r, "backup"),
               OnlyShard(Image(hist), s) # OnlyShard(hist, s),
               run' = [run EXCEPT ![r].todo = @ \ {s}, ![r].shard = s,
                                  ![r].before = OnlyShard(hist, s)]
        PROVE  ResumeInvOf(r)'
    <2>1. /\ run'[r].expected = run[r].expected
          /\ run'[r].published = run[r].published
          /\ run'[r].outcome = run[r].outcome
          /\ run'[r].shard = s /\ run'[r].before = OnlyShard(hist, s)
          /\ pc'[r] = "backup"
      BY <1>0, <1>6 DEF RunState, Goto
    <2>2. OnlyShard(hist, s) = OnlyShard(plan.hist, s)
      BY <1>0, <1>2, <1>6, ImageRestores DEF Original, Restored
    <2>3. OnlyShard(plan.hist, s)' = OnlyShard(plan.hist, s)
      BY <1>0 DEF OnlyShard, OnlyIds
    <2>4. run'[r].before = OnlyShard(plan'.hist, run'[r].shard)
      BY <1>0, <2>1, <2>2
    <2>5. /\ run'[r].expected = hist'
          /\ ~run'[r].published => journal'.state = "none" /\ LegacyIds' # {}
          /\ run'[r].outcome = "refused" => r \in Rollbacks
      BY <1>0, <1>1, <2>1
         DEF Able, ResumeInvOf, Prep, SourceUnchanged, LegacyIds
    <2>6. run'[r].before = OnlyShard(plan.hist, run[r].shard)'
      BY <2>4 DEF OnlyShard, OnlyIds
    <2>. QED
      BY <1>0, <1>1, <2>1, <2>5, <2>6 DEF ResumeInvOf, Pending
  <1>7. \/ \E s \in run[r].todo : ImageConflict(hist, s)
        \/ ~SourceUnchanged(r)
        \/ ResumeInvOf(r)'
    BY <1>0, <1>4, <1>5, <1>6 DEF NextShard
  <1>. QED
    BY <1>0, <1>1, <1>2, <1>3, <1>7, NoImageConflict

LEMMA ResumeBackup ==
    ASSUME NEW r \in Runs, Able(r), SaveBackup(r)
    PROVE  LeftInv' /\ ResumeInvOf(r)'
  <1>0. /\ pc[r] = "backup" /\ pc'[r] = "receipt"
        /\ UNCHANGED <<hist, ra, alock, plan, db, journal, receipts, manifest, run>>
        /\ backups' = backups \cup {run[r].before}
    BY DEF Able, SafetyInv, TypeOK, SaveBackup, Goto, stores, raVars
  <1>1. LeftInv'
    BY <1>0, LeftKept DEF Able
  <1>2. /\ alock = r /\ manifest /\ run[r].expected = hist
        /\ ~run[r].published => journal.state = "none" /\ LegacyIds # {}
        /\ run[r].before = OnlyShard(plan.hist, run[r].shard)
        /\ run[r].outcome = "refused" => r \in Rollbacks
    BY <1>0 DEF Able, ResumeInvOf, Owning, Locked, Pc, Prep, Pending
  <1>3. LegacyIds' = LegacyIds
        /\ OnlyShard(plan.hist, run[r].shard)' = OnlyShard(plan.hist, run[r].shard)
    BY <1>0 DEF LegacyIds, OnlyShard, OnlyIds
  <1>. QED
    BY <1>0, <1>1, <1>2, <1>3 DEF ResumeInvOf

\* Only the receipt the plan determines can be there already.
LEMMA ResumeReceipt ==
    ASSUME NEW r \in Runs, Able(r), SaveReceipt(r)
    PROVE  LeftInv' /\ ResumeInvOf(r)'
  <1>0. /\ pc \in [Runs -> Pc] /\ receipts \in [Shards -> Receipt] /\ TypeOK
        /\ pc[r] = "receipt" /\ run[r].shard \in Shards
        /\ UNCHANGED <<hist, ra, alock, plan, db, journal, manifest, backups>>
    BY DEF Able, SafetyInv, TypeOK, RunState, SaveReceipt, stores, raVars
  <1>1. /\ alock = r /\ manifest /\ run[r].expected = hist
        /\ ~run[r].published => journal.state = "none" /\ LegacyIds # {}
        /\ run[r].before = OnlyShard(plan.hist, run[r].shard)
        /\ run[r].before \in backups
        /\ run[r].outcome = "refused" => r \in Rollbacks
    BY <1>0 DEF Able, ResumeInvOf, Owning, Locked, Pc, Prep, Pending
  <1>2. [before |-> run[r].before, after |-> After(r)] = PlanReceipt(run[r].shard)
    BY <1>0, <1>1, AfterPlanned DEF PlanReceipt
  <1>3. receipts[run[r].shard] \in {NoReceipt, PlanReceipt(run[r].shard)}
    BY <1>0 DEF Able, LeftInv
  <1>4. /\ UNCHANGED run /\ pc'[r] = "check"
        /\ receipts' = [receipts EXCEPT ![run[r].shard] = PlanReceipt(run[r].shard)]
    BY <1>0, <1>2, <1>3 DEF SaveReceipt, Goto
  <1>5. /\ \A s : /\ Original(s)' <=> Original(s)
                  /\ Restored(s)' <=> Restored(s)
                  /\ Published(s)' <=> Published(s)
                  /\ PlanReceipt(s)' = PlanReceipt(s)
        /\ Union' = Union /\ MissingIds' = MissingIds
        /\ LegacyShards' = LegacyShards /\ LegacyIds' = LegacyIds
        /\ \A s : OnlyShard(plan.hist, s)' = OnlyShard(plan.hist, s)
    BY <1>0 DEF Original, Restored, Published, PlanReceipt, OnlyShard, OnlyIds,
       Image, LegacyIds, Union, InsertRows, MissingIds, LegacyShards
  <1>6. \A s \in Shards : receipts'[s] \in {NoReceipt, PlanReceipt(s)}
    BY <1>0, <1>4 DEF Able, LeftInv
  <1>7. \A s \in Shards : Published(s) =>
            receipts'[s] = PlanReceipt(s) /\ OnlyShard(plan.hist, s) \in backups
    BY <1>0, <1>1, <1>4 DEF Able, LeftInv
  <1>8. LeftInv'
    BY <1>0, <1>5, <1>6, <1>7 DEF Able, LeftInv, RaQuiet
  <1>9. receipts'[run[r].shard] = PlanReceipt(run[r].shard)
    BY <1>0, <1>4
  <1>10. ResumeInvOf(r)'
    BY <1>0, <1>1, <1>4, <1>5, <1>9 DEF ResumeInvOf
  <1>. QED
    BY <1>8, <1>10

LEMMA ResumeCheck ==
    ASSUME NEW r \in Runs, Able(r), CheckShard(r)
    PROVE  LeftInv' /\ ResumeInvOf(r)'
  <1>0. /\ pc \in [Runs -> Pc] /\ TypeOK /\ pc[r] = "check"
        /\ UNCHANGED <<hist, ra, alock, plan, db, journal, manifest, backups,
                       receipts>>
    BY DEF Able, SafetyInv, TypeOK, CheckShard, stores, saved, raVars
  <1>1. LeftInv'
    BY <1>0, LeftKept DEF Able
  <1>2. Rechecked(r)
    BY <1>0, IsRechecked DEF Able, Prep
  <1>3. UNCHANGED run /\ pc'[r] = "rename"
    BY <1>0, <1>2 DEF CheckShard, Goto
  <1>4. /\ alock = r /\ manifest /\ run[r].expected = hist
        /\ ~run[r].published => journal.state = "none" /\ LegacyIds # {}
        /\ run[r].before = OnlyShard(plan.hist, run[r].shard)
        /\ run[r].before \in backups
        /\ receipts[run[r].shard] = PlanReceipt(run[r].shard)
        /\ run[r].outcome = "refused" => r \in Rollbacks
    BY <1>0 DEF Able, ResumeInvOf, Owning, Locked, Pc, Prep, Pending
  <1>5. /\ LegacyIds' = LegacyIds /\ PlanReceipt(run[r].shard)' = PlanReceipt(run[r].shard)
        /\ OnlyShard(plan.hist, run[r].shard)' = OnlyShard(plan.hist, run[r].shard)
    BY <1>0, <1>3 DEF LegacyIds, PlanReceipt, OnlyShard, OnlyIds, Image
  <1>. QED
    BY <1>0, <1>1, <1>3, <1>4, <1>5 DEF ResumeInvOf

\* A rename publishes a shard whose receipt and backup are there.
LEMMA ResumeRename ==
    ASSUME NEW r \in Runs, Able(r), TypeOK', RenameShard(r)
    PROVE  LeftInv' /\ ResumeInvOf(r)'
  <1>0. PICK shard \in Shards : shard = run[r].shard
    BY DEF Able, SafetyInv, TypeOK, RunState
  <1>1. /\ TypeOK /\ PlanInvOf(r)
        /\ pc[r] = "rename" /\ pc'[r] = "readback"
        /\ UNCHANGED <<ra, alock, plan, db, journal, manifest, backups, receipts,
                       run>>
    BY DEF Able, SafetyInv, TypeOK, RenameShard, Goto, saved
  <1>2. /\ alock = r /\ manifest /\ run[r].expected = hist
        /\ ~run[r].published => journal.state = "none" /\ LegacyIds # {}
        /\ run[r].before = OnlyShard(plan.hist, shard)
        /\ run[r].before \in backups /\ receipts[shard] = PlanReceipt(shard)
        /\ run[r].outcome = "refused" => r \in Rollbacks
    BY <1>0, <1>1 DEF Able, ResumeInvOf, Owning, Locked, Pc, Prep, Pending
  <1>3. hist \in Table /\ hist' \in Table /\ plan.hist \in Table
        /\ Image(hist) \in Table /\ LegacyShards \subseteq Shards
    BY <1>1, PlannedTypes DEF TypeOK, RaTypeOK
  <1>4. OnlyShard(hist, shard) = OnlyShard(plan.hist, shard)
    BY <1>0, <1>1, <1>2 DEF PlanInvOf, Pending
  <1>5. OnlyShard(hist', shard) = OnlyShard(Image(plan.hist), shard)
    <2>1. OnlyShard(hist', shard) = OnlyShard(Image(hist), shard)
      BY <1>0, <1>1, <1>3, RenameEffect, ShardRows
    <2>. QED
      BY <1>1, <1>4, <2>1, ImageRestores DEF Original
  <1>6. ASSUME NEW s, s # shard PROVE OnlyShard(hist', s) = OnlyShard(hist, s)
    BY <1>0, <1>1, <1>3, <1>6, RenameEffect, ShardRows
  <1>7. /\ \A s : Original(s)' <=> OnlyShard(hist', s) = OnlyShard(plan.hist, s)
        /\ \A s : Restored(s)' <=>
                      OnlyShard(hist', s) = OnlyShard(Image(plan.hist), s)
        /\ \A s : Published(s)' <=> OnlyShard(hist', s) # OnlyShard(plan.hist, s)
        /\ \A s : PlanReceipt(s)' = PlanReceipt(s)
        /\ Union' = Union /\ MissingIds' = MissingIds
        /\ LegacyShards' = LegacyShards /\ LegacyIds' = LegacyIds
        /\ \A s : OnlyShard(plan.hist, s)' = OnlyShard(plan.hist, s)
    BY <1>1 DEF Original, Restored, Published, PlanReceipt, OnlyShard, OnlyIds,
       Image, LegacyIds, Union, InsertRows, MissingIds, LegacyShards
  <1>8. LeftInv'
    <2>. USE DEF Able
    <2>1. \A s \in Shards : (Original(s) \/ Restored(s))'
      BY <1>5, <1>6, <1>7 DEF LeftInv, Original, Restored
    <2>2. \A s \in Shards : Published(s)' =>
              receipts[s] = PlanReceipt(s) /\ OnlyShard(plan.hist, s) \in backups
      BY <1>2, <1>6, <1>7 DEF LeftInv, Published
    <2>3. \A s \in LegacyShards : Published(s) => Published(s)'
      BY <1>1, <1>5, <1>6, <1>7, LegacyShardsDiffer DEF Published
    <2>4. \A m \in Scripts : RaQuiet(m)'
      BY <1>1 DEF LeftInv, RaQuiet
    <2>5. \A s \in Shards : receipts[s] \in {NoReceipt, PlanReceipt(s)}
      BY DEF LeftInv
    <2>6. /\ journal.state = "none" => db = plan.db
          /\ journal.state = "APPLIED" =>
               /\ db = Union /\ journal.rows = MissingIds
               /\ \A s \in LegacyShards : Published(s)
      BY DEF LeftInv
    <2>. QED
      BY <1>1, <1>2, <1>7, <2>1, <2>2, <2>3, <2>4, <2>5, <2>6 DEF LeftInv
  <1>9. run[r].expected = PutShards(hist', plan.hist, {shard})
    <2>1. ASSUME NEW id \in RowIds
          PROVE  hist[id] = IF ShardOf[id] \in {shard} THEN plan.hist[id]
                                                       ELSE hist'[id]
      BY <1>0, <1>1, <1>3, <1>4, RenameEffect, ShardRows
    <2>. QED
      BY <1>2, <1>3, <2>1 DEF PutShards, Table
  <1>10. Restored(shard)' /\ PutShards(hist, plan.hist, {shard})' =
                             PutShards(hist', plan.hist, {shard})
    BY <1>1, <1>5, <1>7 DEF PutShards
  <1>11. /\ Restored(run[r].shard)'
         /\ run'[r].expected = PutShards(hist, plan.hist, {run[r].shard})'
         /\ run'[r].before = OnlyShard(plan.hist, run[r].shard)'
    BY <1>0, <1>1, <1>2, <1>7, <1>9, <1>10
  <1>12. ResumeInvOf(r)'
    BY <1>1, <1>2, <1>7, <1>11 DEF ResumeInvOf
  <1>. QED
    BY <1>8, <1>12

\* The published shard is the one read back, and makes no new file.
LEMMA ResumeReadback ==
    ASSUME NEW r \in Runs, Able(r), Readback(r)
    PROVE  LeftInv' /\ ResumeInvOf(r)'
  <1>0. PICK shard \in Shards : shard = run[r].shard
    BY DEF Able, SafetyInv, TypeOK, RunState
  <1>1. /\ TypeOK /\ pc \in [Runs -> Pc] /\ run \in [Runs -> RunState]
        /\ pc[r] = "readback"
        /\ UNCHANGED <<hist, ra, alock, plan, db, journal, manifest, backups,
                       receipts>>
    BY DEF Able, SafetyInv, TypeOK, Readback, stores, saved, raVars
  <1>2. /\ alock = r /\ manifest
        /\ ~run[r].published => journal.state = "none" /\ LegacyIds # {}
        /\ run[r].before = OnlyShard(plan.hist, shard)
        /\ Restored(shard)
        /\ run[r].expected = PutShards(hist, plan.hist, {shard})
        /\ run[r].outcome = "refused" => r \in Rollbacks
    BY <1>0, <1>1 DEF Able, ResumeInvOf, Owning, Locked, Pc, Prep, Pending
  <1>3. LeftInv'
    BY <1>1, LeftKept DEF Able
  <1>4. /\ hist \in Table /\ plan.hist \in Table
        /\ PutShards(hist, plan.hist, {shard}) \in Table
    BY <1>1, PlannedTypes, TableTypes
  <1>5. OnlyShard(hist, shard) = After(r)
    BY <1>0, <1>1, <1>2, AfterPlanned DEF Restored
  <1>6. ShardsOf(hist) = ShardsOf(run[r].expected)
    <2>1. ShardsOf(hist) = ShardsOf(plan.hist)
      BY <1>1, <1>4, PlannedShardsOf DEF Able, LeftInv, Original, Restored
    <2>. DEFINE old == PutShards(hist, plan.hist, {shard})
    <2>2. ASSUME NEW s \in Shards
          PROVE  OnlyShard(old, s) \in
                     {OnlyShard(plan.hist, s), OnlyShard(Image(plan.hist), s)}
      <3>1. CASE s = shard
        <4>1. \A id \in RowIds : ShardOf[id] = s => old[id] = plan.hist[id]
          BY <3>1 DEF PutShards
        <4>. QED
          BY <1>4, <4>1, ShardRows
      <3>2. CASE s # shard
        <4>1. \A id \in RowIds : ShardOf[id] = s => old[id] = hist[id]
          BY <3>2 DEF PutShards
        <4>2. OnlyShard(old, s) = OnlyShard(hist, s)
          BY <1>4, <4>1, ShardRows
        <4>. QED
          BY <4>2 DEF Able, LeftInv, Original, Restored
      <3>. QED
        BY <3>1, <3>2
    <2>. HIDE DEF old
    <2>3. ShardsOf(old) = ShardsOf(plan.hist)
      BY <1>1, <1>4, <2>2, PlannedShardsOf DEF Able, old
    <2>. QED
      BY <1>2, <2>1, <2>3 DEF old
  <1>7. PutShards(run[r].expected, hist, {shard}) = hist
    <2>1. ASSUME NEW id \in RowIds
          PROVE  PutShards(run[r].expected, hist, {shard})[id] = hist[id]
      BY <1>2 DEF PutShards
    <2>. QED
      BY <1>4, <2>1 DEF PutShards, Table
  <1>8. /\ run' = [run EXCEPT ![r].expected = hist, ![r].before = EmptyTable]
        /\ pc'[r] = "shard"
    BY <1>0, <1>1, <1>5, <1>6, <1>7 DEF Readback, Goto
  <1>9. /\ run'[r].expected = hist /\ run'[r].published = run[r].published
        /\ run'[r].outcome = run[r].outcome
    BY <1>1, <1>8 DEF RunState
  <1>10. LegacyIds' = LegacyIds
    BY <1>1 DEF LegacyIds
  <1>. QED
    BY <1>1, <1>2, <1>3, <1>8, <1>9, <1>10 DEF ResumeInvOf, Pending

\* Of the states the journal can be in, each lets the plan go on.
LEMMA ResumeApply ==
    ASSUME NEW r \in Runs, Able(r), BeginApply(r)
    PROVE  LeftInv' /\ ResumeInvOf(r)'
  <1>0. /\ pc \in [Runs -> Pc] /\ TypeOK /\ pc[r] = "apply"
        /\ UNCHANGED <<hist, ra, alock, plan, db, journal, manifest, backups,
                       receipts>>
    BY DEF Able, SafetyInv, TypeOK, BeginApply, stores, saved, raVars
  <1>1. LeftInv'
    BY <1>0, LeftKept DEF Able
  <1>2. /\ alock = r /\ run[r].published /\ run[r].expected = hist /\ manifest
    BY <1>0 DEF Able, ResumeInvOf, Owning, Locked, Pc, Prep
  <1>3. Replay(r) \/ FirstApply(r)
    <2>1. CASE journal.state = "none"
      BY <1>2, <2>1 DEF Able, LeftInv, FirstApply, SourceUnchanged
    <2>2. CASE journal.state = "APPLIED"
      BY <1>2, <2>2 DEF Able, LeftInv, Replay, SourceUnchanged
    <2>. QED
      BY <1>0, <2>1, <2>2 DEF Able, Undisturbed, TypeOK
  <1>4. CASE End(r, "already_applied")
    BY <1>1, <1>4, EndResume DEF Outcomes
  <1>5. CASE Goto(r, "validate") /\ UNCHANGED run
    <2>1. pc'[r] = "validate"
      BY <1>0, <1>5 DEF Goto
    <2>2. ResumeInvOf(r)'
      BY <1>0, <1>2, <1>5, <2>1, ResumeOn DEF Prep, Pending
    <2>. QED
      BY <1>1, <2>2
  <1>. QED
    BY <1>2, <1>3, <1>4, <1>5 DEF BeginApply, OwnsLock

LEMMA ResumeValidate ==
    ASSUME NEW r \in Runs, Able(r), Validate(r)
    PROVE  LeftInv' /\ ResumeInvOf(r)'
  <1>0. /\ pc \in [Runs -> Pc] /\ TypeOK /\ pc[r] = "validate"
        /\ UNCHANGED <<hist, ra, alock, plan, db, journal, manifest, backups,
                       receipts>>
    BY DEF Able, SafetyInv, TypeOK, Validate, stores, saved, raVars
  <1>1. LeftInv'
    BY <1>0, LeftKept DEF Able
  <1>2. Rechecked(r) /\ manifest /\ run[r].published
    BY <1>0, IsRechecked DEF Able, Prep, ResumeInvOf
  <1>3. Inserted = Union
    BY <1>0 DEF Able, SafetyInv, TxnInv, Inserted, Union
  <1>4. UNCHANGED run /\ pc'[r] = "commit"
    BY <1>0, <1>2, <1>3 DEF Validate, Goto
  <1>5. ResumeInvOf(r)'
    BY <1>0, <1>2, <1>4, ResumeOn DEF Prep, Pending
  <1>. QED
    BY <1>1, <1>5

\* By the commit every shard of the plan is published.
LEMMA ResumeCommit ==
    ASSUME NEW r \in Runs, Able(r), Commit(r)
    PROVE  LeftInv' /\ ResumeInvOf(r)'
  <1>0. /\ TypeOK /\ pc[r] = "commit" /\ End(r, "applied")
        /\ UNCHANGED <<hist, ra, plan, manifest, backups, receipts>>
        /\ db' = Inserted /\ journal'.state = "APPLIED" /\ journal'.rows = MissingIds
    BY DEF Able, SafetyInv, Commit, saved, raVars
  <1>1. Inserted = Union
    BY <1>0 DEF Able, SafetyInv, TxnInv, Inserted, Union
  <1>2. manifest /\ run[r].published
    BY <1>0 DEF Able, ResumeInvOf, Prep
  <1>3. ASSUME NEW s \in LegacyShards PROVE Published(s)
    <2>1. Restored(s)
      BY <1>0, <1>2 DEF Able, PlanInvOf, Prep
    <2>. QED
      BY <1>0, <2>1, LegacyShardsDiffer DEF Published, Restored
  <1>4. /\ \A s : /\ Original(s)' <=> Original(s)
                  /\ Restored(s)' <=> Restored(s)
                  /\ Published(s)' <=> Published(s)
                  /\ PlanReceipt(s)' = PlanReceipt(s)
        /\ Union' = Union /\ MissingIds' = MissingIds
        /\ LegacyShards' = LegacyShards
        /\ \A s : OnlyShard(plan.hist, s)' = OnlyShard(plan.hist, s)
    BY <1>0 DEF Original, Restored, Published, PlanReceipt, OnlyShard, OnlyIds,
       Image, LegacyIds, Union, InsertRows, MissingIds, LegacyShards
  <1>5. LeftInv'
    BY <1>0, <1>1, <1>2, <1>3, <1>4 DEF Able, LeftInv, RaQuiet
  <1>6. ResumeInvOf(r)'
    BY <1>0, EndResume DEF Outcomes
  <1>. QED
    BY <1>5, <1>6

LEMMA ResumeRollback ==
    ASSUME NEW r \in Runs, Able(r), Rollback(r), Undisturbed'
    PROVE  LeftInv' /\ ResumeInvOf(r)'
  <1>1. pc[r] = "rollback" /\ Refuse(r) /\ UNCHANGED <<db, journal>>
    BY DEF Rollback, AfterRollback, Able, SafetyInv, TypeOK, Undisturbed
  <1>2. UNCHANGED <<hist, ra, plan, manifest, backups, receipts>>
    BY DEF Rollback, raVars, saved
  <1>3. LeftInv'
    BY <1>1, <1>2, LeftKept DEF Able
  <1>4. r \in Rollbacks
    BY <1>1 DEF Able, ResumeInvOf
  <1>5. ResumeInvOf(r)'
    BY <1>1, <1>4, EndResume DEF Refuse, Outcomes
  <1>. QED
    BY <1>3, <1>5

LEMMA ResumeEnds ==
    ASSUME NEW r \in Runs, Able(r), Fail(r) \/ Release(r) \/ Crash(r)
    PROVE  LeftInv' /\ ResumeInvOf(r)'
  <1>0. pc \in [Runs -> Pc] /\ run \in [Runs -> RunState]
    BY DEF Able, SafetyInv, TypeOK
  <1>1. LeftInv'
    BY LeftKept DEF Able, Fail, Release, Crash, stores, saved, raVars
  <1>2. CASE Fail(r)
    BY <1>1, <1>2, EndResume DEF Fail, Outcomes
  <1>3. CASE Release(r)
    <2>1. pc'[r] = "done" /\ (run'[r].outcome = "refused" => r \in Rollbacks)
      BY <1>0, <1>3 DEF Release, Goto, Able, ResumeInvOf
    <2>. QED
      BY <1>1, <2>1, LeaveResume
  <1>4. CASE Crash(r)
    <2>1. pc'[r] = "dead" /\ run'[r].outcome # "refused"
      BY <1>0, <1>4, NewRunType DEF Crash, Goto, NewRun, Remembered
    <2>. QED
      BY <1>1, <2>1, LeaveResume DEF Able, ResumeInvOf
  <1>. QED
    BY <1>2, <1>3, <1>4

\* The step of an execution keeps what it and later ones need.
LEMMA OwnKeepsResume ==
    ASSUME NEW r \in Runs, Able(r), TypeOK', Undisturbed',
           RunStep(r) \/ Fail(r) \/ Crash(r)
    PROVE  LeftInv' /\ ResumeInvOf(r)'
  BY ResumeLocks, ResumeOpen, ResumeSaves, ResumePublish, ResumeNextShard,
     ResumeBackup, ResumeReceipt, ResumeCheck, ResumeRename, ResumeReadback,
     ResumeApply, ResumeValidate, ResumeCommit, ResumeRollback, ResumeEnds
  DEF RunStep

\* An execution at work holds the history lock, so no other gets past its own
\* attempt to take it.
LEMMA OthersKeepResume ==
    ASSUME TypeOK, HoldInv, NEW r \in Runs, RunStep(r) \/ Fail(r) \/ Crash(r),
           NEW q \in Runs, q # r, ResumeInvOf(q)
    PROVE  ResumeInvOf(q)'
  <1>1. pc'[q] = pc[q] /\ run'[q] = run[q]
    BY RunEffects
  <1>2. CASE pc[q] \notin Owning
    <2>1. pc[q] \notin Prep \cup Pending \cup {"readback", "rollback"}
      BY <1>2 DEF Owning, Locked, Prep, Pending, Pc
    <2>. QED
      BY <1>1, <1>2, <2>1 DEF ResumeInvOf, Pending, Prep
  <1>3. CASE pc[q] \in Owning
    <2>1. hlock = q /\ alock = q
      BY <1>3 DEF HoldInv, Owning, ResumeInvOf
    <2>2. pc[r] \notin Locked /\ pc[r] \in Pc
      BY <2>1 DEF HoldInv, TypeOK
    <2>3. LockHistory(r) \/ Release(r) \/ Crash(r)
      BY <2>2 DEF Locked, Pc, RunStep, Fail, CheckAppendLock, TakeAppendLock,
         Open, SaveManifest, SaveLockReceipt, BeginPublish, NextShard,
         SaveBackup, SaveReceipt, CheckShard, RenameShard, Readback, BeginApply,
         Validate, Commit, Rollback
    <2>4. UNCHANGED <<hist, alock, journal, plan, manifest, backups, receipts>>
      BY <2>1, <2>3 DEF LockHistory, Release, Crash, stores, saved
    <2>5. /\ LegacyIds' = LegacyIds
          /\ \A s : /\ OnlyShard(plan.hist, s)' = OnlyShard(plan.hist, s)
                    /\ PlanReceipt(s)' = PlanReceipt(s)
                    /\ Restored(s)' = Restored(s)
                    /\ PutShards(hist, plan.hist, {s})' =
                           PutShards(hist, plan.hist, {s})
      BY <2>4 DEF LegacyIds, OnlyShard, OnlyIds, PlanReceipt, Restored, Image,
         PutShards
    <2>. QED
      BY <1>1, <2>4, <2>5 DEF ResumeInvOf
  <1>. QED
    BY <1>2, <1>3

\* Nothing undoes a change by someone else, or a rollback.
LEMMA UndisturbedBefore ==
    ASSUME SafetyInv, [Next]_vars, Undisturbed'
    PROVE  Undisturbed
  <1>. USE DEF SafetyInv
  <1>1. CASE Environment \/ UNCHANGED vars
    <2>1. UNCHANGED journal
      BY <1>1 DEF Environment, JobAppends, OtherDbEdit, AgeLock,
         OperatorRemovesLock, ScriptStarts, ScriptStep, ScriptDies, vars
    <2>2. UNCHANGED edits \/ edits' = edits + 1
      BY <1>1 DEF Environment, JobAppends, OtherDbEdit, AgeLock,
         OperatorRemovesLock, ScriptStarts, ScriptStep, ScriptDies, vars, Edit
    <2>3. edits \in Nat
      BY RecoveryAssumption DEF TypeOK
    <2>. QED
      BY <2>1, <2>2, <2>3 DEF Undisturbed
  <1>2. ASSUME NEW r \in Runs, RunStep(r) \/ Fail(r) \/ Crash(r)
        PROVE  Undisturbed
    <2>1. Quiet(r) \/ Begins(r) \/ Validates(r) \/ Commit(r) \/ RollsBack(r)
      BY <1>2, StepIsQuiet
    <2>2. UNCHANGED edits
      BY <2>1 DEF Quiet, Begins, Validates, RollsBack, BeginApply, Validate,
         Commit, Rollback
    <2>3. \/ UNCHANGED journal
          \/ journal.state \in {"none", "APPLIED"}
      BY <2>1 DEF Quiet, Begins, Validates, RollsBack, BeginApply, Validate,
         Commit, TxnInv
    <2>. QED
      BY <2>2, <2>3 DEF Undisturbed
  <1>. QED
    BY <1>1, <1>2 DEF Next

\* What happens around the executions when nobody changes a store: the
\* operator removes lock files of dead processes, and time passes.
LEMMA CalmEnvironment ==
    ASSUME TypeOK, Undisturbed, Undisturbed', LeftInv, Environment \/ UNCHANGED vars
    PROVE  /\ UNCHANGED <<hist, ra, plan, db, journal, receipts, backups,
                          manifest, pc, run, hlock>>
           /\ \/ UNCHANGED alock
              \/ alock \in Scripts
              \/ alock \in Runs /\ pc[alock] \in {"done", "dead"}
  <1>1. edits = 0 /\ edits' = 0
    BY DEF Undisturbed
  <1>2. ~JobAppends /\ ~OtherDbEdit /\ \A m \in Scripts : ~ScriptStarts(m)
    BY <1>1 DEF JobAppends, OtherDbEdit, ScriptStarts, Edit
  <1>3. \A m \in Scripts : ~ScriptStep(m) /\ ~ScriptDies(m)
    BY DEF LeftInv, ScriptStep, ScriptDies, RaQuiet, RaStep, RaCheckLock,
       RaReclaim, RaTakeLock, RaRead, RaWriteShard, RaRollback, RaThrow, RaFinish
  <1>4. AgeLock \/ OperatorRemovesLock \/ UNCHANGED vars
    BY <1>2, <1>3 DEF Environment
  <1>. QED
    BY <1>4 DEF AgeLock, OperatorRemovesLock, vars, raVars, locks, saved

LEMMA CalmKeepsResume ==
    ASSUME TypeOK, Undisturbed, Undisturbed', LeftInv, PlanInv,
           \A r \in Runs : ResumeInvOf(r), Environment \/ UNCHANGED vars
    PROVE  LeftInv' /\ PlanInv' /\ \A r \in Runs : ResumeInvOf(r)'
  <1>1. /\ UNCHANGED <<hist, ra, plan, db, journal, receipts, backups,
                       manifest, pc, run, hlock>>
        /\ \/ UNCHANGED alock
           \/ alock \in Scripts
           \/ alock \in Runs /\ pc[alock] \in {"done", "dead"}
    BY CalmEnvironment
  <1>2. LeftInv'
    BY <1>1, LeftKept
  <1>3. /\ LegacyIds' = LegacyIds /\ LegacyShards' = LegacyShards
        /\ \A s : /\ OnlyShard(plan.hist, s)' = OnlyShard(plan.hist, s)
                  /\ PlanReceipt(s)' = PlanReceipt(s)
                  /\ Original(s)' = Original(s) /\ Restored(s)' = Restored(s)
                  /\ PutShards(hist, plan.hist, {s})' =
                         PutShards(hist, plan.hist, {s})
                  /\ OnlyShard(hist, s)' = OnlyShard(hist, s)
    BY <1>1 DEF LegacyIds, LegacyShards, OnlyShard, OnlyIds, PlanReceipt,
       Original, Restored, Image, PutShards
  <1>4. Admissible(plan.hist, plan.db)'
    BY <1>1 DEF PlanInv, Admissible, HasDuplicates, Ids, Stored, RowOf, ShardsOf
  <1>5. ASSUME NEW r \in Runs PROVE PlanInvOf(r)'
    BY <1>1, <1>3 DEF PlanInv, PlanInvOf
  <1>6. ASSUME NEW r \in Runs PROVE ResumeInvOf(r)'
    <2>1. pc[r] \in Owning => alock' = r
      <3>. SUFFICES ASSUME pc[r] \in Owning, alock' # r PROVE FALSE
        OBVIOUS
      <3>1. alock = r /\ pc[r] \notin {"done", "dead"}
        BY DEF ResumeInvOf, Owning, Locked
      <3>. QED
        BY <1>1, <3>1, RecoveryAssumption
    <2>. QED
      BY <1>1, <1>3, <2>1 DEF ResumeInvOf
  <1>. QED
    BY <1>2, <1>4, <1>5, <1>6 DEF PlanInv

RecoverInv == SafetyInv /\ HoldInv /\ ResumeInv

LEMMA RecoverInit == Init => RecoverInv
  <1>. SUFFICES ASSUME Init PROVE RecoverInv
    OBVIOUS
  <1>1. \A r \in Runs : pc[r] = "new" /\ run[r].outcome = "none"
    BY NewRunType DEF Init, NewRun
  <1>2. HoldInv
    BY <1>1 DEF HoldInv, Locked
  <1>3. PlanInv
    <2>1. Admissible(plan.hist, plan.db)
      BY RecoveryAssumption DEF Init
    <2>. QED
      BY <1>1, <2>1 DEF PlanInv, PlanInvOf, Prep, Publishing, Pending
  <1>4. hist = plan.hist /\ db = plan.db
    BY DEF Init
  <1>5. LeftInv
    BY <1>4, RecoveryAssumption
       DEF LeftInv, Init, RaInit, RaQuiet, RaIdle, Original, Published
  <1>6. \A r \in Runs : ResumeInvOf(r)
    BY <1>1 DEF ResumeInvOf, Owning, Locked, Prep, Pending
  <1>. QED
    BY <1>2, <1>3, <1>5, <1>6, SafetyInit DEF RecoverInv, ResumeInv

LEMMA RecoverStep == RecoverInv /\ [Next]_vars => RecoverInv'
  <1>. SUFFICES ASSUME RecoverInv, [Next]_vars PROVE RecoverInv'
    OBVIOUS
  <1>. USE DEF RecoverInv
  <1>1. SafetyInv' /\ TypeOK /\ TypeOK'
    BY SafetyStep DEF SafetyInv
  <1>2. HoldInv'
    <2>1. CASE Environment \/ UNCHANGED vars
      <3>1. UNCHANGED <<pc, hlock>>
        BY <2>1 DEF Environment, JobAppends, OtherDbEdit, AgeLock,
           OperatorRemovesLock, ScriptStarts, ScriptStep, ScriptDies, vars, locks
      <3>. QED
        BY <3>1 DEF HoldInv
    <2>. QED
      BY <1>1, <2>1, HoldStep DEF Next
  <1>3. ASSUME Undisturbed'
        PROVE  LeftInv' /\ PlanInv' /\ \A r \in Runs : ResumeInvOf(r)'
    <2>1. Undisturbed /\ LeftInv /\ PlanInv /\ \A r \in Runs : ResumeInvOf(r)
      BY <1>3, UndisturbedBefore DEF ResumeInv
    <2>2. CASE Environment \/ UNCHANGED vars
      BY <1>1, <1>3, <2>1, <2>2, CalmKeepsResume
    <2>3. ASSUME NEW r \in Runs, RunStep(r) \/ Fail(r) \/ Crash(r)
          PROVE  LeftInv' /\ PlanInv' /\ \A q \in Runs : ResumeInvOf(q)'
      <3>1. LeftInv' /\ ResumeInvOf(r)' /\ PlanInvOf(r)'
        <4>1. Able(r)
          BY <2>1 DEF Able, PlanInv
        <4>2. LeftInv' /\ ResumeInvOf(r)'
          BY <1>1, <1>3, <2>3, <4>1, OwnKeepsResume
        <4>3. PlanInvOf(r)'
          BY <1>1, <2>1, <2>3, OwnKeepsPlanInv DEF PlanInv
        <4>. QED
          BY <4>2, <4>3
      <3>2. ASSUME NEW q \in Runs, q # r PROVE ResumeInvOf(q)' /\ PlanInvOf(q)'
        <4>1. ResumeInvOf(q)'
          BY <1>1, <2>1, <2>3, <3>2, OthersKeepResume
        <4>2. PlanInvOf(q)'
          BY <1>1, <2>1, <2>3, <3>2, OthersKeepPlanInv
        <4>. QED
          BY <4>1, <4>2
      <3>3. Admissible(plan.hist, plan.db)'
        <4>1. plan' = plan
          BY <1>1, <2>3, RunEffects
        <4>. QED
          BY <2>1, <4>1 DEF PlanInv, Admissible, HasDuplicates, Ids, Stored,
             RowOf, ShardsOf
      <3>4. \A q \in Runs : ResumeInvOf(q)' /\ PlanInvOf(q)'
        <4>. SUFFICES ASSUME NEW q \in Runs PROVE ResumeInvOf(q)' /\ PlanInvOf(q)'
          OBVIOUS
        <4>1. CASE q = r
          BY <3>1, <4>1
        <4>. QED
          BY <3>2, <4>1
      <3>. QED
        BY <3>1, <3>3, <3>4 DEF PlanInv
    <2>. QED
      BY <2>2, <2>3 DEF Next
  <1>. QED
    BY <1>1, <1>2, <1>3 DEF ResumeInv

\* An accepted plan can always be carried on: as long as nobody else changes
\* history or the database and no rollback undid the plan, no execution that
\* is to apply it refuses, wherever earlier executions died or failed.
THEOREM RecoveryResumes == Spec => []CrashIsResumable
  <1>1. RecoverInv => CrashIsResumable
    <2>. SUFFICES ASSUME RecoverInv, Undisturbed, NEW r \in Runs \ Rollbacks
                  PROVE  run[r].outcome # "refused"
      BY DEF CrashIsResumable, Undisturbed
    <2>. QED
      BY DEF RecoverInv, ResumeInv, ResumeInvOf
  <1>. QED
    BY <1>1, RecoverInit, RecoverStep, PTL DEF Spec
=============================================================================
