------------------------ MODULE TrustedAppendSafety -------------------------
(* Safety of the append pipeline for every set of rows, shards, jobs and     *)
(* scripts.  HistoryLockInv and DbLockInv, the invariants of the two locks,  *)
(* are the induction hypotheses of everything else: the first says that only *)
(* the holder of the history-writer lock is past the lock step, the second   *)
(* that a run in normal mode keeps the database locked from the comparison   *)
(* with what it classified to the commit.  DataInv says what an append has   *)
(* done to history so far; from it follow the properties of the rows and the *)
(* refinement of AppendOnlyMirror.  The lock file comes last.                *)
EXTENDS TrustedAppendProps, RealAppendTypes, FiniteSetTheorems

-----------------------------------------------------------------------------
(* The jobs keep their types.                                                *)

LEMMA EmptyDbType == EmptyDb \in Database
  BY DEF EmptyDb, Database

LEMMA NewRunType == \A rows \in Table : NewRun(rows) \in RunState
  BY EmptyDbType, TableTypes, TableAssumption DEF NewRun, RunState, Outcomes

LEMMA GotoType ==
    ASSUME TypeOK, NEW w \in Writers, NEW label \in Pc, Goto(w, label)
    PROVE  pc' \in [Writers -> Pc]
  BY DEF TypeOK, Goto

LEMMA CaptureType ==
    ASSUME TypeOK, NEW w \in Writers, NEW r \in RunState, NEW rows \in Table,
           NEW status \in Statuses, NEW instead \in Statuses,
           Capture(w, r, status, instead, rows)
    PROVE  run' \in [Writers -> RunState]
  <1>1. status \in Outcomes /\ instead \in Outcomes
    BY DEF Outcomes
  <1>2. /\ [r EXCEPT !.status = status, !.captured = rows] \in RunState
        /\ [r EXCEPT !.status = instead, !.unsaved = rows] \in RunState
    BY <1>1 DEF RunState
  <1>. QED
    BY <1>2 DEF Capture, TypeOK

LEMMA PreserveType ==
    ASSUME TypeOK, NEW w \in Writers, NEW r \in RunState,
           NEW status \in Statuses, Preserve(w, r, status)
    PROVE  run' \in [Writers -> RunState] /\ pc' \in [Writers -> Pc]
  <1>1. r.batch \in Table
    BY DEF RunState
  <1>2. "CAPTURE_FAILED_ROWS_UNSAVED" \in Statuses /\ "release" \in Pc
    BY DEF Statuses, Pc
  <1>3. Capture(w, r, status, "CAPTURE_FAILED_ROWS_UNSAVED", r.batch)
        /\ Goto(w, "release")
    BY DEF Preserve
  <1>. QED
    BY <1>1, <1>2, <1>3, CaptureType, GotoType

LEMMA ReturnType ==
    ASSUME TypeOK, NEW w \in Writers, NEW r \in RunState,
           NEW status \in Outcomes, Return(w, r, status)
    PROVE  run' \in [Writers -> RunState] /\ pc' \in [Writers -> Pc]
  <1>1. [r EXCEPT !.status = status] \in RunState
    BY DEF RunState
  <1>2. run' \in [Writers -> RunState]
    BY <1>1 DEF Return, TypeOK
  <1>3. "release" \in Pc /\ Goto(w, "release")
    BY DEF Return, Pc
  <1>. QED
    BY <1>2, <1>3, GotoType

\* Statuses and labels the actions use.
LEMMA StatusTypes ==
    /\ {"LOCK_BUSY_CAPTURE_PRESERVED", "STATE_UNKNOWN_CAPTURE_PRESERVED",
        "APPEND_CONFLICT_CAPTURE_PRESERVED",
        "APPEND_CAP_EXCEEDED_CAPTURE_PRESERVED",
        "HISTORY_APPENDED_MIRROR_DISABLED", "HISTORY_APPENDED_MIRROR_BLOCKED",
        "HISTORY_APPEND_FAILED_MIRROR_BLOCKED",
        "HISTORY_APPEND_UNVERIFIED_MIRROR_BLOCKED", "MIRRORED",
        "NOTHING_TO_APPEND", "MIRROR_FAILED_ROLLED_BACK"} \subseteq Statuses
    /\ Statuses \subseteq Outcomes
    /\ "threw" \in Outcomes
  BY DEF Statuses, Outcomes, Preserved, Appended, AppendFailed

LEMMA BeginType ==
    ASSUME TypeOK, NEW w \in Writers, Begin(w)
    PROVE  TypeOK'
  <1>1. PICK rows \in Batches :
            LET r == NewRun(rows) IN
            \/ Return(w, r, "NOTHING_TO_APPEND")
            \/ Preserve(w, r, "APPEND_CAP_EXCEEDED_CAPTURE_PRESERVED")
            \/ run' = [run EXCEPT ![w] = r] /\ Goto(w, "lock")
    BY DEF Begin
  <1>2. NewRun(rows) \in RunState
    BY NewRunType, WriterAssumption
  <1>3. run' \in [Writers -> RunState] /\ pc' \in [Writers -> Pc]
    <2>1. CASE Return(w, NewRun(rows), "NOTHING_TO_APPEND")
      BY <1>2, <2>1, ReturnType, StatusTypes
    <2>2. CASE Preserve(w, NewRun(rows), "APPEND_CAP_EXCEEDED_CAPTURE_PRESERVED")
      BY <1>2, <2>2, PreserveType, StatusTypes
    <2>3. CASE run' = [run EXCEPT ![w] = NewRun(rows)] /\ Goto(w, "lock")
      BY <1>2, <2>3, GotoType DEF TypeOK, Pc
    <2>. QED
      BY <1>1, <2>1, <2>2, <2>3
  <1>4. started' \in 0..MaxRuns
    BY WriterAssumption DEF Begin, TypeOK
  <1>. QED
    BY <1>3, <1>4 DEF Begin, TypeOK, raVars, locks, RaTypeOK

LEMMA ReadDbType ==
    ASSUME TypeOK, NEW w \in Writers, ReadDb(w)
    PROVE  TypeOK'
  <1>. DEFINE r == [run[w] EXCEPT !.seen = db]
              planned == [r EXCEPT !.toWrite = ToWrite(r)]
  <1>1. run[w] \in RunState /\ r \in RunState
    BY DEF TypeOK, RunState
  <1>2. planned \in RunState
    <2>1. ToWrite(r) \in Table
      BY <1>1, TableTypes DEF ToWrite, RunState
    <2>. QED
      BY <1>1, <2>1 DEF RunState
  <1>3. [r EXCEPT !.exact = Consistent(r)] \in RunState
    <2>1. Consistent(r) \in BOOLEAN
      BY DEF Consistent, HasDuplicates, MirrorExactMatch
    <2>. QED
      BY <1>1, <2>1 DEF RunState
  <1>4. run' \in [Writers -> RunState] /\ pc' \in [Writers -> Pc]
    <2>1. CASE Preserve(w, run[w], "STATE_UNKNOWN_CAPTURE_PRESERVED")
      BY <1>1, <2>1, PreserveType, StatusTypes
    <2>2. CASE Preserve(w, r, "APPEND_CONFLICT_CAPTURE_PRESERVED")
      BY <1>1, <2>2, PreserveType, StatusTypes
    <2>3. CASE Return(w, [r EXCEPT !.exact = Consistent(r)], "NOTHING_TO_APPEND")
      BY <1>3, <2>3, ReturnType, StatusTypes
    <2>4. CASE run' = [run EXCEPT ![w] = planned] /\ Goto(w, "legacyCheck")
      BY <1>2, <2>4, GotoType DEF TypeOK, Pc
    <2>. QED
      BY <2>1, <2>2, <2>3, <2>4 DEF ReadDb
  <1>. QED
    BY <1>4 DEF ReadDb, TypeOK, raVars, locks, RaTypeOK

LEMMA EnterAppendType ==
    ASSUME TypeOK, NEW w \in Writers, EnterAppend(w)
    PROVE  RaTypeOK' /\ pc' \in [Writers -> Pc]
  <1>1. w \in Procs /\ run[w].toWrite \in Table
    BY WriterAssumption DEF TypeOK, RunState
  <1>2. RaTypeOK'
    BY <1>1, RaStartType DEF EnterAppend, TypeOK, raVars, RaTypeOK
  <1>3. AppendEntry(w) \in Pc /\ Goto(w, AppendEntry(w))
    BY DEF AppendEntry, Pc, EnterAppend
  <1>. QED
    BY <1>2, <1>3, GotoType

LEMMA DeriveType ==
    ASSUME TypeOK, NEW w \in Writers, Derive(w)
    PROVE  TypeOK'
  <1>. DEFINE r == [run[w] EXCEPT !.after = hist]
  <1>1. r \in RunState
    BY DEF TypeOK, RunState, RaTypeOK
  <1>2. Missing(r) \in Table
    BY <1>1, TableTypes DEF Missing, RunState
  <1>3. run' \in [Writers -> RunState] /\ pc' \in [Writers -> Pc]
    <2>1. CASE \E s \in AppendFailed :
                  Capture(w, r, s, s, Missing(r)) /\ Goto(w, "release")
      BY <1>1, <1>2, <2>1, CaptureType, GotoType DEF Statuses, Pc
    <2>2. CASE \E s \in Appended : Return(w, r, s)
      BY <1>1, <2>2, ReturnType DEF Statuses, Outcomes
    <2>3. CASE run' = [run EXCEPT ![w] = r] /\ Goto(w, "mirror")
      BY <1>1, <2>3, GotoType DEF TypeOK, Pc
    <2>. QED
      BY <2>1, <2>2, <2>3 DEF Derive, AppendFailed, Appended
  <1>. QED
    BY <1>3 DEF Derive, TypeOK, raVars, locks, RaTypeOK

LEMMA TypeStep ==
    ASSUME TypeOK, [Next]_vars
    PROVE  TypeOK'
  <1>. USE DEF RaTypeOK, raVars, locks, files
  <1>1. ASSUME NEW w \in Writers, Begin(w) PROVE TypeOK'
    BY <1>1, BeginType
  <1>2. ASSUME NEW w \in Writers, AcquireHistoryLock(w) PROVE TypeOK'
    <2>1. run[w] \in RunState
      BY DEF TypeOK
    <2>2. run' \in [Writers -> RunState] /\ pc' \in [Writers -> Pc]
      BY <1>2, <2>1, GotoType, PreserveType, StatusTypes
         DEF AcquireHistoryLock, TypeOK, Pc
    <2>. QED
      BY <1>2, <2>2 DEF AcquireHistoryLock, TypeOK
  <1>3. ASSUME NEW w \in Writers, ReadHistory(w) PROVE TypeOK'
    <2>1. run[w] \in RunState /\ [run[w] EXCEPT !.before = hist] \in RunState
      BY DEF TypeOK, RunState
    <2>2. CASE /\ run' = [run EXCEPT ![w].before = hist]
               /\ Goto(w, "readDb")
      BY <1>3, <2>1, <2>2, GotoType DEF ReadHistory, TypeOK, Pc
    <2>3. CASE Preserve(w, run[w], "STATE_UNKNOWN_CAPTURE_PRESERVED")
      BY <1>3, <2>1, <2>3, PreserveType, StatusTypes DEF ReadHistory, TypeOK
    <2>. QED
      BY <1>3, <2>2, <2>3 DEF ReadHistory
  <1>4. ASSUME NEW w \in Writers, ReadDb(w) PROVE TypeOK'
    BY <1>4, ReadDbType
  <1>5. ASSUME NEW w \in Writers, LegacyCheck(w) PROVE TypeOK'
    <2>1. run[w] \in RunState
      BY DEF TypeOK
    <2>2. CASE Preserve(w, run[w], "LOCK_BUSY_CAPTURE_PRESERVED")
               /\ UNCHANGED raVars
      BY <1>5, <2>1, <2>2, PreserveType, StatusTypes DEF LegacyCheck, TypeOK
    <2>3. CASE Goto(w, "dbLock") /\ UNCHANGED <<run, raVars>>
      BY <1>5, <2>3, GotoType DEF LegacyCheck, TypeOK, Pc
    <2>4. CASE EnterAppend(w) /\ UNCHANGED run
      BY <1>5, <2>4, EnterAppendType DEF LegacyCheck, TypeOK
    <2>. QED
      BY <1>5, <2>2, <2>3, <2>4 DEF LegacyCheck
  <1>6. ASSUME NEW w \in Writers, DbLock(w) PROVE TypeOK'
    <2>1. run[w] \in RunState /\ dblock' \in Writers \cup {NoProc, OtherDb}
      BY <1>6 DEF TypeOK, DbLock
    <2>2. CASE /\ \/ Preserve(w, run[w], "LOCK_BUSY_CAPTURE_PRESERVED")
                  \/ Preserve(w, run[w], "STATE_UNKNOWN_CAPTURE_PRESERVED")
               /\ UNCHANGED raVars
      BY <1>6, <2>1, <2>2, PreserveType, StatusTypes DEF DbLock, TypeOK
    <2>3. CASE EnterAppend(w) /\ UNCHANGED run
      BY <1>6, <2>1, <2>3, EnterAppendType DEF DbLock, TypeOK
    <2>. QED
      BY <1>6, <2>2, <2>3 DEF DbLock
  <1>7. ASSUME NEW w \in Writers, LegacyTake(w) PROVE TypeOK'
    <2>1. run[w] \in RunState /\ w \in Procs
      BY WriterAssumption DEF TypeOK
    <2>2. [run[w] EXCEPT !.todo = ShardsOf(run[w].toWrite)] \in RunState
      BY <2>1, TableTypes DEF RunState
    <2>3. run' \in [Writers -> RunState] /\ pc' \in [Writers -> Pc]
      <3>1. CASE /\ run' = [run EXCEPT ![w].todo = ShardsOf(run[w].toWrite)]
                 /\ Goto(w, "append")
        BY <2>2, <3>1, GotoType DEF TypeOK, Pc
      <3>2. CASE Preserve(w, run[w], "LOCK_BUSY_CAPTURE_PRESERVED")
        BY <2>1, <3>2, PreserveType, StatusTypes
      <3>. QED
        BY <1>7, <3>1, <3>2 DEF LegacyTake
    <2>. QED
      BY <1>7, <2>1, <2>3 DEF LegacyTake, TypeOK
  <1>8. ASSUME NEW w \in Writers, AppendRead(w) PROVE TypeOK'
    <2>1. PICK s \in run[w].todo :
              run' = [run EXCEPT ![w].buf = hist, ![w].reading = s]
      BY <1>8 DEF AppendRead
    <2>2. [run[w] EXCEPT !.buf = hist, !.reading = s] \in RunState
      BY DEF TypeOK, RunState
    <2>3. run' \in [Writers -> RunState] /\ pc' \in [Writers -> Pc]
      BY <1>8, <2>1, <2>2, GotoType DEF AppendRead, TypeOK, Pc
    <2>. QED
      BY <1>8, <2>3 DEF AppendRead, TypeOK
  <1>9. ASSUME NEW w \in Writers, AppendRename(w) PROVE TypeOK'
    <2>1. run[w] \in RunState /\ hist \in Table
      BY DEF TypeOK
    <2>2. hist' \in Table
      <3>1. AppendLines(run[w].buf, run[w].toWrite) \in Table
        BY <2>1, TableTypes DEF RunState
      <3>. QED
        BY <1>9, <2>1, <3>1, TableTypes DEF AppendRename
    <2>3. [run[w] EXCEPT !.todo = @ \ {run[w].reading}, !.buf = EmptyTable]
            \in RunState
      BY <2>1, TableTypes DEF RunState
    <2>4. run' \in [Writers -> RunState] /\ pc' \in [Writers -> Pc]
      BY <1>9, <2>3, GotoType DEF AppendRename, TypeOK, Pc
    <2>. QED
      BY <1>9, <2>2, <2>4 DEF AppendRename, TypeOK
  <1>10. ASSUME NEW w \in Writers, AppendReturn(w) PROVE TypeOK'
    <2>1. [run[w] EXCEPT !.failed = TRUE, !.todo = {}, !.buf = EmptyTable]
            \in RunState
      BY TableTypes DEF TypeOK, RunState
    <2>2. run' \in [Writers -> RunState] /\ pc' \in [Writers -> Pc]
      BY <1>10, <2>1, GotoType DEF AppendReturn, TypeOK, Pc
    <2>. QED
      BY <1>10, <2>2 DEF AppendReturn, TypeOK
  <1>11. ASSUME NEW w \in Writers, LegacyUnlock(w) \/ LegacyRemove(w)
         PROVE TypeOK'
    BY <1>11, GotoType DEF LegacyUnlock, LegacyRemove, RemoveLockFile, TypeOK, Pc
  <1>12. ASSUME NEW w \in Writers, PrimitiveStep(w) PROVE TypeOK'
    <2>1. RaTypeOK'
      BY <1>12, RaStepType, WriterAssumption DEF PrimitiveStep, TypeOK
    <2>. QED
      BY <1>12, <2>1 DEF PrimitiveStep, TypeOK
  <1>13. ASSUME NEW w \in Writers, PrimitiveReturn(w) PROVE TypeOK'
    <2>1. [run[w] EXCEPT !.failed = (ra[w].decision # "success")] \in RunState
      BY DEF TypeOK, RunState
    <2>2. run' \in [Writers -> RunState] /\ pc' \in [Writers -> Pc]
      BY <1>13, <2>1, GotoType DEF PrimitiveReturn, TypeOK, Pc
    <2>. QED
      BY <1>13, <2>2, RaIdleType DEF PrimitiveReturn, TypeOK
  <1>14. ASSUME NEW w \in Writers, Derive(w) PROVE TypeOK'
    BY <1>14, DeriveType
  <1>15. ASSUME NEW w \in Writers, Mirror(w) PROVE TypeOK'
    <2>1. run[w] \in RunState
      BY DEF TypeOK
    <2>2. run' \in [Writers -> RunState] /\ pc' \in [Writers -> Pc]
      BY <1>15, <2>1, GotoType, ReturnType, StatusTypes DEF Mirror, TypeOK, Pc
    <2>. QED
      BY <1>15, <2>2 DEF Mirror, TypeOK
  <1>16. ASSUME NEW w \in Writers, Commit(w) PROVE TypeOK'
    <2>1. run[w].after \in Table
      BY DEF TypeOK, RunState
    <2>2. Mirrored(run[w]) \in Database
      BY <2>1, TableTypes DEF Mirrored, TypeOK
    <2>. QED
      BY <1>16, <2>2, GotoType DEF Commit, TypeOK, Pc
  <1>17. ASSUME NEW w \in Writers, Recheck(w) PROVE TypeOK'
    <2>1. [run[w] EXCEPT !.exact = MirrorExactMatch(run[w].after, db)]
            \in RunState
      BY DEF TypeOK, RunState, MirrorExactMatch
    <2>2. run' \in [Writers -> RunState] /\ pc' \in [Writers -> Pc]
      BY <1>17, <2>1, ReturnType, StatusTypes DEF Recheck
    <2>. QED
      BY <1>17, <2>2 DEF Recheck, TypeOK
  <1>18. ASSUME NEW w \in Writers, Throw(w) PROVE TypeOK'
    <2>1. run[w] \in RunState
      BY DEF TypeOK
    <2>2. run' \in [Writers -> RunState] /\ pc' \in [Writers -> Pc]
      BY <1>18, <2>1, ReturnType, StatusTypes DEF Throw
    <2>. QED
      BY <1>18, <2>2 DEF Throw, TypeOK
  <1>19. ASSUME NEW w \in Writers, Release(w) PROVE TypeOK'
    BY <1>19, GotoType DEF Release, FreeLocks, TypeOK, Pc
  <1>20. ASSUME NEW w \in Writers, Crash(w) PROVE TypeOK'
    <2>1. NewRun(EmptyTable) \in RunState /\ "idle" \in Pc
      BY NewRunType, TableTypes DEF Pc
    <2>2. run' \in [Writers -> RunState] /\ ra' \in [Procs -> RaState]
      BY <1>20, <2>1, RaIdleType DEF Crash, TypeOK
    <2>3. pc' \in [Writers -> Pc]
      BY <1>20, <2>1, GotoType DEF Crash
    <2>. QED
      BY <1>20, <2>2, <2>3 DEF Crash, FreeLocks, TypeOK
  <1>21. ASSUME NEW m \in Manual, ManualNext(m) PROVE TypeOK'
    <2>1. m \in Procs
      BY WriterAssumption
    <2>2. CASE ManualStart(m)
      <3>1. RaTypeOK'
        <4>1. PICK rows \in Batches : RaStart(m, rows)
          BY <2>2 DEF ManualStart
        <4>2. rows \in Table
          BY WriterAssumption
        <4>. QED
          BY <2>1, <4>1, <4>2, RaStartType DEF TypeOK
      <3>. QED
        BY <2>2, <3>1, WriterAssumption DEF ManualStart, TypeOK
    <2>3. CASE ManualStep(m)
      <3>1. RaTypeOK'
        BY <2>1, <2>3, RaStepType DEF ManualStep, TypeOK
      <3>. QED
        BY <2>3, <3>1 DEF ManualStep, TypeOK
    <2>4. CASE ManualCrash(m)
      BY <2>4, RaIdleType DEF ManualCrash, TypeOK
    <2>. QED
      BY <1>21, <2>2, <2>3, <2>4 DEF ManualNext
  <1>22. CASE AgeLock \/ OperatorRemovesLock \/ OtherDbBegin
    BY <1>22 DEF AgeLock, OperatorRemovesLock, OtherDbBegin, RemoveLockFile, TypeOK
  <1>23. CASE OtherDbEnd
    <2>1. db \in Database /\ hist \in Table
      BY DEF TypeOK
    <2>2. \A id : InsertRows(db, hist, {id}) \in Database
      BY <2>1, TableTypes
    <2>3. \A id \in RowIds : [db EXCEPT ![id] = NoRow] \in Database
      BY <2>1 DEF Database
    <2>4. db' \in Database
      BY <1>23, <2>1, <2>2, <2>3 DEF OtherDbEnd, Stored
    <2>. QED
      BY <1>23, <2>4 DEF OtherDbEnd, TypeOK
  <1>24. CASE UNCHANGED vars
    BY <1>24 DEF vars, TypeOK
  <1>. QED
    BY <1>1, <1>2, <1>3, <1>4, <1>5, <1>6, <1>7, <1>8, <1>9, <1>10, <1>11,
       <1>12, <1>13, <1>14, <1>15, <1>16, <1>17, <1>18, <1>19, <1>20, <1>21,
       <1>22, <1>23, <1>24 DEF Next, WriterStep, RunStep, Environment

LEMMA InitType == Init => TypeOK
  <1>. SUFFICES ASSUME Init PROVE TypeOK
    OBVIOUS
  <1>1. hist \in Table /\ db \in Database
    BY WriterAssumption DEF Init
  <1>2. RaTypeOK
    BY <1>1, RaIdleType DEF Init, RaInit, RaTypeOK
  <1>3. run \in [Writers -> RunState] /\ pc \in [Writers -> Pc]
    BY NewRunType, TableTypes DEF Init, Pc
  <1>4. started \in 0..MaxRuns
    BY WriterAssumption DEF Init
  <1>. QED
    BY <1>1, <1>2, <1>3, <1>4 DEF Init, TypeOK

\* Every variable keeps its type in every reachable state.
THEOREM TypeCorrect == Spec => []TypeOK
  BY InitType, TypeStep, PTL DEF Spec

-----------------------------------------------------------------------------
(* The two locks.                                                            *)

\* Labels at which a run holds the history-writer lock.
Locked == Pc \ {"idle", "lock", "release", "done"}

\* Labels from the append to the decision to mirror.
Appending == {"legacyTake", "append", "rename", "primitive", "unlock", "unlink", "derive"}

HistoryLockInv == \A w \in Writers : pc[w] \in Locked => hlock = w

\* The primitive runs within the job's own call of it.
PrimitiveInv == \A w \in Writers : ~RaQuiet(w) => pc[w] = "primitive"

DbLockInv ==
    \A w \in Writers :
        /\ pc[w] \in Appending /\ Normal(w) => dblock = w
        /\ pc[w] \in {"mirror", "commit"} => dblock = w
        /\ pc[w] = "commit" =>
               \A id \in AppendedIds(run[w]) : db[id] = NoRow

JobStep(w) == Begin(w) \/ WriterStep(w) \/ Crash(w)
-----------------------------------------------------------------------------
(* What one step of a job can touch.                                         *)

LEMMA PrimitiveFrame ==
    ASSUME RaTypeOK, NEW p \in Procs, NEW q \in Procs, p # q, RaStep(p)
    PROVE  ra'[q] = ra[q]
  BY DEF RaStep, RaCheckLock, RaReclaim, RaTakeLock, RaRead, RaWriteShard,
         RaRollback, RaThrow, RaFinish, RaReturn, RaTypeOK

LEMMA OtherJobsUntouched ==
    ASSUME TypeOK, NEW w \in Writers, JobStep(w), NEW v \in Writers, v # w
    PROVE  pc'[v] = pc[v] /\ run'[v] = run[v] /\ ra'[v] = ra[v]
  <1>. USE DEF TypeOK, RaTypeOK, Goto, Capture, Preserve, Return, raVars, files
  <1>1. w \in Procs /\ v \in Procs
    BY WriterAssumption
  <1>2. CASE Begin(w)
    BY <1>2 DEF Begin
  <1>3. CASE AcquireHistoryLock(w) \/ ReadHistory(w) \/ ReadDb(w)
    BY <1>3 DEF AcquireHistoryLock, ReadHistory, ReadDb
  <1>4. CASE LegacyCheck(w) \/ DbLock(w)
    BY <1>1, <1>4 DEF LegacyCheck, DbLock, EnterAppend, RaStart
  <1>5. CASE LegacyTake(w) \/ AppendRead(w) \/ AppendRename(w)
    BY <1>5 DEF LegacyTake, AppendRead, AppendRename
  <1>6. CASE AppendReturn(w) \/ LegacyUnlock(w) \/ LegacyRemove(w)
    BY <1>6 DEF AppendReturn, LegacyUnlock, LegacyRemove
  <1>7. CASE PrimitiveStep(w)
    <2>1. ra'[v] = ra[v]
      BY <1>1, <1>7, PrimitiveFrame DEF PrimitiveStep
    <2>. QED
      BY <1>7, <2>1 DEF PrimitiveStep
  <1>8. CASE PrimitiveReturn(w)
    BY <1>1, <1>8 DEF PrimitiveReturn
  <1>9. CASE Derive(w)
    BY <1>9 DEF Derive
  <1>10. CASE Mirror(w) \/ Commit(w) \/ Recheck(w)
    BY <1>10 DEF Mirror, Commit, Recheck
  <1>11. CASE Throw(w) \/ Release(w)
    BY <1>11 DEF Throw, Release
  <1>12. CASE Crash(w)
    BY <1>1, <1>12 DEF Crash
  <1>. QED
    BY <1>2, <1>3, <1>4, <1>5, <1>6, <1>7, <1>8, <1>9, <1>10, <1>11, <1>12
       DEF JobStep, WriterStep, RunStep

LEMMA JobEffects ==
    ASSUME NEW w \in Writers, JobStep(w)
    PROVE  /\ \/ hlock' = hlock
              \/ hlock = NoProc /\ hlock' = w
              \/ hlock = w /\ hlock' = NoProc
           /\ \/ dblock' = dblock
              \/ dblock = NoProc /\ dblock' = w
              \/ dblock = w /\ dblock' = NoProc
              \/ pc[w] \in {"mirror", "commit"} /\ dblock' = NoProc
           /\ db' = db \/ Commit(w)
           /\ hist' = hist \/ pc[w] \in {"rename", "primitive"}
  <1>. USE DEF raVars, files, locks
  <1>1. CASE Begin(w)
    BY <1>1 DEF Begin
  <1>2. CASE AcquireHistoryLock(w) \/ ReadHistory(w) \/ ReadDb(w)
    BY <1>2 DEF AcquireHistoryLock, ReadHistory, ReadDb
  <1>3. CASE LegacyCheck(w) \/ DbLock(w)
    BY <1>3 DEF LegacyCheck, DbLock, EnterAppend, RaStart
  <1>4. CASE LegacyTake(w) \/ AppendRead(w) \/ AppendRename(w)
    BY <1>4 DEF LegacyTake, AppendRead, AppendRename
  <1>5. CASE AppendReturn(w) \/ LegacyUnlock(w) \/ LegacyRemove(w)
    BY <1>5 DEF AppendReturn, LegacyUnlock, LegacyRemove
  <1>6. CASE PrimitiveStep(w) \/ PrimitiveReturn(w)
    BY <1>6 DEF PrimitiveStep, PrimitiveReturn
  <1>7. CASE Derive(w) \/ Mirror(w) \/ Commit(w) \/ Recheck(w) \/ Throw(w)
    BY <1>7 DEF Derive, Mirror, Commit, Recheck, Throw
  <1>8. CASE Release(w) \/ Crash(w)
    BY <1>8 DEF Release, Crash, FreeLocks
  <1>. QED
    BY <1>1, <1>2, <1>3, <1>4, <1>5, <1>6, <1>7, <1>8
       DEF JobStep, WriterStep, RunStep

\* A step that is no job's: the jobs' state and the history lock stay.
LEMMA OthersSteps ==
    ASSUME TypeOK, ~(\E w \in Writers : JobStep(w)), [Next]_vars
    PROVE  /\ UNCHANGED <<pc, run, hlock>>
           /\ \A w \in Writers : ra'[w] = ra[w]
           /\ \/ dblock' = dblock
              \/ dblock = NoProc /\ dblock' = OtherDb
              \/ dblock = OtherDb /\ dblock' = NoProc
           /\ db' = db \/ OtherDbEnd
           /\ hist' = hist \/ Manual # {}
  <1>. USE DEF raVars, locks
  <1>1. CASE \E m \in Manual : ManualNext(m)
    <2>1. PICK m \in Manual : ManualNext(m)
      BY <1>1
    <2>2. m \in Procs /\ m \notin Writers
      BY WriterAssumption
    <2>3. \A w \in Writers : ra'[w] = ra[w]
      <3>1. CASE ManualStep(m)
        BY <2>2, <3>1, PrimitiveFrame, WriterAssumption DEF ManualStep, TypeOK
      <3>2. CASE ManualStart(m) \/ ManualCrash(m)
        BY <2>2, <3>2, WriterAssumption
           DEF ManualStart, ManualCrash, RaStart, TypeOK, RaTypeOK
      <3>. QED
        BY <2>1, <3>1, <3>2 DEF ManualNext
    <2>. QED
      BY <2>1, <2>3 DEF ManualNext, ManualStart, ManualStep, ManualCrash
  <1>2. CASE AgeLock \/ OperatorRemovesLock \/ OtherDbBegin \/ OtherDbEnd
    BY <1>2 DEF AgeLock, OperatorRemovesLock, OtherDbBegin, OtherDbEnd
  <1>3. CASE UNCHANGED vars
    BY <1>3 DEF vars
  <1>. QED
    BY <1>1, <1>2, <1>3 DEF Next, Environment, JobStep

-----------------------------------------------------------------------------
(* The history-writer lock.                                                  *)

LEMMA HistoryLockStep ==
    ASSUME TypeOK, HistoryLockInv, [Next]_vars
    PROVE  HistoryLockInv'
  <1>. SUFFICES ASSUME NEW v \in Writers, pc'[v] \in Locked
                PROVE  hlock' = v
    BY DEF HistoryLockInv
  <1>1. ASSUME NEW w \in Writers, JobStep(w), w # v PROVE hlock' = v
    <2>1. pc[v] \in Locked
      BY <1>1, OtherJobsUntouched
    <2>2. hlock = v /\ v # NoProc
      BY <2>1, WriterAssumption, ProcAssumption DEF HistoryLockInv
    <2>. QED
      BY <1>1, <2>2, JobEffects
  <1>2. CASE JobStep(v)
    <2>1. CASE pc[v] \in Locked
      <3>1. hlock = v
        BY <2>1 DEF HistoryLockInv
      <3>2. ~Release(v) /\ ~Crash(v) /\ ~Begin(v) /\ ~AcquireHistoryLock(v)
        BY <2>1 DEF Release, Crash, Begin, AcquireHistoryLock, Locked, TypeOK, Goto
      <3>3. hlock' = hlock
        BY <1>2, <3>2 DEF JobStep, WriterStep, RunStep, ReadHistory, ReadDb,
              LegacyCheck, DbLock, LegacyTake, AppendRead, AppendRename,
              AppendReturn, LegacyUnlock, LegacyRemove, PrimitiveStep, PrimitiveReturn, Derive,
              Mirror, Commit, Recheck, Throw, locks
      <3>. QED
        BY <3>1, <3>3
    <2>2. CASE pc[v] \in {"idle", "done"}
      <3>1. Begin(v)
        BY <1>2, <2>2 DEF JobStep, Crash, Running, WriterStep, RunStep,
              AcquireHistoryLock, ReadHistory, ReadDb, LegacyCheck, DbLock,
              LegacyTake, AppendRead, AppendRename, AppendReturn, LegacyUnlock, LegacyRemove,
              PrimitiveStep, PrimitiveReturn, Derive, Mirror, Commit, Recheck,
              Throw, Release
      <3>. QED
        BY <3>1 DEF Begin, Return, Preserve, Goto, Locked, TypeOK
    <2>3. CASE pc[v] = "lock"
      <3>1. AcquireHistoryLock(v) \/ Throw(v) \/ Crash(v)
        BY <1>2, <2>3 DEF JobStep, Begin, WriterStep, RunStep, ReadHistory,
              ReadDb, LegacyCheck, DbLock, LegacyTake, AppendRead, AppendRename,
              AppendReturn, LegacyUnlock, LegacyRemove, PrimitiveStep, PrimitiveReturn, Derive,
              Mirror, Commit, Recheck, Release
      <3>. QED
        BY <3>1 DEF AcquireHistoryLock, Throw, Crash, Return, Preserve, Goto,
                    Locked, TypeOK
    <2>4. CASE pc[v] = "release"
      <3>1. Release(v) \/ Crash(v)
        BY <1>2, <2>4 DEF JobStep, Begin, WriterStep, RunStep,
              AcquireHistoryLock, ReadHistory, ReadDb, LegacyCheck, DbLock,
              LegacyTake, AppendRead, AppendRename, AppendReturn, LegacyUnlock, LegacyRemove,
              PrimitiveStep, PrimitiveReturn, Derive, Mirror, Commit, Recheck,
              Throw
      <3>. QED
        BY <3>1 DEF Release, Crash, Goto, Locked, TypeOK
    <2>. QED
      BY <2>1, <2>2, <2>3, <2>4 DEF TypeOK, Locked
  <1>3. CASE ~(\E w \in Writers : JobStep(w))
    BY <1>3, OthersSteps DEF HistoryLockInv
  <1>. QED
    BY <1>1, <1>2, <1>3

-----------------------------------------------------------------------------
(* The database lock.                                                        *)

\* Whether a run is in normal mode depends on what it classified only.
LEMMA NormalKept ==
    ASSUME NEW v \in Writers, run'[v].before = run[v].before,
           run'[v].seen = run[v].seen
    PROVE  Normal(v)' <=> Normal(v)
  BY DEF Normal, Consistent

DbLockInvOf(v) ==
    /\ pc[v] \in Appending /\ Normal(v) => dblock = v
    /\ pc[v] \in {"mirror", "commit"} => dblock = v
    /\ pc[v] = "commit" => \A id \in AppendedIds(run[v]) : db[id] = NoRow

LEMMA DbLockOwnStep ==
    ASSUME TypeOK, DbLockInv, NEW v \in Writers, JobStep(v)
    PROVE  DbLockInvOf(v)'
  <1>. USE DEF DbLockInvOf, Appending, Goto, TypeOK
  <1>1. ASSUME pc'[v] \notin Appending \cup {"mirror", "commit"}
        PROVE  DbLockInvOf(v)'
    BY <1>1
  <1>2. CASE \/ Begin(v) \/ AcquireHistoryLock(v) \/ ReadHistory(v)
             \/ ReadDb(v) \/ Commit(v) \/ Recheck(v) \/ Throw(v)
             \/ Release(v) \/ Crash(v)
    BY <1>1, <1>2 DEF Begin, AcquireHistoryLock, ReadHistory, ReadDb, Commit,
       Recheck, Throw, Release, Crash, Preserve, Return
  <1>3. CASE LegacyCheck(v)
    <2>1. CASE pc'[v] \in {"dbLock", "release"}
      BY <1>1, <2>1
    <2>2. CASE EnterAppend(v) /\ run' = run /\ ~Normal(v)
      <3>1. ~Normal(v)' /\ pc'[v] \in {"legacyTake", "primitive"}
        BY <2>2, NormalKept DEF EnterAppend, AppendEntry
      <3>. QED
        BY <3>1
    <2>. QED
      BY <1>3, <2>1, <2>2 DEF LegacyCheck, Preserve
  <1>4. CASE DbLock(v)
    <2>1. CASE pc'[v] = "release"
      BY <1>1, <2>1
    <2>2. CASE EnterAppend(v) /\ dblock' = v
      BY <2>2 DEF EnterAppend, AppendEntry
    <2>. QED
      BY <1>4, <2>1, <2>2 DEF DbLock, Preserve
  <1>5. ASSUME pc[v] \in Appending, pc'[v] \in Appending, dblock' = dblock,
               run'[v].before = run[v].before, run'[v].seen = run[v].seen
        PROVE  DbLockInvOf(v)'
    BY <1>5, NormalKept DEF DbLockInv
  <1>6. CASE LegacyTake(v)
    BY <1>1, <1>5, <1>6 DEF LegacyTake, Preserve, locks, RunState
  <1>7. CASE AppendRead(v) \/ AppendRename(v) \/ AppendReturn(v)
    BY <1>5, <1>7 DEF AppendRead, AppendRename, AppendReturn, locks, RunState
  <1>8. CASE LegacyUnlock(v) \/ LegacyRemove(v) \/ PrimitiveStep(v) \/ PrimitiveReturn(v)
    BY <1>5, <1>8 DEF LegacyUnlock, LegacyRemove, PrimitiveStep, PrimitiveReturn, locks, RunState
  <1>9. CASE Derive(v)
    <2>1. CASE pc'[v] = "release"
      BY <1>1, <2>1
    <2>2. CASE Normal(v) /\ Goto(v, "mirror")
      BY <1>9, <2>2 DEF DbLockInv, Derive, locks
    <2>. QED
      BY <1>9, <2>1, <2>2 DEF Derive, Return
  <1>10. CASE Mirror(v)
    <2>1. CASE pc'[v] = "release"
      BY <1>1, <2>1
    <2>2. CASE Validated(run[v]) /\ Goto(v, "commit") /\ UNCHANGED <<run, dblock>>
      BY <1>10, <2>2 DEF DbLockInv, Mirror, Validated
    <2>. QED
      BY <1>10, <2>1, <2>2 DEF Mirror, Return
  <1>. QED
    BY <1>2, <1>3, <1>4, <1>6, <1>7, <1>8, <1>9, <1>10
       DEF JobStep, WriterStep, RunStep

LEMMA DbLockStep ==
    ASSUME TypeOK, DbLockInv, [Next]_vars
    PROVE  DbLockInv'
  <1>. SUFFICES ASSUME NEW v \in Writers PROVE DbLockInvOf(v)'
    BY DEF DbLockInv, DbLockInvOf
  <1>0. v # OtherDb /\ v # NoProc /\ DbLockInvOf(v)
    BY WriterAssumption, ProcAssumption DEF DbLockInv, DbLockInvOf
  <1>1. ASSUME pc'[v] = pc[v], run'[v] = run[v], dblock = v => dblock' = v,
               dblock = v => db' = db
        PROVE  DbLockInvOf(v)'
    BY <1>0, <1>1, NormalKept DEF DbLockInvOf
  <1>2. ASSUME NEW w \in Writers, JobStep(w), w # v PROVE DbLockInvOf(v)'
    <2>1. pc'[v] = pc[v] /\ run'[v] = run[v]
      BY <1>2, OtherJobsUntouched
    <2>2. pc[w] \in {"mirror", "commit"} => dblock = w
      BY DEF DbLockInv
    <2>3. dblock = v => dblock' = v
      BY <1>0, <1>2, <2>2, JobEffects
    <2>4. dblock = v => db' = db
      BY <1>2, <2>2, JobEffects DEF Commit
    <2>. QED
      BY <1>1, <2>1, <2>3, <2>4
  <1>3. CASE JobStep(v)
    BY <1>3, DbLockOwnStep
  <1>4. CASE ~(\E w \in Writers : JobStep(w))
    BY <1>0, <1>1, <1>4, OthersSteps DEF OtherDbEnd
  <1>. QED
    BY <1>2, <1>3, <1>4

\* In every reachable state the two locks are held by the runs that rely on
\* them.
LEMMA LockInvariants == Spec => [](TypeOK /\ HistoryLockInv /\ DbLockInv)
  <1>1. Init => TypeOK
    BY InitType
  <1>2. Init => HistoryLockInv /\ DbLockInv
    BY DEF Init, HistoryLockInv, DbLockInv, Locked, Appending
  <1>3. TypeOK /\ HistoryLockInv /\ DbLockInv /\ [Next]_vars
        => TypeOK' /\ HistoryLockInv' /\ DbLockInv'
    BY TypeStep, HistoryLockStep, DbLockStep
  <1>. QED
    BY <1>1, <1>2, <1>3, PTL DEF Spec

\* Whatever manual scripts and other programs do to the files and the database,
\* a row a scheduled job inserts is one that it appended itself and that was
\* not stored before.
THEOREM GainsOnlyOwnRows == Spec => MirrorGainsOnlyOwnRows
  <1>. DEFINE Gain ==
         dblock # OtherDb => \E w \in Writers :
             /\ pc[w] = "commit" /\ dblock = w
             /\ \A id \in RowIds : db'[id] # db[id] =>
                    /\ db[id] = NoRow /\ run[w].before[id] = <<>>
                    /\ run[w].toWrite[id] = <<db'[id]>>
  <1>1. ASSUME TypeOK, DbLockInv, [Next]_vars PROVE [Gain]_db
    <2>1. ASSUME NEW w \in Writers, Commit(w) PROVE Gain
      <3>1. pc[w] = "commit" /\ dblock = w
            /\ \A id \in AppendedIds(run[w]) : db[id] = NoRow
        BY <1>1, <2>1 DEF Commit, DbLockInv
      <3>2. ASSUME NEW id \in RowIds, db'[id] # db[id]
            PROVE  /\ db[id] = NoRow /\ run[w].before[id] = <<>>
                   /\ run[w].toWrite[id] = <<db'[id]>>
        <4>1. id \in AppendedIds(run[w])
              /\ db'[id] = RowOf(run[w].after, id)
          BY <2>1, <3>2 DEF Commit, Mirrored, InsertRows
        <4>2. run[w].before[id] = <<>>
              /\ run[w].toWrite[id] = <<RowOf(run[w].after, id)>>
          BY <4>1 DEF AppendedIds, Ids
        <4>. QED
          BY <3>1, <4>1, <4>2
      <3>. QED
        BY <3>1, <3>2
    <2>2. ASSUME NEW w \in Writers, JobStep(w) PROVE [Gain]_db
      BY <2>1, <2>2, JobEffects
    <2>3. CASE ~(\E w \in Writers : JobStep(w))
      BY <1>1, <2>3, OthersSteps DEF OtherDbEnd
    <2>. QED
      BY <2>2, <2>3
  <1>. QED
    BY <1>1, LockInvariants, PTL DEF MirrorGainsOnlyOwnRows, Spec

-----------------------------------------------------------------------------
(* The rest is what the scheduled jobs guarantee among themselves, for every *)
(* number of them: no manual script appends (Manual = {}) and, where it is   *)
(* assumed, no other program writes the database.                            *)
-----------------------------------------------------------------------------
(* mirrorExactMatch compares a count and every line; on a history without    *)
(* duplicates that is equality of the two stores.                            *)

IsMirror(t, d) ==
    \A id \in RowIds : t[id] = IF d[id] = NoRow THEN <<>> ELSE <<d[id]>>

LEMMA LinesCount ==
    ASSUME NEW t \in Table, ~HasDuplicates(t)
    PROVE  IsFiniteSet(Ids(t)) /\ Cardinality(Lines(t)) = Cardinality(Ids(t))
  <1>. DEFINE f == [id \in Ids(t) |-> <<id, 1>>]
  <1>1. IsFiniteSet(Ids(t))
    <2>1. Ids(t) \in SUBSET RowIds
      BY DEF Ids
    <2>. QED
      BY <2>1, TableAssumption, FS_Subset
  <1>2. ASSUME NEW id \in Ids(t) PROVE DOMAIN t[id] = {1}
    <2>1. t[id] \in Seq(Hashes) /\ t[id] # <<>> /\ ~(Len(t[id]) > 1)
      BY DEF Table, Ids, HasDuplicates
    <2>. QED
      BY <2>1, Singleton
  <1>3. ASSUME NEW id \in RowIds \ Ids(t) PROVE DOMAIN t[id] = {}
    BY DEF Ids
  <1>4. Lines(t) = {<<id, 1>> : id \in Ids(t)}
    BY <1>2, <1>3 DEF Lines, Ids
  <1>5. f \in Bijection(Ids(t), Lines(t))
    BY <1>4 DEF Bijection, Injection, Surjection, IsInjective
  <1>. QED
    BY <1>1, <1>5, FS_Bijection DEF ExistsBijection

LEMMA ExactMatchIsMirror ==
    ASSUME NEW t \in Table, NEW d \in Database,
           ~HasDuplicates(t), MirrorExactMatch(t, d)
    PROVE  IsMirror(t, d)
  <1>1. ASSUME NEW id \in Ids(t)
        PROVE  t[id] = <<d[id]>> /\ d[id] \in Hashes
    <2>1. t[id] \in Seq(Hashes) /\ t[id] # <<>> /\ ~(Len(t[id]) > 1)
      BY DEF Table, Ids, HasDuplicates
    <2>2. DOMAIN t[id] = {1} /\ t[id][1] \in Hashes /\ t[id] = <<t[id][1]>>
      BY <2>1, Singleton
    <2>3. d[id] = t[id][1]
      BY <2>2 DEF MirrorExactMatch, Ids
    <2>. QED
      BY <2>2, <2>3
  <1>2. Ids(t) \subseteq Stored(d)
    BY <1>1, TableAssumption DEF Ids, Stored
  <1>3. IsFiniteSet(Stored(d))
    <2>1. Stored(d) \in SUBSET RowIds
      BY DEF Stored
    <2>. QED
      BY <2>1, TableAssumption, FS_Subset
  <1>4. Cardinality(Stored(d)) = Cardinality(Ids(t))
    BY LinesCount DEF MirrorExactMatch
  <1>5. Stored(d) = Ids(t)
    BY <1>2, <1>3, <1>4, FS_Subset
  <1>6. ASSUME NEW id \in RowIds
        PROVE  t[id] = IF d[id] = NoRow THEN <<>> ELSE <<d[id]>>
    <2>1. CASE id \in Ids(t)
      BY <1>1, <2>1, TableAssumption
    <2>2. CASE id \notin Ids(t)
      BY <1>5, <2>2 DEF Ids, Stored
    <2>. QED
      BY <2>1, <2>2
  <1>. QED
    BY <1>6 DEF IsMirror

-----------------------------------------------------------------------------
(* Shards are rewritten by one process at a time.                            *)

LEMMA PrimitiveInvStep ==
    ASSUME TypeOK, PrimitiveInv, [Next]_vars
    PROVE  PrimitiveInv'
  <1>. SUFFICES ASSUME NEW v \in Writers, ~RaQuiet(v)'
                PROVE  pc'[v] = "primitive"
    BY DEF PrimitiveInv
  <1>. USE DEF RaQuiet
  <1>1. ASSUME NEW w \in Writers, JobStep(w), w # v
        PROVE  pc'[v] = "primitive"
    BY <1>1, OtherJobsUntouched DEF PrimitiveInv
  <1>2. CASE JobStep(v)
    <2>. USE DEF Goto, TypeOK, RaTypeOK
    <2>1. CASE PrimitiveStep(v)
      BY <2>1 DEF PrimitiveStep
    <2>2. CASE PrimitiveReturn(v) \/ Crash(v)
      <3>1. ra' = [ra EXCEPT ![v] = RaIdle] /\ v \in Procs
        BY <2>2, WriterAssumption DEF PrimitiveReturn, Crash
      <3>. QED
        BY <3>1 DEF RaIdle
    <2>3. CASE EnterAppend(v)
      <3>1. CASE v \in HoldsLegacy
        <4>1. ra' = ra /\ pc'[v] = "legacyTake"
          BY <2>3, <3>1 DEF EnterAppend, AppendEntry, raVars
        <4>2. RaQuiet(v)
          BY <1>2, <4>1 DEF PrimitiveInv, JobStep, Begin, WriterStep, RunStep,
             AcquireHistoryLock, ReadHistory, ReadDb, LegacyCheck, DbLock,
             LegacyTake, AppendRead, AppendRename, AppendReturn, LegacyUnlock, LegacyRemove,
             PrimitiveStep, PrimitiveReturn, Derive, Mirror, Commit, Recheck,
             Throw, Release, Crash
        <4>. QED
          BY <4>1, <4>2
      <3>2. CASE v \notin HoldsLegacy
        BY <2>3, <3>2 DEF EnterAppend, AppendEntry
      <3>. QED
        BY <3>1, <3>2
    <2>4. CASE /\ ~PrimitiveStep(v) /\ ~PrimitiveReturn(v)
               /\ ~Crash(v) /\ ~EnterAppend(v)
      <3>1. pc[v] # "primitive" \/ Throw(v)
        BY <1>2, <2>4 DEF JobStep, Begin, WriterStep, RunStep,
           AcquireHistoryLock, ReadHistory, ReadDb, LegacyCheck, DbLock,
           LegacyTake, AppendRead, AppendRename, AppendReturn, LegacyUnlock, LegacyRemove,
           Derive, Mirror, Commit, Recheck, Release
      <3>2. pc[v] # "primitive"
        BY <3>1 DEF Throw
      <3>3. ra' = ra
        BY <1>2, <2>4 DEF JobStep, Begin, WriterStep, RunStep,
           AcquireHistoryLock, ReadHistory, ReadDb, LegacyCheck, DbLock,
           LegacyTake, AppendRead, AppendRename, AppendReturn, LegacyUnlock, LegacyRemove,
           Derive, Mirror, Commit, Recheck, Throw, Release, raVars
      <3>. QED
        BY <3>2, <3>3 DEF PrimitiveInv
    <2>. QED
      BY <1>2, <2>1, <2>2, <2>3, <2>4
  <1>3. CASE ~(\E w \in Writers : JobStep(w))
    BY <1>3, OthersSteps DEF PrimitiveInv
  <1>. QED
    BY <1>1, <1>2, <1>3

LEMMA PrimitiveInvariant == Spec => []PrimitiveInv
  <1>1. Init => PrimitiveInv
    BY WriterAssumption DEF Init, RaInit, PrimitiveInv, RaQuiet, RaIdle
  <1>2. TypeOK /\ PrimitiveInv /\ [Next]_vars => PrimitiveInv'
    BY PrimitiveInvStep
  <1>. QED
    BY <1>1, <1>2, TypeCorrect, PTL DEF Spec

\* Without manual scripts, no two processes are ever between reading a shard
\* and renaming its new version over it, whichever way each of them appends.
THEOREM ScheduledAppendsExclusive ==
    ASSUME Manual = {}
    PROVE  Spec => []AppendExclusive
  <1>1. HistoryLockInv /\ PrimitiveInv => AppendExclusive
    <2>. SUFFICES ASSUME HistoryLockInv, PrimitiveInv,
                         NEW p \in Procs, NEW q \in Procs,
                         Rewriting(p), Rewriting(q)
                  PROVE  p = q
      BY DEF AppendExclusive
    <2>1. p \in Writers /\ q \in Writers
      BY WriterAssumption
    <2>2. ASSUME NEW w \in Writers, Rewriting(w) PROVE hlock = w
      BY <2>2 DEF Rewriting, HistoryLockInv, PrimitiveInv, RaQuiet, Locked, Pc
    <2>. QED
      BY <2>1, <2>2
  <1>. QED
    BY <1>1, LockInvariants, PrimitiveInvariant, PTL

-----------------------------------------------------------------------------
(* The mirror.  MirrorInv relates what a run remembers to the two stores at  *)
(* the labels where it acts on the memory: the history lock keeps them equal *)
(* from the reading to the verdict.                                          *)

MirrorInvOf(v) ==
    /\ pc[v] = "readDb" => hist = run[v].before
    /\ pc[v] = "mirror" => ~HasDuplicates(run[v].after)
    /\ pc[v] \in {"commit", "recheck"} =>
           hist = run[v].after /\ ~HasDuplicates(run[v].after)
    /\ pc[v] = "commit" => MirrorExactMatch(run[v].after, Mirrored(run[v]))
    /\ pc[v] = "release" /\ hlock = v /\ VerifiedMirror(v) => IsMirror(hist, db)

MirrorInv == dblock # OtherDb /\ \A v \in Writers : MirrorInvOf(v)

\* The stores change only under the history lock.
LEMMA StoresLocked ==
    ASSUME Manual = {}, HistoryLockInv, dblock # OtherDb,
           NEW w \in Writers, JobStep(w), hlock # w
    PROVE  hist' = hist /\ db' = db
  <1>1. pc[w] \notin {"rename", "primitive", "commit"}
    BY DEF HistoryLockInv, Locked, Pc
  <1>. QED
    BY <1>1, JobEffects DEF Commit

LEMMA CaptureStatus ==
    ASSUME TypeOK, NEW v \in Writers, NEW r \in RunState, NEW status,
           NEW instead, NEW rows, Capture(v, r, status, instead, rows)
    PROVE  run'[v].status \in {status, instead}
  <1>1. CASE run' = [run EXCEPT ![v] = [r EXCEPT !.status = status,
                                                 !.captured = rows]]
    <2>1. run'[v] = [r EXCEPT !.status = status, !.captured = rows]
      BY <1>1 DEF TypeOK
    <2>. QED
      BY <2>1 DEF RunState
  <1>2. CASE run' = [run EXCEPT ![v] = [r EXCEPT !.status = instead,
                                                 !.unsaved = rows]]
    <2>1. run'[v] = [r EXCEPT !.status = instead, !.unsaved = rows]
      BY <1>2 DEF TypeOK
    <2>. QED
      BY <2>1 DEF RunState
  <1>. QED
    BY <1>1, <1>2 DEF Capture

\* Whatever a run ends with after preserve(), it is not a collected outcome.
LEMMA PreserveEnds ==
    ASSUME TypeOK, NEW v \in Writers, NEW r \in RunState, NEW status,
           status \notin {"MIRRORED", "NOTHING_TO_APPEND"}, Preserve(v, r, status)
    PROVE  /\ pc'[v] = "release"
           /\ run'[v].status \notin {"MIRRORED", "NOTHING_TO_APPEND"}
  BY CaptureStatus DEF Preserve, Goto, TypeOK

LEMMA MirrorOwnStep ==
    ASSUME TypeOK, TypeOK', HistoryLockInv, NEW v \in Writers, JobStep(v),
           MirrorInvOf(v)
    PROVE  MirrorInvOf(v)'
  <1>. USE DEF MirrorInvOf, VerifiedMirror
  <1>0. pc \in [Writers -> Pc] /\ run \in [Writers -> RunState]
        /\ run[v] \in RunState
    BY DEF TypeOK
  <1>1. CASE pc'[v] \notin {"readDb", "mirror", "commit", "recheck", "release"}
    BY <1>1
  <1>2. ASSUME pc'[v] = "release",
               run'[v].status \notin {"MIRRORED", "NOTHING_TO_APPEND"}
        PROVE  MirrorInvOf(v)'
    BY <1>2
  <1>3. CASE Begin(v)
    <2>1. PICK rows \in Batches :
            \/ Return(v, NewRun(rows), "NOTHING_TO_APPEND")
            \/ Preserve(v, NewRun(rows), "APPEND_CAP_EXCEEDED_CAPTURE_PRESERVED")
            \/ Goto(v, "lock")
      BY <1>3 DEF Begin
    <2>2. NewRun(rows) \in RunState
      BY NewRunType, WriterAssumption
    <2>3. CASE Return(v, NewRun(rows), "NOTHING_TO_APPEND")
      <3>1. pc'[v] = "release"
            /\ run'[v] = [NewRun(rows) EXCEPT !.status = "NOTHING_TO_APPEND"]
        BY <1>0, <2>3 DEF Return, Goto
      <3>2. ~run'[v].exact
        BY <3>1 DEF NewRun
      <3>. QED
        BY <3>1, <3>2
    <2>4. CASE Goto(v, "lock")
      BY <1>0, <1>1, <2>4 DEF Goto
    <2>. QED
      BY <1>2, <2>1, <2>2, <2>3, <2>4, PreserveEnds
  <1>4. CASE AcquireHistoryLock(v) \/ LegacyCheck(v) \/ DbLock(v) \/ LegacyTake(v)
    <2>1. \/ Preserve(v, run[v], "LOCK_BUSY_CAPTURE_PRESERVED")
          \/ Preserve(v, run[v], "STATE_UNKNOWN_CAPTURE_PRESERVED")
          \/ \E label \in {"readHistory", "dbLock", "legacyTake", "primitive",
                            "append"} : Goto(v, label)
      BY <1>4 DEF AcquireHistoryLock, LegacyCheck, DbLock, LegacyTake,
         EnterAppend, AppendEntry
    <2>2. CASE \E label \in {"readHistory", "dbLock", "legacyTake", "primitive",
                              "append"} : Goto(v, label)
      BY <1>0, <1>1, <2>2 DEF Goto
    <2>. QED
      BY <1>0, <1>2, <2>1, <2>2, PreserveEnds
  <1>5. CASE ReadHistory(v)
    <2>1. CASE run' = [run EXCEPT ![v].before = hist] /\ Goto(v, "readDb")
      <3>1. run'[v].before = hist /\ pc'[v] = "readDb" /\ hist' = hist
        BY <1>0, <1>5, <2>1 DEF ReadHistory, Goto, raVars, RunState
      <3>. QED
        BY <3>1
    <2>2. CASE Preserve(v, run[v], "STATE_UNKNOWN_CAPTURE_PRESERVED")
      BY <1>0, <1>2, <2>2, PreserveEnds
    <2>. QED
      BY <1>5, <2>1, <2>2 DEF ReadHistory
  <1>6. CASE ReadDb(v)
    <2>. DEFINE r == [run[v] EXCEPT !.seen = db]
    <2>0. r \in RunState /\ r.before = hist /\ r.seen = db
          /\ hist \in Table /\ db \in Database /\ hist' = hist /\ db' = db
      BY <1>0, <1>6 DEF ReadDb, RunState, TypeOK, RaTypeOK, raVars
    <2>1. \/ Preserve(v, run[v], "STATE_UNKNOWN_CAPTURE_PRESERVED")
          \/ Preserve(v, r, "APPEND_CONFLICT_CAPTURE_PRESERVED")
          \/ Return(v, [r EXCEPT !.exact = Consistent(r)], "NOTHING_TO_APPEND")
          \/ Goto(v, "legacyCheck")
      BY <1>6 DEF ReadDb
    <2>2. CASE Return(v, [r EXCEPT !.exact = Consistent(r)], "NOTHING_TO_APPEND")
      <3>1. pc'[v] = "release"
            /\ run'[v] = [[r EXCEPT !.exact = Consistent(r)]
                            EXCEPT !.status = "NOTHING_TO_APPEND"]
        BY <1>0, <2>2 DEF Return, Goto
      <3>2. run'[v].exact = Consistent(r)
        BY <2>0, <3>1 DEF RunState
      <3>3. Consistent(r) => IsMirror(hist, db)
        BY <2>0, ExactMatchIsMirror DEF Consistent
      <3>. QED
        BY <2>0, <3>1, <3>2, <3>3 DEF IsMirror
    <2>3. CASE Goto(v, "legacyCheck")
      BY <1>0, <1>1, <2>3 DEF Goto
    <2>. QED
      BY <1>0, <1>2, <2>0, <2>1, <2>2, <2>3, PreserveEnds
  <1>7. CASE AppendRead(v) \/ AppendRename(v) \/ AppendReturn(v)
             \/ LegacyUnlock(v) \/ LegacyRemove(v) \/ PrimitiveReturn(v)
    <2>1. pc'[v] \in {"rename", "append", "unlock", "unlink", "derive"}
      BY <1>0, <1>7 DEF AppendRead, AppendRename, AppendReturn, LegacyUnlock, LegacyRemove,
         PrimitiveReturn, Goto
    <2>. QED
      BY <1>1, <2>1
  <1>8. CASE PrimitiveStep(v)
    BY <1>0, <1>1, <1>8 DEF PrimitiveStep
  <1>9. CASE Derive(v)
    <2>. DEFINE r == [run[v] EXCEPT !.after = hist]
    <2>0. r \in RunState
      BY <1>0 DEF RunState, TypeOK, RaTypeOK
    <2>1. CASE \E status \in {"HISTORY_APPEND_FAILED_MIRROR_BLOCKED",
                              "HISTORY_APPEND_UNVERIFIED_MIRROR_BLOCKED"} :
                 /\ Capture(v, r, status, status, Missing(r))
                 /\ Goto(v, "release")
      BY <1>0, <1>2, <2>0, <2>1, CaptureStatus DEF Goto
    <2>2. CASE Return(v, r, IF Consistent(r) THEN "HISTORY_APPENDED_MIRROR_DISABLED"
                                             ELSE "HISTORY_APPENDED_MIRROR_BLOCKED")
      <3>1. pc'[v] = "release" /\ run'[v].status
              \in {"HISTORY_APPENDED_MIRROR_DISABLED", "HISTORY_APPENDED_MIRROR_BLOCKED"}
        BY <1>0, <2>0, <2>2 DEF Return, Goto, RunState
      <3>. QED
        BY <1>2, <3>1
    <2>3. CASE ~Problems(r) /\ run' = [run EXCEPT ![v] = r] /\ Goto(v, "mirror")
      <3>1. run'[v] = r /\ pc'[v] = "mirror" /\ ~HasDuplicates(r.after)
        BY <1>0, <2>3 DEF Goto, Problems
      <3>. QED
        BY <3>1
    <2>. QED
      BY <1>9, <2>1, <2>2, <2>3 DEF Derive
  <1>10. CASE Mirror(v)
    <2>1. CASE Validated(run[v]) /\ Goto(v, "commit") /\ UNCHANGED <<run, dblock>>
      <3>1. pc'[v] = "commit" /\ run' = run /\ hist' = hist /\ db' = db
        BY <1>0, <1>10, <2>1 DEF Mirror, Goto, raVars
      <3>2. Mirrored(run[v])' = Mirrored(run[v])
        BY <3>1 DEF Mirrored
      <3>3. pc[v] = "mirror"
        BY <1>10 DEF Mirror
      <3>. QED
        BY <2>1, <3>1, <3>2, <3>3 DEF Validated
    <2>2. CASE Return(v, run[v], "MIRROR_FAILED_ROLLED_BACK")
      <3>1. pc'[v] = "release" /\ run'[v].status = "MIRROR_FAILED_ROLLED_BACK"
        BY <1>0, <2>2 DEF Return, Goto, RunState
      <3>. QED
        BY <1>2, <3>1
    <2>. QED
      BY <1>10, <2>1, <2>2 DEF Mirror
  <1>11. CASE Commit(v)
    <2>1. pc[v] = "commit" /\ pc'[v] = "recheck" /\ run' = run /\ hist' = hist
      BY <1>0, <1>11 DEF Commit, Goto, raVars
    <2>. QED
      BY <2>1
  <1>12. CASE Recheck(v)
    <2>1. pc[v] = "recheck" /\ pc'[v] = "release" /\ hist' = hist /\ db' = db
          /\ run'[v] = [[run[v] EXCEPT !.exact = MirrorExactMatch(run[v].after, db)]
                         EXCEPT !.status = "MIRRORED"]
      BY <1>0, <1>12 DEF Recheck, Return, Goto, raVars
    <2>2. run'[v].exact = MirrorExactMatch(run[v].after, db)
      BY <1>0, <2>1 DEF RunState
    <2>3. run[v].after \in Table /\ db \in Database
      BY <1>0 DEF TypeOK, RunState
    <2>4. run'[v].exact => IsMirror(hist, db)
      BY <2>1, <2>2, <2>3, ExactMatchIsMirror
    <2>. QED
      BY <2>1, <2>4 DEF IsMirror
  <1>13. CASE Throw(v)
    <2>1. pc'[v] = "release" /\ run'[v].status = "threw"
      BY <1>0, <1>13 DEF Throw, Return, Goto, RunState
    <2>. QED
      BY <1>2, <2>1
  <1>14. CASE Release(v) \/ Crash(v)
    BY <1>0, <1>1, <1>14 DEF Release, Crash, Goto
  <1>. QED
    BY <1>3, <1>4, <1>5, <1>6, <1>7, <1>8, <1>9, <1>10, <1>11, <1>12, <1>13,
       <1>14 DEF JobStep, WriterStep, RunStep

LEMMA MirrorStep ==
    ASSUME Manual = {}, ~OtherDbActive, TypeOK, TypeOK', HistoryLockInv,
           MirrorInv, [Next]_vars
    PROVE  MirrorInv'
  <1>1. dblock' # OtherDb
    <2>1. ASSUME NEW w \in Writers, JobStep(w) PROVE dblock' # OtherDb
      BY <2>1, JobEffects, WriterAssumption DEF MirrorInv
    <2>2. CASE \E m \in Manual : ManualNext(m)
      BY <2>2
    <2>3. CASE Environment \/ UNCHANGED vars
      BY <2>3 DEF MirrorInv, Environment, AgeLock, OperatorRemovesLock,
         OtherDbBegin, OtherDbEnd, vars, locks
    <2>. QED
      BY <2>1, <2>2, <2>3 DEF Next, JobStep
  <1>2. ASSUME NEW v \in Writers PROVE MirrorInvOf(v)'
    <2>0. MirrorInvOf(v) /\ v # NoProc
      BY WriterAssumption, ProcAssumption DEF MirrorInv
    <2>1. ASSUME pc'[v] = pc[v], run'[v] = run[v],
                 hlock' = v => hlock = v,
                 pc[v] # "lock" /\ hlock = v => hist' = hist /\ db' = db
          PROVE  MirrorInvOf(v)'
      <3>1. Mirrored(run[v])' = Mirrored(run[v]) \/ db' # db
        BY <2>1 DEF Mirrored
      <3>2. pc[v] \in {"readDb", "commit", "recheck"} => hlock = v
        BY DEF HistoryLockInv, Locked, Pc
      <3>3. VerifiedMirror(v)' <=> VerifiedMirror(v)
        BY <2>1 DEF VerifiedMirror, Consistent
      <3>4. CASE hlock = v /\ pc[v] # "lock"
        BY <2>0, <2>1, <3>1, <3>3, <3>4 DEF MirrorInvOf, IsMirror, Mirrored
      <3>5. CASE hlock # v \/ pc[v] = "lock"
        BY <2>0, <2>1, <3>2, <3>5 DEF MirrorInvOf
      <3>. QED
        BY <3>4, <3>5
    <2>2. ASSUME NEW w \in Writers, JobStep(w), w # v PROVE MirrorInvOf(v)'
      <3>1. pc'[v] = pc[v] /\ run'[v] = run[v]
        BY <2>2, OtherJobsUntouched
      <3>2. hlock' = v => hlock = v
        BY <2>0, <2>2, JobEffects
      <3>3. hlock = v => hist' = hist /\ db' = db
        BY <2>2, StoresLocked DEF MirrorInv
      <3>. QED
        BY <2>1, <3>1, <3>2, <3>3
    <2>3. CASE JobStep(v)
      BY <2>0, <2>3, MirrorOwnStep
    <2>4. CASE ~(\E w \in Writers : JobStep(w))
      <3>1. UNCHANGED <<pc, run, hlock, hist, db>>
        BY <2>4, OthersSteps DEF OtherDbEnd, MirrorInv
      <3>. QED
        BY <2>1, <3>1
    <2>. QED
      BY <2>2, <2>3, <2>4
  <1>. QED
    BY <1>1, <1>2 DEF MirrorInv

LEMMA MirrorInvariant ==
    ASSUME Manual = {}, ~OtherDbActive
    PROVE  Spec => [](TypeOK /\ HistoryLockInv /\ DbLockInv /\ MirrorInv)
  <1>1. Init => MirrorInv
    BY WriterAssumption DEF Init, MirrorInv, MirrorInvOf
  <1>2. /\ TypeOK /\ TypeOK' /\ HistoryLockInv /\ MirrorInv /\ [Next]_vars
        => MirrorInv'
    BY MirrorStep
  <1>. QED
    BY <1>1, <1>2, LockInvariants, PTL DEF Spec

\* A verified mirror, as a run reports it, is one: when nothing but scheduled
\* jobs writes the two stores, the database holds exactly the rows of history.
THEOREM VerifiedMirrorIsExact ==
    ASSUME Manual = {}, ~OtherDbActive
    PROVE  Spec => []VerifiedMeansExact
  <1>1. MirrorInv => VerifiedMeansExact
    BY DEF MirrorInv, MirrorInvOf, VerifiedMeansExact, ExactMirror, IsMirror
  <1>. QED
    BY <1>1, MirrorInvariant, PTL

\* The database is only ever extended, and only by rows that history already
\* holds, each alone under its row_id and with the hash it gets in the database.
THEOREM ScheduledMirrorFollowsHistory ==
    ASSUME Manual = {}, ~OtherDbActive
    PROVE  Spec => MirrorFollowsHistory
  <1>. DEFINE Follow == \A id \in RowIds : db'[id] # db[id] =>
                            db[id] = NoRow /\ hist[id] = <<db'[id]>>
  <1>1. ASSUME TypeOK, TypeOK', DbLockInv, MirrorInv, NEW w \in Writers, Commit(w)
        PROVE  Follow
    <2>1. /\ pc[w] = "commit" /\ db' = Mirrored(run[w])
          /\ \A id \in AppendedIds(run[w]) : db[id] = NoRow
      BY <1>1 DEF Commit, DbLockInv
    <2>2. hist = run[w].after /\ ~HasDuplicates(hist) /\ hist \in Table
          /\ MirrorExactMatch(hist, db') /\ db' \in Database
      BY <1>1, <2>1 DEF MirrorInv, MirrorInvOf, TypeOK, RaTypeOK
    <2>3. IsMirror(hist, db')
      BY <2>2, ExactMatchIsMirror
    <2>4. ASSUME NEW id \in RowIds, db'[id] # db[id]
          PROVE  db[id] = NoRow /\ hist[id] = <<db'[id]>>
      <3>1. id \in AppendedIds(run[w])
        BY <2>1, <2>4 DEF Mirrored, InsertRows
      <3>2. hist[id] # <<>>
        BY <2>2, <3>1 DEF AppendedIds, Ids
      <3>. QED
        BY <2>1, <2>3, <3>1, <3>2 DEF IsMirror
    <2>. QED
      BY <2>4
  <1>2. ASSUME TypeOK, TypeOK', DbLockInv, MirrorInv, [Next]_vars
        PROVE  [Follow]_db
    <2>1. ASSUME NEW w \in Writers, JobStep(w) PROVE [Follow]_db
      BY <1>1, <1>2, <2>1, JobEffects
    <2>2. CASE ~(\E w \in Writers : JobStep(w))
      BY <1>2, <2>2, OthersSteps DEF OtherDbEnd, MirrorInv
    <2>. QED
      BY <2>1, <2>2
  <1>. QED
    BY <1>2, MirrorInvariant, PTL DEF MirrorFollowsHistory, Spec

-----------------------------------------------------------------------------
(* The data of a run.  DataInv relates, label by label, what a run read and  *)
(* planned to what history holds: it is what the locks are for, and what     *)
(* every statement about the rows of a run rests on.  The append leaves each *)
(* row as RowResult says, however many shards it wrote before it ended.      *)

\* Labels at which a run has read history under the lock; has planned its rows.
HasRead == Locked \ {"readHistory"}
Planned == HasRead \ {"readDb"}

\* What the append can make of a row: what the run read, that and the new
\* lines, or the first of the lines read.
RowResult(v, id) ==
    LET r == run[v] IN
    \/ hist[id] \in {r.before[id], r.before[id] \o r.toWrite[id]}
    \/ r.before[id] # <<>> /\ hist[id] = <<Head(r.before[id])>>

LegacyData(v) ==
    LET r == run[v] IN
    /\ pc[v] \in {"append", "rename"} =>
           hist = PutShards(AppendLines(r.before, r.toWrite), r.before, r.todo)
    /\ pc[v] = "rename" => r.buf = hist /\ r.reading \in r.todo

PrimitiveData(v) ==
    LET r == run[v] IN
    /\ ra[v].pc # "idle"
    /\ ra[v].pc \in {"check", "reclaim", "take", "read"} =>
           /\ hist = r.before /\ ra[v].rows = r.toWrite
           /\ ra[v].undo = {} /\ ra[v].backup = EmptyTable
    /\ ra[v].pc = "write" =>
           /\ ra[v].todo \cap ra[v].undo = {}
           /\ ra[v].existed = ShardsOf(r.before)
           /\ \A id \in RowIds : ra[v].merged[id] =
                  IF r.before[id] = <<>> THEN r.toWrite[id]
                                         ELSE <<Head(r.before[id])>>
           /\ hist = PutShards(r.before, ra[v].merged, ra[v].undo)
           /\ ra[v].backup = PutShards(EmptyTable, r.before, ra[v].undo)
    /\ ra[v].pc = "returned" => \A id \in RowIds : RowResult(v, id)

DataInvOf(v) ==
    LET r == run[v] IN
    /\ pc[v] \in {"readDb", "legacyCheck", "dbLock", "legacyTake"} =>
           hist = r.before
    /\ pc[v] \in Planned =>
           r.toWrite = ToWrite(r) /\ ~PlanConflict(r) /\ Ids(r.toWrite) # {}
    /\ LegacyData(v)
    /\ pc[v] = "primitive" => PrimitiveData(v)
    /\ pc[v] \in {"unlock", "unlink", "derive"} => \A id \in RowIds : RowResult(v, id)
    /\ pc[v] \in {"mirror", "commit", "recheck"} =>
           /\ \A id \in RowIds : RowResult(v, id)
           /\ hist = r.after /\ ~r.failed /\ ~Problems(r)
    /\ pc[v] = "commit" => MirrorExactMatch(r.after, Mirrored(r))

DataInv == \A v \in Writers : DataInvOf(v)

LEMMA PlanFacts ==
    ASSUME NEW r \in RunState, r.toWrite = ToWrite(r), ~PlanConflict(r),
           NEW id \in RowIds
    PROVE  /\ ~(Len(r.toWrite[id]) > 1)
           /\ r.before[id] = <<>> => r.toWrite[id] = r.batch[id]
           /\ r.before[id] # <<>> =>
                  /\ r.toWrite[id] = <<>>
                  /\ \A i \in DOMAIN r.batch[id] :
                         r.batch[id][i] = RowOf(r.before, id)
  <1>1. ~(Len(r.toWrite[id]) > 1)
    BY DEF PlanConflict, HasDuplicates
  <1>2. r.toWrite[id] = IF r.before[id] = <<>> THEN r.batch[id] ELSE <<>>
    BY DEF ToWrite, OnlyIds, Ids
  <1>3. ASSUME r.before[id] # <<>>, NEW i \in DOMAIN r.batch[id]
        PROVE  r.batch[id][i] = RowOf(r.before, id)
    <2>1. r.batch[id] # <<>>
      BY <1>3
    <2>2. id \in Ids(r.batch) \cap Ids(r.before)
      BY <1>3, <2>1 DEF Ids
    <2>. QED
      BY <1>3, <2>2 DEF PlanConflict
  <1>. QED
    BY <1>1, <1>2, <1>3

\* The plan is a function of the batch and of what was read.
LEMMA PlanSame ==
    ASSUME NEW r, NEW s, r.batch = s.batch, r.before = s.before
    PROVE  ToWrite(r) = ToWrite(s) /\ (PlanConflict(r) <=> PlanConflict(s))
  BY DEF ToWrite, PlanConflict

\* Nothing is appended yet when every shard with new rows is still to write.
LEMMA NothingAppended ==
    ASSUME NEW t \in Table, NEW rows \in Table
    PROVE  t = PutShards(AppendLines(t, rows), t, ShardsOf(rows))
  <1>1. ASSUME NEW id \in RowIds, ShardOf[id] \notin ShardsOf(rows)
        PROVE  t[id] = t[id] \o rows[id]
    <2>1. rows[id] = <<>> /\ t[id] \in Seq(Hashes)
      BY <1>1 DEF ShardsOf, Ids, Table
    <2>. QED
      BY <2>1
  <1>. QED
    BY <1>1 DEF PutShards, AppendLines, Table

\* A shard read and rewritten with its new lines is one shard less to write.
LEMMA ShardAppended ==
    ASSUME NEW t \in Table, NEW rows \in Table, NEW todo, NEW s \in todo,
           NEW h, h = PutShards(AppendLines(t, rows), t, todo)
    PROVE  PutShards(h, AppendLines(h, rows), {s})
             = PutShards(AppendLines(t, rows), t, todo \ {s})
  BY DEF PutShards, AppendLines

LEMMA ResultOfData ==
    ASSUME TypeOK, NEW v \in Writers, DataInvOf(v), pc[v] \in HasRead,
           NEW id \in RowIds
    PROVE  RowResult(v, id)
  <1>. USE DEF DataInvOf, RowResult
  <1>0. run[v] \in RunState /\ hist \in Table /\ run[v].before \in Table
    BY DEF TypeOK, RaTypeOK, RunState
  <1>1. CASE pc[v] \in {"readDb", "legacyCheck", "dbLock", "legacyTake"}
    BY <1>1
  <1>2. CASE pc[v] \in {"append", "rename"}
    BY <1>0, <1>2 DEF LegacyData, PutShards, AppendLines
  <1>3. CASE pc[v] = "primitive"
    <2>1. ra[v] \in RaState /\ PrimitiveData(v)
      BY <1>3, WriterAssumption DEF TypeOK, RaTypeOK
    <2>2. CASE ra[v].pc \in {"check", "reclaim", "take", "read", "returned"}
      BY <2>1, <2>2 DEF PrimitiveData
    <2>3. CASE ra[v].pc = "write"
      <3>1. hist[id] \in {ra[v].merged[id], run[v].before[id]}
        BY <2>1, <2>3 DEF PrimitiveData, PutShards
      <3>2. ra[v].merged[id] = IF run[v].before[id] = <<>>
                                 THEN run[v].toWrite[id]
                                 ELSE <<Head(run[v].before[id])>>
        BY <2>1, <2>3 DEF PrimitiveData
      <3>3. run[v].before[id] = <<>> =>
                run[v].before[id] \o run[v].toWrite[id] = run[v].toWrite[id]
        BY <1>0 DEF RunState, Table
      <3>. QED
        BY <3>1, <3>2, <3>3
    <2>. QED
      BY <2>1, <2>2, <2>3 DEF PrimitiveData, RaState, RaPc
  <1>4. CASE pc[v] \in {"unlock", "unlink", "derive", "mirror", "commit", "recheck"}
    BY <1>4
  <1>. QED
    BY <1>1, <1>2, <1>3, <1>4 DEF HasRead, Locked, Pc

\* Only the holder of the history lock writes history.
LEMMA HistoryLocked ==
    ASSUME HistoryLockInv, NEW w \in Writers, JobStep(w), hlock # w
    PROVE  hist' = hist
  BY JobEffects DEF HistoryLockInv, Locked, Pc

LEMMA DataKept ==
    ASSUME NEW v \in Writers, DataInvOf(v), pc'[v] = pc[v], run'[v] = run[v],
           ra'[v] = ra[v], pc[v] \in HasRead => hist' = hist,
           pc[v] = "commit" => db' = db
    PROVE  DataInvOf(v)'
  <1>1. CASE pc[v] \in HasRead
    <2>1. hist' = hist
      BY <1>1
    <2>2. \A id \in RowIds : RowResult(v, id)' <=> RowResult(v, id)
      BY <2>1 DEF RowResult
    <2>3. LegacyData(v)' <=> LegacyData(v)
      BY <2>1 DEF LegacyData
    <2>4. PrimitiveData(v)' <=> PrimitiveData(v)
      BY <2>1, <2>2 DEF PrimitiveData
    <2>5. pc[v] = "commit" => Mirrored(run[v])' = Mirrored(run[v])
      BY DEF Mirrored
    <2>. QED
      BY <2>1, <2>2, <2>3, <2>4, <2>5 DEF DataInvOf
  <1>2. CASE pc[v] \notin HasRead
    BY <1>2 DEF DataInvOf, LegacyData, Planned, HasRead, Locked, Pc
  <1>. QED
    BY <1>1, <1>2

LEMMA EnterAppendData ==
    ASSUME TypeOK, NEW v \in Writers, DataInvOf(v),
           pc[v] \in {"legacyCheck", "dbLock"}, EnterAppend(v), run' = run
    PROVE  DataInvOf(v)'
  <1>1. hist' = hist /\ v \in Procs /\ pc'[v] = AppendEntry(v)
    BY WriterAssumption DEF EnterAppend, raVars, RaStart, Goto, TypeOK
  <1>2. /\ hist = run[v].before
        /\ run[v].toWrite = ToWrite(run[v]) /\ ~PlanConflict(run[v])
        /\ Ids(run[v].toWrite) # {}
    BY DEF DataInvOf, Planned, HasRead, Locked, Pc
  <1>3. CASE v \in HoldsLegacy
    BY <1>1, <1>2, <1>3 DEF AppendEntry, DataInvOf, LegacyData
  <1>4. CASE v \notin HoldsLegacy
    <2>1. /\ ra'[v].pc = "check" /\ ra'[v].rows = run[v].toWrite
          /\ ra'[v].undo = {} /\ ra'[v].backup = EmptyTable
      BY <1>1, <1>4 DEF EnterAppend, RaStart, RaIdle, TypeOK, RaTypeOK
    <2>2. pc'[v] = "primitive"
      BY <1>1, <1>4 DEF AppendEntry
    <2>3. PrimitiveData(v)'
      BY <1>1, <1>2, <2>1 DEF PrimitiveData
    <2>. QED
      BY <1>1, <1>2, <2>2, <2>3 DEF DataInvOf, LegacyData
  <1>. QED
    BY <1>3, <1>4

\* One step of runRealAppend inside a run, seen from what the run read.
LEMMA PrimitiveStepData ==
    ASSUME TypeOK, NEW v \in Writers, DataInvOf(v), PrimitiveStep(v)
    PROVE  PrimitiveData(v)'
  <1>. DEFINE r == run[v]
  <1>0. /\ v \in Procs /\ ra \in [Procs -> RaState] /\ ra[v] \in RaState
        /\ hist \in Table /\ r \in RunState /\ run' = run
        /\ r.before \in Table /\ r.toWrite \in Table
        /\ PrimitiveData(v) /\ RaStep(v)
        /\ r.toWrite = ToWrite(r) /\ ~PlanConflict(r)
    BY WriterAssumption DEF PrimitiveStep, DataInvOf, TypeOK, RaTypeOK, RunState,
       Planned, HasRead, Locked, Pc
  <1>1. \A id \in RowIds : RowResult(v, id)
    BY ResultOfData DEF PrimitiveStep, HasRead, Locked, Pc
  <1>r. \A decision : RaReturn(v, decision) => ra'[v].pc = "returned"
    BY <1>0 DEF RaReturn, RaIdle
  <1>2. ASSUME \A id \in RowIds : hist'[id] \in {hist[id], r.before[id]}
        PROVE  \A id \in RowIds : RowResult(v, id)'
    BY <1>0, <1>1, <1>2 DEF RowResult
  <1>3. ASSUME hist' = hist, ra'[v].pc = "returned"
        PROVE  PrimitiveData(v)'
    BY <1>2, <1>3 DEF PrimitiveData
  <1>4. CASE RaCheckLock(v) \/ RaReclaim(v) \/ RaTakeLock(v)
    <2>1. hist' = hist
      BY <1>4 DEF RaCheckLock, RaReclaim, RaTakeLock
    <2>2. CASE ra'[v].pc = "returned"
      BY <1>3, <2>1, <2>2
    <2>3. CASE ra'[v].pc # "returned"
      <3>1. /\ ra[v].pc \in {"check", "reclaim", "take"}
            /\ ra'[v].pc \in {"reclaim", "take", "read"}
            /\ ra'[v].rows = ra[v].rows
            /\ ra'[v].undo = ra[v].undo /\ ra'[v].backup = ra[v].backup
        <4>1. CASE RaCheckLock(v)
          <5>1. ra[v].pc = "check" /\ \E label \in {"reclaim", "take"} :
                    ra' = [ra EXCEPT ![v].pc = label]
            BY <1>r, <2>3, <4>1 DEF RaCheckLock
          <5>. QED
            BY <1>0, <5>1 DEF RaState
        <4>2. CASE RaReclaim(v) \/ RaTakeLock(v)
          BY <1>0, <4>2 DEF RaReclaim, RaTakeLock, RaState
        <4>. QED
          BY <1>4, <4>1, <4>2
      <3>. QED
        BY <1>0, <2>1, <3>1 DEF PrimitiveData
    <2>. QED
      BY <2>2, <2>3
  <1>5. CASE RaRead(v)
    <2>1. /\ hist' = hist /\ hist = r.before /\ ra[v].rows = r.toWrite
          /\ ra[v].undo = {} /\ ra[v].backup = EmptyTable
      BY <1>0, <1>5 DEF RaRead, PrimitiveData
    <2>2. CASE ra'[v].pc = "returned"
      BY <1>3, <2>1, <2>2
    <2>3. CASE ra'[v].pc # "returned"
      <3>1. ra'[v] = [ra[v] EXCEPT !.pc = "write",
                                   !.merged = Merged(r.toWrite),
                                   !.existed = ShardsOf(hist),
                                   !.todo = ShardsOf(r.toWrite)]
        BY <1>0, <1>5, <1>r, <2>1, <2>3 DEF RaRead
      <3>2. /\ ra'[v].pc = "write" /\ ra'[v].merged = Merged(r.toWrite)
            /\ ra'[v].existed = ShardsOf(hist)
            /\ ra'[v].undo = {} /\ ra'[v].backup = EmptyTable
        BY <1>0, <2>1, <3>1 DEF RaState
      <3>3. ASSUME NEW id \in RowIds
            PROVE  Merged(r.toWrite)[id] = IF r.before[id] = <<>>
                                             THEN r.toWrite[id]
                                             ELSE <<Head(r.before[id])>>
        <4>1. r.toWrite[id] \in Seq(Hashes) /\ ~(Len(r.toWrite[id]) > 1)
          BY <1>0, PlanFacts DEF Table
        <4>2. r.toWrite[id] # <<>> => r.toWrite[id] = <<Head(r.toWrite[id])>>
          BY <4>1, Singleton
        <4>. QED
          BY <2>1, <4>2 DEF Merged, FirstLine
      <3>4. hist = PutShards(r.before, ra'[v].merged, {})
            /\ EmptyTable = PutShards(EmptyTable, r.before, {})
        BY <1>0, <2>1 DEF PutShards, Table, EmptyTable
      <3>. QED
        BY <1>0, <2>1, <3>2, <3>3, <3>4 DEF PrimitiveData
    <2>. QED
      BY <2>2, <2>3
  <1>6. CASE RaWriteShard(v)
    <2>. DEFINE merged == ra[v].merged
                undo == ra[v].undo
    <2>0. /\ ra[v].pc = "write" /\ ra[v].todo \cap undo = {}
          /\ ra[v].existed = ShardsOf(r.before)
          /\ hist = PutShards(r.before, merged, undo)
          /\ ra[v].backup = PutShards(EmptyTable, r.before, undo)
      BY <1>0, <1>6 DEF RaWriteShard, PrimitiveData
    <2>. PICK s \in ra[v].todo :
            /\ hist' = PutShards(hist, merged, {s})
            /\ ra' = [ra EXCEPT
                        ![v].todo = @ \ {s},
                        ![v].undo = @ \cup {s},
                        ![v].backup = IF s \in ra[v].existed
                                        THEN PutShards(@, hist, {s}) ELSE @]
      BY <1>6 DEF RaWriteShard
    <2>1. /\ ra'[v].pc = "write" /\ ra'[v].todo = ra[v].todo \ {s}
          /\ ra'[v].undo = undo \cup {s} /\ ra'[v].merged = merged
          /\ ra'[v].existed = ra[v].existed
          /\ ra'[v].backup = IF s \in ra[v].existed
                               THEN PutShards(ra[v].backup, hist, {s})
                               ELSE ra[v].backup
      BY <1>0, <2>0 DEF RaState
    <2>2. hist' = PutShards(r.before, merged, undo \cup {s})
      BY <2>0 DEF PutShards
    <2>3. ra'[v].backup = PutShards(EmptyTable, r.before, undo \cup {s})
      <3>1. CASE s \in ra[v].existed
        BY <2>0, <2>1, <3>1 DEF PutShards
      <3>2. CASE s \notin ra[v].existed
        <4>1. \A id \in RowIds : ShardOf[id] = s => r.before[id] = <<>>
          BY <2>0, <3>2 DEF ShardsOf, Ids
        <4>. QED
          BY <2>0, <2>1, <3>2, <4>1 DEF PutShards, EmptyTable
      <3>. QED
        BY <3>1, <3>2
    <2>4. ra'[v].todo \cap ra'[v].undo = {}
      BY <2>0, <2>1
    <2>5. \A id \in RowIds : merged[id] =
              IF r.before[id] = <<>> THEN r.toWrite[id]
                                     ELSE <<Head(r.before[id])>>
      BY <1>0, <2>0 DEF PrimitiveData
    <2>. QED
      BY <1>0, <2>0, <2>1, <2>2, <2>3, <2>4, <2>5 DEF PrimitiveData
  <1>7. CASE RaRollback(v)
    <2>1. PICK restored \in SUBSET ra[v].undo :
              hist' = PutShards(hist, ra[v].backup, restored)
      BY <1>7 DEF RaRollback
    <2>2. ra[v].backup = PutShards(EmptyTable, r.before, ra[v].undo)
      BY <1>0, <1>7 DEF RaRollback, PrimitiveData
    <2>3. \A id \in RowIds : hist'[id] \in {hist[id], r.before[id]}
      BY <2>1, <2>2 DEF PutShards
    <2>4. ra'[v].pc = "returned"
      BY <1>7, <1>r DEF RaRollback
    <2>. QED
      BY <1>2, <2>3, <2>4 DEF PrimitiveData
  <1>8. CASE RaThrow(v) \/ RaFinish(v)
    <2>1. hist' = hist /\ ra'[v].pc = "returned"
      BY <1>8, <1>r DEF RaThrow, RaFinish
    <2>. QED
      BY <1>3, <2>1
  <1>. QED
    BY <1>0, <1>4, <1>5, <1>6, <1>7, <1>8 DEF RaStep

LEMMA DataOwnStep ==
    ASSUME TypeOK, DbLockInv, NEW v \in Writers, JobStep(v), DataInvOf(v)
    PROVE  DataInvOf(v)'
  <1>. USE DEF HasRead, Planned, Locked, Pc
  <1>0. /\ pc \in [Writers -> Pc] /\ run \in [Writers -> RunState]
        /\ run[v] \in RunState /\ hist \in Table
        /\ run[v].before \in Table /\ run[v].toWrite \in Table
    BY DEF TypeOK, RaTypeOK, RunState
  <1>1. ASSUME pc'[v] \notin HasRead PROVE DataInvOf(v)'
    BY <1>1 DEF DataInvOf, LegacyData
  <1>2. CASE \/ Begin(v) \/ AcquireHistoryLock(v) \/ Recheck(v) \/ Throw(v)
             \/ Release(v) \/ Crash(v)
    BY <1>0, <1>1, <1>2 DEF Begin, AcquireHistoryLock, Recheck, Throw, Release,
       Crash, Preserve, Return, Goto
  <1>3. CASE ReadHistory(v)
    <2>1. CASE run' = [run EXCEPT ![v].before = hist] /\ Goto(v, "readDb")
      <3>1. run'[v].before = hist /\ pc'[v] = "readDb" /\ hist' = hist
        BY <1>0, <1>3, <2>1 DEF ReadHistory, Goto, raVars, RunState
      <3>. QED
        BY <3>1 DEF DataInvOf, LegacyData
    <2>2. CASE Preserve(v, run[v], "STATE_UNKNOWN_CAPTURE_PRESERVED")
      BY <1>0, <1>1, <2>2 DEF Preserve, Goto
    <2>. QED
      BY <1>3, <2>1, <2>2 DEF ReadHistory
  <1>4. CASE ReadDb(v)
    <2>. DEFINE r == [run[v] EXCEPT !.seen = db]
                planned == [r EXCEPT !.toWrite = ToWrite(r)]
    <2>1. CASE pc'[v] = "release"
      BY <1>1, <2>1
    <2>2. CASE /\ ~PlanConflict(r) /\ Ids(ToWrite(r)) # {}
               /\ run' = [run EXCEPT ![v] = planned]
               /\ Goto(v, "legacyCheck")
      <3>1. run'[v] = planned /\ pc'[v] = "legacyCheck" /\ hist' = hist
        BY <1>0, <1>4, <2>2 DEF ReadDb, Goto, raVars
      <3>2. /\ planned.toWrite = ToWrite(r)
            /\ planned.batch = r.batch /\ planned.before = r.before
            /\ r.before = run[v].before
        BY <1>0 DEF RunState
      <3>3. ToWrite(planned) = ToWrite(r) /\ ~PlanConflict(planned)
        BY <2>2, <3>2, PlanSame
      <3>4. hist = run[v].before
        BY <1>4 DEF ReadDb, DataInvOf
      <3>. QED
        BY <2>2, <3>1, <3>2, <3>3, <3>4 DEF DataInvOf, LegacyData
    <2>. QED
      BY <1>0, <1>4, <2>1, <2>2 DEF ReadDb, Preserve, Return, Goto
  <1>5. CASE LegacyCheck(v)
    <2>1. CASE pc'[v] = "release"
      BY <1>1, <2>1
    <2>2. CASE Goto(v, "dbLock") /\ UNCHANGED <<run, raVars>>
      <3>1. pc[v] = "legacyCheck" /\ pc'[v] = "dbLock"
            /\ run' = run /\ hist' = hist
        BY <1>0, <1>5, <2>2 DEF LegacyCheck, Goto, raVars
      <3>. QED
        BY <3>1 DEF DataInvOf, LegacyData
    <2>3. CASE EnterAppend(v) /\ run' = run
      BY <1>5, <2>3, EnterAppendData DEF LegacyCheck
    <2>. QED
      BY <1>0, <1>5, <2>1, <2>2, <2>3 DEF LegacyCheck, Preserve, Goto
  <1>6. CASE DbLock(v)
    <2>1. CASE pc'[v] = "release"
      BY <1>1, <2>1
    <2>2. CASE EnterAppend(v) /\ run' = run
      BY <1>6, <2>2, EnterAppendData DEF DbLock
    <2>. QED
      BY <1>0, <1>6, <2>1, <2>2 DEF DbLock, Preserve, Goto
  <1>7. CASE LegacyTake(v)
    <2>1. CASE pc'[v] = "release"
      BY <1>1, <2>1
    <2>2. CASE /\ run' = [run EXCEPT ![v].todo = ShardsOf(run[v].toWrite)]
               /\ Goto(v, "append")
      <3>1. /\ pc[v] = "legacyTake" /\ pc'[v] = "append" /\ hist' = hist
            /\ run'[v] = [run[v] EXCEPT !.todo = ShardsOf(run[v].toWrite)]
        BY <1>0, <1>7, <2>2 DEF LegacyTake, Goto
      <3>2. /\ run'[v].todo = ShardsOf(run[v].toWrite)
            /\ run'[v].before = run[v].before /\ run'[v].batch = run[v].batch
            /\ run'[v].toWrite = run[v].toWrite
        BY <1>0, <3>1 DEF RunState
      <3>3. ToWrite(run'[v]) = ToWrite(run[v])
            /\ (PlanConflict(run'[v]) <=> PlanConflict(run[v]))
        BY <3>2, PlanSame
      <3>4. hist = run[v].before /\ run[v].toWrite = ToWrite(run[v])
            /\ ~PlanConflict(run[v]) /\ Ids(run[v].toWrite) # {}
        BY <3>1 DEF DataInvOf
      <3>5. hist = PutShards(AppendLines(run[v].before, run[v].toWrite),
                             run[v].before, ShardsOf(run[v].toWrite))
        BY <1>0, <3>4, NothingAppended
      <3>. QED
        BY <3>1, <3>2, <3>3, <3>4, <3>5 DEF DataInvOf, LegacyData
    <2>. QED
      BY <1>0, <1>7, <2>1, <2>2 DEF LegacyTake, Preserve, Goto
  <1>8. ASSUME run'[v].batch = run[v].batch, run'[v].before = run[v].before,
               run'[v].toWrite = run[v].toWrite, pc[v] \in Planned
        PROVE  /\ run'[v].toWrite = ToWrite(run'[v]) /\ ~PlanConflict(run'[v])
               /\ Ids(run'[v].toWrite) # {}
    <2>1. ToWrite(run'[v]) = ToWrite(run[v])
          /\ (PlanConflict(run'[v]) <=> PlanConflict(run[v]))
      BY <1>8, PlanSame
    <2>. QED
      BY <1>8, <2>1 DEF DataInvOf
  <1>9. ASSUME pc[v] \in HasRead, run'[v].before = run[v].before,
               run'[v].toWrite = run[v].toWrite, hist' = hist
        PROVE  \A id \in RowIds : RowResult(v, id)'
    BY <1>9, ResultOfData DEF RowResult
  <1>10. CASE AppendRead(v)
    <2>1. PICK s \in run[v].todo :
              run' = [run EXCEPT ![v].buf = hist, ![v].reading = s]
      BY <1>10 DEF AppendRead
    <2>2. run'[v] = [run[v] EXCEPT !.buf = hist, !.reading = s]
      BY <1>0, <2>1
    <2>3. /\ pc[v] = "append" /\ pc'[v] = "rename" /\ hist' = hist
          /\ run'[v].buf = hist /\ run'[v].reading = s
          /\ run'[v].todo = run[v].todo /\ run'[v].batch = run[v].batch
          /\ run'[v].before = run[v].before /\ run'[v].toWrite = run[v].toWrite
      BY <1>0, <1>10, <2>2 DEF AppendRead, Goto, raVars, RunState
    <2>. QED
      BY <1>8, <2>3 DEF DataInvOf, LegacyData
  <1>11. CASE AppendRename(v)
    <2>. DEFINE r == run[v]
    <2>1. /\ pc[v] = "rename" /\ pc'[v] = "append"
          /\ hist' = PutShards(hist, AppendLines(r.buf, r.toWrite), {r.reading})
          /\ run'[v] = [r EXCEPT !.todo = @ \ {r.reading}, !.buf = EmptyTable]
      BY <1>0, <1>11 DEF AppendRename, Goto
    <2>2. /\ run'[v].todo = r.todo \ {r.reading} /\ run'[v].batch = r.batch
          /\ run'[v].before = r.before /\ run'[v].toWrite = r.toWrite
      BY <1>0, <2>1 DEF RunState
    <2>3. /\ hist = PutShards(AppendLines(r.before, r.toWrite), r.before, r.todo)
          /\ r.buf = hist /\ r.reading \in r.todo
      BY <2>1 DEF DataInvOf, LegacyData
    <2>4. hist' = PutShards(AppendLines(r.before, r.toWrite), r.before,
                            r.todo \ {r.reading})
      BY <1>0, <2>1, <2>3, ShardAppended
    <2>. QED
      BY <1>8, <2>1, <2>2, <2>4 DEF DataInvOf, LegacyData
  <1>12. CASE AppendReturn(v)
    <2>1. /\ pc[v] \in {"append", "rename"} /\ pc'[v] = "unlock" /\ hist' = hist
          /\ run'[v] \in {run[v], [run[v] EXCEPT !.failed = TRUE, !.todo = {},
                                                 !.buf = EmptyTable]}
      BY <1>0, <1>12 DEF AppendReturn, Goto, raVars
    <2>2. /\ run'[v].batch = run[v].batch
          /\ run'[v].before = run[v].before /\ run'[v].toWrite = run[v].toWrite
      BY <1>0, <2>1 DEF RunState
    <2>. QED
      BY <1>8, <1>9, <2>1, <2>2 DEF DataInvOf, LegacyData
  <1>13. CASE LegacyUnlock(v) \/ LegacyRemove(v)
    <2>1. /\ pc[v] \in {"unlock", "unlink"} /\ pc'[v] \in {"unlink", "derive"}
          /\ hist' = hist /\ run' = run
      BY <1>0, <1>13 DEF LegacyUnlock, LegacyRemove, Goto, raVars
    <2>. QED
      BY <1>8, <1>9, <2>1 DEF DataInvOf, LegacyData
  <1>14. CASE PrimitiveStep(v)
    <2>1. pc[v] = "primitive" /\ pc' = pc /\ run' = run
      BY <1>14 DEF PrimitiveStep
    <2>. QED
      BY <1>8, <1>14, <2>1, PrimitiveStepData DEF DataInvOf, LegacyData
  <1>15. CASE PrimitiveReturn(v)
    <2>1. /\ pc[v] = "primitive" /\ pc'[v] = "derive" /\ hist' = hist
          /\ run'[v] = [run[v] EXCEPT !.failed = (ra[v].decision # "success")]
      BY <1>0, <1>15 DEF PrimitiveReturn, Goto, files
    <2>2. /\ run'[v].batch = run[v].batch
          /\ run'[v].before = run[v].before /\ run'[v].toWrite = run[v].toWrite
      BY <1>0, <2>1 DEF RunState
    <2>. QED
      BY <1>8, <1>9, <2>1, <2>2 DEF DataInvOf, LegacyData
  <1>16. CASE Derive(v)
    <2>. DEFINE r == [run[v] EXCEPT !.after = hist]
    <2>1. CASE pc'[v] = "release"
      BY <1>1, <2>1
    <2>2. CASE /\ ~r.failed /\ ~Problems(r)
               /\ run' = [run EXCEPT ![v] = r] /\ Goto(v, "mirror")
      <3>1. /\ pc[v] = "derive" /\ pc'[v] = "mirror" /\ hist' = hist
            /\ run'[v] = r
        BY <1>0, <1>16, <2>2 DEF Derive, Goto, raVars
      <3>2. /\ r.after = hist /\ r.batch = run[v].batch
            /\ r.before = run[v].before /\ r.toWrite = run[v].toWrite
        BY <1>0 DEF RunState
      <3>. QED
        BY <1>8, <1>9, <2>2, <3>1, <3>2 DEF DataInvOf, LegacyData
    <2>. QED
      BY <1>0, <1>16, <2>1, <2>2 DEF Derive, Return, Goto
  <1>17. CASE Mirror(v)
    <2>1. CASE pc'[v] = "release"
      BY <1>1, <2>1
    <2>2. CASE Validated(run[v]) /\ Goto(v, "commit") /\ run' = run
      <3>1. /\ pc[v] = "mirror" /\ pc'[v] = "commit" /\ hist' = hist
            /\ run' = run /\ db' = db
        BY <1>0, <1>17, <2>2 DEF Mirror, Goto, raVars
      <3>2. Mirrored(run[v])' = Mirrored(run[v])
        BY <3>1 DEF Mirrored
      <3>. QED
        BY <1>8, <1>9, <2>2, <3>1, <3>2 DEF DataInvOf, LegacyData, Validated
    <2>. QED
      BY <1>0, <1>17, <2>1, <2>2 DEF Mirror, Return, Goto
  <1>18. CASE Commit(v)
    <2>1. pc[v] = "commit" /\ pc'[v] = "recheck" /\ run' = run /\ hist' = hist
      BY <1>0, <1>18 DEF Commit, Goto, raVars
    <2>. QED
      BY <1>8, <1>9, <2>1 DEF DataInvOf, LegacyData
  <1>. QED
    BY <1>2, <1>3, <1>4, <1>5, <1>6, <1>7, <1>10, <1>11, <1>12, <1>13, <1>14,
       <1>15, <1>16, <1>17, <1>18 DEF JobStep, WriterStep, RunStep

\* Among scheduled jobs, whoever else writes the database, what a run read and
\* planned stays true of history until the run ends.
LEMMA DataInvariant ==
    ASSUME Manual = {}
    PROVE  Spec => [](TypeOK /\ HistoryLockInv /\ DbLockInv /\ DataInv)
  <1>1. Init => DataInv
    BY DEF Init, DataInv, DataInvOf, LegacyData, Planned, HasRead, Locked
  <1>2. ASSUME TypeOK, HistoryLockInv, DbLockInv, DataInv, [Next]_vars
        PROVE  DataInv'
    <2>. SUFFICES ASSUME NEW v \in Writers PROVE DataInvOf(v)'
      BY DEF DataInv
    <2>0. DataInvOf(v) /\ v # OtherDb
      BY <1>2, WriterAssumption DEF DataInv
    <2>1. /\ pc[v] \in HasRead => hlock = v
          /\ \A w \in Writers : pc[w] = "commit" => dblock = w
      BY <1>2 DEF HistoryLockInv, DbLockInv, HasRead
    <2>2. ASSUME NEW w \in Writers, JobStep(w), w # v PROVE DataInvOf(v)'
      <3>1. pc'[v] = pc[v] /\ run'[v] = run[v] /\ ra'[v] = ra[v]
        BY <1>2, <2>2, OtherJobsUntouched
      <3>2. pc[v] \in HasRead => hist' = hist
        BY <1>2, <2>1, <2>2, HistoryLocked
      <3>3. pc[v] = "commit" => db' = db
        BY <2>1, <2>2, JobEffects DEF Commit
      <3>. QED
        BY <2>0, <3>1, <3>2, <3>3, DataKept
    <2>3. CASE JobStep(v)
      BY <1>2, <2>0, <2>3, DataOwnStep
    <2>4. CASE ~(\E w \in Writers : JobStep(w))
      <3>1. /\ pc'[v] = pc[v] /\ run'[v] = run[v] /\ ra'[v] = ra[v]
            /\ hist' = hist
            /\ db' = db \/ OtherDbEnd
        BY <1>2, <2>4, OthersSteps
      <3>2. pc[v] = "commit" => db' = db
        BY <2>0, <2>1, <3>1 DEF OtherDbEnd
      <3>. QED
        BY <2>0, <3>1, <3>2, DataKept
    <2>. QED
      BY <2>2, <2>3, <2>4
  <1>. QED
    BY <1>1, <1>2, LockInvariants, PTL DEF Spec

\* The history lock is held by a run that has not ended.
HeldInv == \A w \in Writers : hlock = w => pc[w] \in Locked \cup {"release"}

LEMMA HeldInvariant == Spec => []HeldInv
  <1>1. Init => HeldInv
    BY WriterAssumption, ProcAssumption DEF Init, HeldInv
  <1>2. ASSUME TypeOK, HeldInv, [Next]_vars PROVE HeldInv'
    <2>. SUFFICES ASSUME NEW v \in Writers, hlock' = v
                  PROVE  pc'[v] \in Locked \cup {"release"}
      BY DEF HeldInv
    <2>0. pc \in [Writers -> Pc] /\ v # NoProc
      BY <1>2, WriterAssumption, ProcAssumption DEF TypeOK
    <2>1. ASSUME NEW w \in Writers, JobStep(w), w # v
          PROVE  pc'[v] \in Locked \cup {"release"}
      <3>1. pc'[v] = pc[v] /\ hlock = v
        BY <1>2, <2>0, <2>1, OtherJobsUntouched, JobEffects
      <3>. QED
        BY <1>2, <3>1 DEF HeldInv
    <2>2. CASE JobStep(v)
      <3>. USE DEF Goto, Preserve, Return, Locked, Pc
      <3>1. CASE Begin(v)
        BY <1>2, <2>0, <3>1 DEF Begin, HeldInv, locks
      <3>2. CASE AcquireHistoryLock(v) \/ ReadHistory(v) \/ ReadDb(v)
        BY <2>0, <3>2 DEF AcquireHistoryLock, ReadHistory, ReadDb
      <3>3. CASE LegacyCheck(v) \/ DbLock(v) \/ LegacyTake(v)
        BY <2>0, <3>3 DEF LegacyCheck, DbLock, LegacyTake, EnterAppend, AppendEntry
      <3>4. CASE AppendRead(v) \/ AppendRename(v) \/ AppendReturn(v)
                 \/ LegacyUnlock(v) \/ LegacyRemove(v) \/ PrimitiveStep(v) \/ PrimitiveReturn(v)
        BY <2>0, <3>4 DEF AppendRead, AppendRename, AppendReturn, LegacyUnlock, LegacyRemove,
           PrimitiveStep, PrimitiveReturn
      <3>5. CASE Derive(v) \/ Mirror(v) \/ Commit(v) \/ Recheck(v) \/ Throw(v)
        BY <2>0, <3>5 DEF Derive, Mirror, Commit, Recheck, Throw
      <3>6. CASE Release(v) \/ Crash(v)
        BY <2>0, <3>6 DEF Release, Crash, FreeLocks
      <3>. QED
        BY <2>2, <3>1, <3>2, <3>3, <3>4, <3>5, <3>6 DEF JobStep, WriterStep, RunStep
    <2>3. CASE ~(\E w \in Writers : JobStep(w))
      BY <1>2, <2>3, OthersSteps DEF HeldInv
    <2>. QED
      BY <2>1, <2>2, <2>3
  <1>. QED
    BY <1>1, <1>2, TypeCorrect, PTL DEF Spec

\* While a run is between its reading of history and its outcome, every row it
\* found there alone under its row_id is still there with its hash: the append,
\* its rollback and the other jobs leave it alone.
THEOREM ExistingRowsStay ==
    ASSUME Manual = {}
    PROVE  Spec => []ExistingRowsKept
  <1>1. ASSUME TypeOK, HeldInv, DataInv PROVE ExistingRowsKept
    <2>. SUFFICES ASSUME NEW w \in Writers, hlock = w,
                         pc[w] \notin {"readHistory", "release"},
                         NEW id \in RowIds, Len(run[w].before[id]) = 1
                  PROVE  hist[id] = run[w].before[id]
      BY DEF ExistingRowsKept
    <2>. DEFINE old == run[w].before[id]
    <2>1. pc[w] \in HasRead /\ DataInvOf(w) /\ run[w] \in RunState
      BY <1>1 DEF HeldInv, DataInv, HasRead, TypeOK
    <2>2. old \in Seq(Hashes) /\ old # <<>> /\ old = <<old[1]>>
      <3>1. old \in Seq(Hashes)
        BY <2>1 DEF RunState, Table
      <3>2. old # <<>> /\ ~(Len(old) > 1)
        BY <3>1
      <3>. QED
        BY <3>1, <3>2, Singleton
    <2>3. CASE pc[w] = "readDb"
      BY <2>1, <2>3 DEF DataInvOf
    <2>4. CASE pc[w] # "readDb"
      <3>1. run[w].toWrite[id] = <<>>
        BY <2>1, <2>2, <2>4, PlanFacts DEF DataInvOf, Planned
      <3>2. RowResult(w, id)
        BY <1>1, <2>1, ResultOfData
      <3>3. old \o run[w].toWrite[id] = old /\ <<Head(old)>> = old
        BY <2>2, <3>1
      <3>. QED
        BY <3>2, <3>3 DEF RowResult
    <2>. QED
      BY <2>3, <2>4
  <1>. QED
    BY <1>1, DataInvariant, HeldInvariant, PTL

-----------------------------------------------------------------------------
(* The rows of a run.  From here on no history starts with a duplicated      *)
(* row_id: where one row_id had lines of two hashes, runRealAppend would     *)
(* keep the first line while the plan compares with the last one.            *)

SingleLined == \A start \in Starts : ~HasDuplicates(start[1])

ReadSingle ==
    \A v \in Writers : pc[v] \in HasRead => ~HasDuplicates(run[v].before)

NoDupInv == ~HasDuplicates(hist) /\ ReadSingle

\* With single lines, a row stays as it was read or gains the line planned.
LEMMA SingleResult ==
    ASSUME TypeOK, NEW v \in Writers, DataInvOf(v), pc[v] \in HasRead,
           ~HasDuplicates(run[v].before), NEW id \in RowIds
    PROVE  /\ run[v].before[id] # <<>> => hist[id] = run[v].before[id]
           /\ run[v].before[id] = <<>> =>
                  \/ hist[id] = <<>>
                  \/ pc[v] \in Planned /\ hist[id] = run[v].toWrite[id]
           /\ ~(Len(hist[id]) > 1)
  <1>. DEFINE r == run[v]
  <1>0. /\ r \in RunState /\ r.before[id] \in Seq(Hashes)
        /\ r.toWrite[id] \in Seq(Hashes) /\ hist[id] \in Seq(Hashes)
        /\ ~(Len(r.before[id]) > 1)
    <2>1. r \in RunState /\ hist \in Table
      BY DEF TypeOK, RaTypeOK
    <2>2. r.before \in Table /\ r.toWrite \in Table
      BY <2>1 DEF RunState
    <2>. QED
      BY <2>1, <2>2 DEF Table, HasDuplicates
  <1>1. RowResult(v, id)
    BY ResultOfData
  <1>2. CASE pc[v] = "readDb"
    <2>1. hist = r.before
      BY <1>2 DEF DataInvOf
    <2>. QED
      BY <1>0, <2>1
  <1>3. CASE pc[v] \in Planned /\ r.before[id] # <<>>
    <2>1. r.before[id] = <<r.before[id][1]>> /\ r.toWrite[id] = <<>>
      BY <1>0, <1>3, Singleton, PlanFacts DEF DataInvOf
    <2>2. r.before[id] \o r.toWrite[id] = r.before[id]
          /\ <<Head(r.before[id])>> = r.before[id]
      BY <1>0, <2>1
    <2>. QED
      BY <1>0, <1>1, <1>3, <2>2 DEF RowResult
  <1>4. CASE pc[v] \in Planned /\ r.before[id] = <<>>
    <2>1. r.before[id] \o r.toWrite[id] = r.toWrite[id]
          /\ ~(Len(r.toWrite[id]) > 1)
      BY <1>0, <1>4, PlanFacts DEF DataInvOf
    <2>. QED
      BY <1>0, <1>1, <1>4, <2>1 DEF RowResult
  <1>. QED
    BY <1>2, <1>3, <1>4 DEF Planned

LEMMA SingleHistory ==
    TypeOK /\ DataInv /\ ReadSingle /\ (\E v \in Writers : pc[v] \in HasRead)
    => NoDuplicateRows
  BY SingleResult DEF DataInv, ReadSingle, HasDuplicates, NoDuplicateRows

\* What a job has read is from a reading it has made, or it is reading now.
LEMMA BeforeStep ==
    ASSUME TypeOK, NEW w \in Writers, JobStep(w), pc'[w] \in HasRead
    PROVE  \/ pc[w] \in HasRead /\ run'[w].before = run[w].before
           \/ run'[w].before = hist
  <1>0. pc \in [Writers -> Pc] /\ run \in [Writers -> RunState]
    BY DEF TypeOK
  <1>. USE DEF HasRead, Locked, Goto, Preserve, Return
  <1>1. CASE \/ Begin(w) \/ AcquireHistoryLock(w) \/ Recheck(w) \/ Throw(w)
             \/ Release(w) \/ Crash(w)
    BY <1>0, <1>1 DEF Begin, AcquireHistoryLock, Recheck, Throw, Release, Crash
  <1>2. CASE ReadHistory(w)
    <2>1. CASE run' = [run EXCEPT ![w].before = hist]
      BY <1>0, <2>1 DEF RunState
    <2>2. CASE pc'[w] = "release"
      BY <2>2
    <2>. QED
      BY <1>0, <1>2, <2>1, <2>2 DEF ReadHistory
  <1>3. CASE ReadDb(w)
    <2>1. CASE pc'[w] = "release"
      BY <2>1
    <2>2. CASE run' = [run EXCEPT ![w] =
                        [[run[w] EXCEPT !.seen = db] EXCEPT !.toWrite =
                             ToWrite([run[w] EXCEPT !.seen = db])]]
      BY <1>0, <1>3, <2>2 DEF ReadDb, RunState
    <2>. QED
      BY <1>0, <1>3, <2>1, <2>2 DEF ReadDb
  <1>4. CASE LegacyCheck(w) \/ DbLock(w) \/ LegacyTake(w)
    BY <1>0, <1>4 DEF LegacyCheck, DbLock, LegacyTake, RunState
  <1>5. CASE AppendRead(w) \/ AppendRename(w) \/ AppendReturn(w)
    BY <1>0, <1>5 DEF AppendRead, AppendRename, AppendReturn, RunState
  <1>6. CASE LegacyUnlock(w) \/ LegacyRemove(w) \/ PrimitiveStep(w) \/ PrimitiveReturn(w)
    BY <1>0, <1>6 DEF LegacyUnlock, LegacyRemove, PrimitiveStep, PrimitiveReturn, RunState
  <1>7. CASE Derive(w)
    BY <1>0, <1>7 DEF Derive, RunState
  <1>8. CASE Mirror(w) \/ Commit(w)
    BY <1>0, <1>8 DEF Mirror, Commit, RunState
  <1>. QED
    BY <1>1, <1>2, <1>3, <1>4, <1>5, <1>6, <1>7, <1>8
       DEF JobStep, WriterStep, RunStep

LEMMA HistoryWrites ==
    ASSUME TypeOK, NEW w \in Writers, JobStep(w), hist' # hist
    PROVE  /\ pc[w] \in HasRead /\ pc'[w] \in HasRead
           /\ AppendRename(w) \/ PrimitiveStep(w)
  <1>1. pc[w] \in {"rename", "primitive"}
    BY JobEffects
  <1>2. AppendRename(w) \/ PrimitiveStep(w)
    BY <1>1 DEF JobStep, Begin, WriterStep, RunStep,
       AcquireHistoryLock, ReadHistory, ReadDb, LegacyCheck, DbLock,
       LegacyTake, AppendRead, AppendReturn, LegacyUnlock, LegacyRemove,
       PrimitiveReturn, Derive, Mirror, Commit, Recheck, Throw, Release,
       Crash, raVars, files
  <1>3. pc'[w] \in {"append", "primitive"}
    BY <1>1, <1>2 DEF AppendRename, PrimitiveStep, Goto, TypeOK
  <1>. QED
    BY <1>1, <1>2, <1>3 DEF HasRead, Locked, Pc

LEMMA NoDupStep ==
    ASSUME Manual = {}, TypeOK, TypeOK', HistoryLockInv, DataInv, DataInv',
           NoDupInv, [Next]_vars
    PROVE  NoDupInv'
  <1>1. ASSUME NEW v \in Writers, pc'[v] \in HasRead
        PROVE  ~HasDuplicates(run'[v].before)
    <2>1. ASSUME NEW w \in Writers, JobStep(w), w # v
          PROVE  ~HasDuplicates(run'[v].before)
      BY <1>1, <2>1, OtherJobsUntouched DEF NoDupInv, ReadSingle
    <2>2. CASE JobStep(v)
      <3>1. CASE pc[v] \in HasRead /\ run'[v].before = run[v].before
        BY <3>1 DEF NoDupInv, ReadSingle, HasDuplicates
      <3>2. CASE run'[v].before = hist
        BY <3>2 DEF NoDupInv
      <3>. QED
        BY <1>1, <2>2, <3>1, <3>2, BeforeStep
    <2>3. CASE ~(\E w \in Writers : JobStep(w))
      BY <1>1, <2>3, OthersSteps DEF NoDupInv, ReadSingle
    <2>. QED
      BY <2>1, <2>2, <2>3
  <1>2. ~HasDuplicates(hist')
    <2>1. ASSUME NEW w \in Writers, JobStep(w), hist' # hist
          PROVE  ~HasDuplicates(hist')
      <3>1. (\E v \in Writers : pc[v] \in HasRead)'
        BY <2>1, HistoryWrites DEF HasRead, Locked, Pc
      <3>2. ReadSingle'
        BY <1>1 DEF ReadSingle
      <3>3. NoDuplicateRows'
        BY <3>1, <3>2, SingleHistory, PTL
      <3>. QED
        BY <3>3 DEF NoDuplicateRows
    <2>2. hist' = hist \/ \E w \in Writers : JobStep(w)
      BY OthersSteps
    <2>. QED
      BY <2>1, <2>2 DEF NoDupInv
  <1>. QED
    BY <1>1, <1>2 DEF NoDupInv, ReadSingle

LEMMA NoDupInvariant ==
    ASSUME Manual = {}, SingleLined
    PROVE  Spec => [](TypeOK /\ HistoryLockInv /\ DataInv /\ NoDupInv)
  <1>1. Init => NoDupInv
    BY DEF Init, NoDupInv, ReadSingle, SingleLined, HasRead, Locked
  <1>2. /\ TypeOK /\ TypeOK' /\ HistoryLockInv /\ DataInv /\ DataInv'
        /\ NoDupInv /\ [Next]_vars
        => NoDupInv'
    BY NoDupStep
  <1>. QED
    BY <1>1, <1>2, DataInvariant, PTL DEF Spec

\* A row_id never gets a second line: whatever the scheduled jobs' runs do in
\* parallel, fail at or die of, and however often a batch is collected again.
THEOREM RowsNeverDuplicated ==
    ASSUME Manual = {}, SingleLined
    PROVE  Spec => []NoDuplicateRows
  <1>1. NoDupInv => NoDuplicateRows
    BY DEF NoDupInv, NoDuplicateRows
  <1>. QED
    BY <1>1, NoDupInvariant, PTL

\* A row with this hash is in history and in what every run in progress read,
\* so no step can take it away.
Landed(id, h) ==
    /\ hist[id] = <<h>>
    /\ \A u \in Writers : pc[u] \in HasRead => run[u].before[id] = <<h>>

\* Each row of a run that has ended with a status has landed or, unless that
\* status means success, is in one of the two places for rows that have not.
AccountInvOf(v) ==
    pc[v] \in {"release", "done"} /\ run[v].status \in Statuses =>
        \A id \in RowIds : \A i \in DOMAIN run[v].batch[id] :
            LET h == run[v].batch[id][i] IN
            \/ Landed(id, h)
            \/ /\ run[v].status \notin Collected
               /\ Holds(run[v].captured, id, h) \/ Holds(run[v].unsaved, id, h)

AccountInv == \A v \in Writers : AccountInvOf(v)

\* What runs in progress have read is in history as they read it.
ReadKept ==
    \A v \in Writers : pc[v] \in HasRead =>
        \A id \in RowIds : run[v].before[id] # <<>> => hist[id] = run[v].before[id]

LEMMA SingleKept == TypeOK /\ DataInv /\ ReadSingle => ReadKept
  BY SingleResult DEF DataInv, ReadSingle, ReadKept

LEMMA LandedKept ==
    ASSUME Manual = {}, TypeOK, TypeOK', DataInv', NoDupInv', [Next]_vars,
           NEW id \in RowIds, NEW h, Landed(id, h)
    PROVE  Landed(id, h)'
  <1>1. hist'[id] = <<h>>
    <2>1. ASSUME NEW w \in Writers, JobStep(w), hist' # hist
          PROVE  hist'[id] = <<h>>
      <3>1. /\ pc[w] \in HasRead /\ pc'[w] \in HasRead
            /\ AppendRename(w) \/ PrimitiveStep(w)
        BY <2>1, HistoryWrites
      <3>2. run'[w].before = run[w].before
        BY <3>1 DEF AppendRename, PrimitiveStep, TypeOK, RunState
      <3>3. run'[w].before[id] = <<h>>
        BY <3>1, <3>2 DEF Landed
      <3>4. ReadKept'
        BY SingleKept, PTL DEF NoDupInv
      <3>. QED
        BY <3>1, <3>3, <3>4 DEF ReadKept
    <2>2. hist' = hist \/ \E w \in Writers : JobStep(w)
      BY OthersSteps
    <2>. QED
      BY <2>1, <2>2 DEF Landed
  <1>2. ASSUME NEW u \in Writers, pc'[u] \in HasRead
        PROVE  run'[u].before[id] = <<h>>
    <2>1. CASE JobStep(u)
      BY <1>2, <2>1, BeforeStep DEF Landed
    <2>2. CASE ~JobStep(u)
      <3>1. pc'[u] = pc[u] /\ run'[u] = run[u]
        BY <2>2, OtherJobsUntouched, OthersSteps
      <3>. QED
        BY <1>2, <3>1 DEF Landed
    <2>. QED
      BY <2>1, <2>2
  <1>. QED
    BY <1>1, <1>2 DEF Landed

\* When a run leaves its critical section no other one is in it.
LEMMA LandedAtEnd ==
    ASSUME TypeOK, HistoryLockInv, NEW v \in Writers, JobStep(v),
           pc[v] \in HasRead, pc'[v] = "release",
           NEW id \in RowIds, NEW h, hist'[id] = <<h>>
    PROVE  Landed(id, h)'
  <1>1. ASSUME NEW u \in Writers, pc'[u] \in HasRead
        PROVE  FALSE
    <2>1. u # v
      BY <1>1 DEF HasRead, Locked
    <2>2. pc[u] \in HasRead
      BY <1>1, <2>1, OtherJobsUntouched
    <2>. QED
      BY <2>1, <2>2 DEF HistoryLockInv, HasRead
  <1>. QED
    BY <1>1 DEF Landed

\* A row of the batch is in history, or it is a row to write that is not.
LEMMA BatchRows ==
    ASSUME TypeOK, NEW v \in Writers, DataInvOf(v), NoDupInv,
           pc[v] \in Planned, NEW id \in RowIds,
           NEW i \in DOMAIN run[v].batch[id]
    PROVE  \/ hist[id] = <<run[v].batch[id][i]>>
           \/ /\ hist[id] = <<>>
              /\ run[v].toWrite[id] = <<run[v].batch[id][i]>>
  <1>. DEFINE r == run[v]
              h == r.batch[id][i]
  <1>0. /\ r \in RunState /\ r.before[id] \in Seq(Hashes)
        /\ r.toWrite[id] \in Seq(Hashes) /\ r.batch[id] \in Seq(Hashes)
        /\ pc[v] \in HasRead
    <2>1. r \in RunState
      BY DEF TypeOK
    <2>2. r.before \in Table /\ r.toWrite \in Table /\ r.batch \in Table
      BY <2>1 DEF RunState
    <2>. QED
      BY <2>1, <2>2 DEF Table, Planned
  <1>1. ~HasDuplicates(r.before)
    BY <1>0 DEF NoDupInv, ReadSingle
  <1>2. /\ ~(Len(r.toWrite[id]) > 1)
        /\ r.before[id] = <<>> => r.toWrite[id] = r.batch[id]
        /\ r.before[id] # <<>> => h = RowOf(r.before, id)
    BY <1>0, PlanFacts DEF DataInvOf
  <1>3. CASE r.before[id] # <<>>
    <2>1. ~(Len(r.before[id]) > 1)
      BY <1>1 DEF HasDuplicates
    <2>2. Len(r.before[id]) = 1 /\ r.before[id] = <<r.before[id][1]>>
      BY <1>0, <1>3, <2>1, Singleton
    <2>3. r.before[id] = <<h>>
      BY <1>2, <1>3, <2>2 DEF RowOf
    <2>. QED
      BY <1>0, <1>1, <1>3, <2>3, SingleResult
  <1>4. CASE r.before[id] = <<>>
    <2>1. r.toWrite[id] = r.batch[id] /\ r.batch[id] # <<>>
      BY <1>2, <1>4
    <2>2. r.toWrite[id] = <<h>>
      <3>1. DOMAIN r.toWrite[id] = {1} /\ r.toWrite[id] = <<r.toWrite[id][1]>>
        BY <1>0, <1>2, <2>1, Singleton
      <3>. QED
        BY <2>1, <3>1
    <2>. QED
      BY <1>0, <1>1, <1>4, <2>2, SingleResult
  <1>. QED
    BY <1>3, <1>4

\* A verified append left every row of the batch in history.
LEMMA VerifiedLanded ==
    ASSUME TypeOK, NEW v \in Writers, DataInvOf(v), NoDupInv,
           pc[v] \in Planned, NEW r \in RunState, r.after = hist,
           r.toWrite = run[v].toWrite, ~r.failed, ~Problems(r),
           NEW id \in RowIds, NEW i \in DOMAIN run[v].batch[id]
    PROVE  hist[id] = <<run[v].batch[id][i]>>
  <1>1. Ids(r.toWrite) \subseteq Ids(hist)
    BY DEF Problems, AppendedIds
  <1>. QED
    BY <1>1, BatchRows DEF Ids

\* preserve() puts the whole batch where rows that have not landed go.
LEMMA PreserveAccounts ==
    ASSUME TypeOK, NEW v \in Writers, NEW r \in RunState, NEW status,
           status \notin Collected, Preserve(v, r, status)
    PROVE  AccountInvOf(v)'
  <1>1. CASE run' = [run EXCEPT ![v] = [r EXCEPT !.status = status,
                                                 !.captured = r.batch]]
    <2>1. /\ run'[v].status = status /\ run'[v].captured = r.batch
          /\ run'[v].batch = r.batch
      BY <1>1 DEF TypeOK, RunState
    <2>. QED
      BY <2>1 DEF AccountInvOf, Holds
  <1>2. CASE run' = [run EXCEPT ![v] =
                      [r EXCEPT !.status = "CAPTURE_FAILED_ROWS_UNSAVED",
                                !.unsaved = r.batch]]
    <2>1. /\ run'[v].status = "CAPTURE_FAILED_ROWS_UNSAVED"
          /\ run'[v].unsaved = r.batch /\ run'[v].batch = r.batch
      BY <1>2 DEF TypeOK, RunState
    <2>2. run'[v].status \notin Collected
      BY <2>1 DEF Collected, Appended
    <2>. QED
      BY <2>1, <2>2 DEF AccountInvOf, Holds
  <1>. QED
    BY <1>1, <1>2 DEF Preserve, Capture

LEMMA AccountDerive ==
    ASSUME TypeOK, HistoryLockInv, NEW v \in Writers, DataInvOf(v), NoDupInv,
           Derive(v)
    PROVE  AccountInvOf(v)'
  <1>. DEFINE r == [run[v] EXCEPT !.after = hist]
  <1>0. /\ r \in RunState /\ pc[v] = "derive" /\ hist' = hist
        /\ r.after = hist /\ r.batch = run[v].batch
        /\ r.toWrite = run[v].toWrite /\ r.before = run[v].before
        /\ r.failed = run[v].failed
        /\ pc[v] \in Planned /\ pc[v] \in HasRead /\ JobStep(v)
    <2>1. r \in RunState /\ run[v] \in RunState
      BY DEF TypeOK, RaTypeOK, RunState
    <2>2. pc[v] = "derive" /\ hist' = hist /\ JobStep(v)
      BY DEF Derive, raVars, JobStep, WriterStep, RunStep
    <2>. QED
      BY <2>1, <2>2 DEF RunState, Planned, HasRead, Locked, Pc
  <1>1. ASSUME pc'[v] = "release", NEW id \in RowIds, NEW h, hist[id] = <<h>>
        PROVE  Landed(id, h)'
    BY <1>0, <1>1, LandedAtEnd
  <1>2. ASSUME NEW id \in RowIds, NEW i \in DOMAIN run[v].batch[id]
        PROVE  \/ hist[id] = <<run[v].batch[id][i]>>
               \/ /\ hist[id] = <<>>
                  /\ run[v].toWrite[id] = <<run[v].batch[id][i]>>
    BY <1>0, <1>2, BatchRows
  <1>3. ASSUME NEW status \in AppendFailed,
               Capture(v, r, status, status, Missing(r)), Goto(v, "release")
        PROVE  AccountInvOf(v)'
    <2>1. /\ run'[v].status = status /\ run'[v].batch = run[v].batch
          /\ Missing(r) \in {run'[v].captured, run'[v].unsaved}
      <3>1. CASE run' = [run EXCEPT ![v] = [r EXCEPT !.status = status,
                                                     !.captured = Missing(r)]]
        BY <1>0, <3>1 DEF TypeOK, RunState
      <3>2. CASE run' = [run EXCEPT ![v] = [r EXCEPT !.status = status,
                                                     !.unsaved = Missing(r)]]
        BY <1>0, <3>2 DEF TypeOK, RunState
      <3>. QED
        BY <1>3, <3>1, <3>2 DEF Capture
    <2>2. status \notin Collected
      BY DEF AppendFailed, Collected, Appended
    <2>3. ASSUME NEW id \in RowIds, NEW i \in DOMAIN run[v].batch[id],
                 ~Landed(id, run[v].batch[id][i])'
          PROVE  Holds(Missing(r), id, run[v].batch[id][i])
      <3>1. pc'[v] = "release"
        BY <1>0, <1>3 DEF Goto, TypeOK
      <3>2. hist[id] = <<>> /\ r.toWrite[id] = <<run[v].batch[id][i]>>
        BY <1>1, <1>2, <2>1, <2>3, <3>1
      <3>3. Missing(r)[id] = <<run[v].batch[id][i]>>
        BY <1>0, <3>2 DEF Missing, OnlyIds, AppendedIds, Ids
      <3>. QED
        BY <3>3 DEF Holds
    <2>. QED
      BY <2>1, <2>2, <2>3 DEF AccountInvOf
  <1>4. ASSUME ~r.failed, ~Problems(r), NEW status, Return(v, r, status)
        PROVE  AccountInvOf(v)'
    <2>1. run'[v].batch = run[v].batch /\ pc'[v] = "release"
      BY <1>0, <1>4 DEF Return, Goto, TypeOK, RunState
    <2>2. ASSUME NEW id \in RowIds, NEW i \in DOMAIN run[v].batch[id]
          PROVE  Landed(id, run[v].batch[id][i])'
      <3>1. hist[id] = <<run[v].batch[id][i]>>
        BY <1>0, <1>4, <2>2, VerifiedLanded
      <3>. QED
        BY <1>1, <2>1, <3>1
    <2>. QED
      BY <2>1, <2>2 DEF AccountInvOf
  <1>5. CASE Goto(v, "mirror")
    BY <1>5 DEF Goto, TypeOK, AccountInvOf
  <1>. QED
    BY <1>0, <1>3, <1>4, <1>5 DEF Derive, AppendFailed

LEMMA AccountOwnStep ==
    ASSUME Manual = {}, TypeOK, TypeOK', HistoryLockInv, DataInv, DataInv',
           NoDupInv, NoDupInv', [Next]_vars, NEW v \in Writers, JobStep(v),
           AccountInvOf(v)
    PROVE  AccountInvOf(v)'
  <1>0. /\ pc \in [Writers -> Pc] /\ run \in [Writers -> RunState]
        /\ run[v] \in RunState /\ DataInvOf(v)
    BY DEF TypeOK, DataInv
  <1>1. CASE pc'[v] \notin {"release", "done"}
    BY <1>1 DEF AccountInvOf
  <1>2. ASSUME NEW r \in RunState,
               NEW status \in {"LOCK_BUSY_CAPTURE_PRESERVED",
                               "STATE_UNKNOWN_CAPTURE_PRESERVED",
                               "APPEND_CONFLICT_CAPTURE_PRESERVED",
                               "APPEND_CAP_EXCEEDED_CAPTURE_PRESERVED"},
               Preserve(v, r, status)
        PROVE  AccountInvOf(v)'
    BY <1>2, PreserveAccounts DEF Collected, Appended
  <1>3. CASE Begin(v)
    <2>1. PICK rows \in Batches :
            \/ Ids(rows) = {} /\ Return(v, NewRun(rows), "NOTHING_TO_APPEND")
            \/ Preserve(v, NewRun(rows), "APPEND_CAP_EXCEEDED_CAPTURE_PRESERVED")
            \/ Goto(v, "lock")
      BY <1>3 DEF Begin
    <2>2. rows \in Table /\ NewRun(rows) \in RunState
      BY NewRunType, WriterAssumption
    <2>3. CASE Ids(rows) = {} /\ Return(v, NewRun(rows), "NOTHING_TO_APPEND")
      <3>1. run'[v].batch = rows
        BY <1>0, <2>2, <2>3 DEF Return, NewRun
      <3>2. \A id \in RowIds : DOMAIN rows[id] = {}
        BY <2>3 DEF Ids
      <3>. QED
        BY <3>1, <3>2 DEF AccountInvOf
    <2>4. CASE Goto(v, "lock")
      BY <1>0, <1>1, <2>4 DEF Goto
    <2>. QED
      BY <1>2, <2>1, <2>2, <2>3, <2>4
  <1>4. CASE AcquireHistoryLock(v) \/ ReadHistory(v) \/ LegacyCheck(v)
             \/ DbLock(v) \/ LegacyTake(v)
    <2>1. \/ Preserve(v, run[v], "LOCK_BUSY_CAPTURE_PRESERVED")
          \/ Preserve(v, run[v], "STATE_UNKNOWN_CAPTURE_PRESERVED")
          \/ \E label \in {"readHistory", "readDb", "dbLock", "legacyTake",
                           "primitive", "append"} : Goto(v, label)
      BY <1>4 DEF AcquireHistoryLock, ReadHistory, LegacyCheck, DbLock,
         LegacyTake, EnterAppend, AppendEntry
    <2>2. CASE \E label \in {"readHistory", "readDb", "dbLock", "legacyTake",
                             "primitive", "append"} : Goto(v, label)
      BY <1>0, <1>1, <2>2 DEF Goto
    <2>. QED
      BY <1>0, <1>2, <2>1, <2>2
  <1>5. CASE ReadDb(v)
    <2>. DEFINE r == [run[v] EXCEPT !.seen = db]
                done == [r EXCEPT !.exact = Consistent(r)]
    <2>0. /\ r \in RunState /\ pc[v] = "readDb" /\ hist' = hist
          /\ r.batch = run[v].batch /\ r.before = hist
          /\ hist \in Table /\ r.batch \in Table
      <3>1. pc[v] = "readDb" /\ hist' = hist /\ run[v].before = hist
        BY <1>0, <1>5 DEF ReadDb, raVars, DataInvOf
      <3>. QED
        BY <1>0, <3>1 DEF RunState, TypeOK, RaTypeOK
    <2>1. \/ Preserve(v, run[v], "STATE_UNKNOWN_CAPTURE_PRESERVED")
          \/ Preserve(v, r, "APPEND_CONFLICT_CAPTURE_PRESERVED")
          \/ /\ ~PlanConflict(r) /\ Ids(ToWrite(r)) = {}
             /\ Return(v, done, "NOTHING_TO_APPEND")
          \/ Goto(v, "legacyCheck")
      BY <1>5 DEF ReadDb
    <2>2. CASE /\ ~PlanConflict(r) /\ Ids(ToWrite(r)) = {}
               /\ Return(v, done, "NOTHING_TO_APPEND")
      <3>1. run'[v].batch = r.batch /\ pc'[v] = "release"
        BY <1>0, <2>0, <2>2 DEF Return, Goto, RunState
      <3>2. ASSUME NEW id \in RowIds, NEW i \in DOMAIN r.batch[id]
            PROVE  hist[id] = <<r.batch[id][i]>>
        <4>1. r.batch[id] # <<>>
          BY <3>2
        <4>2. hist[id] # <<>>
          BY <2>0, <2>2, <4>1 DEF ToWrite, OnlyIds, Ids
        <4>3. r.batch[id][i] = RowOf(hist, id)
          BY <2>0, <2>2, <3>2, <4>1, <4>2 DEF PlanConflict, Ids
        <4>4. hist[id] \in Seq(Hashes) /\ ~(Len(hist[id]) > 1)
          BY <2>0 DEF Table, NoDupInv, HasDuplicates
        <4>5. Len(hist[id]) = 1 /\ hist[id] = <<hist[id][1]>>
          BY <4>2, <4>4, Singleton
        <4>. QED
          BY <4>2, <4>3, <4>5 DEF RowOf
      <3>3. pc[v] \in HasRead
        BY <2>0 DEF HasRead, Locked, Pc
      <3>4. ASSUME NEW id \in RowIds, NEW i \in DOMAIN r.batch[id]
            PROVE  Landed(id, r.batch[id][i])'
        BY <2>0, <3>1, <3>2, <3>3, <3>4, LandedAtEnd
      <3>. QED
        BY <3>1, <3>4 DEF AccountInvOf
    <2>3. CASE Goto(v, "legacyCheck")
      BY <1>0, <1>1, <2>3 DEF Goto
    <2>. QED
      BY <1>0, <1>2, <2>0, <2>1, <2>2, <2>3
  <1>6. CASE AppendRead(v) \/ AppendRename(v) \/ AppendReturn(v)
             \/ LegacyUnlock(v) \/ LegacyRemove(v) \/ PrimitiveReturn(v) \/ Commit(v)
    <2>1. pc'[v] \in {"rename", "append", "unlock", "unlink", "derive", "recheck"}
      BY <1>0, <1>6 DEF AppendRead, AppendRename, AppendReturn, LegacyUnlock, LegacyRemove,
         PrimitiveReturn, Commit, Goto
    <2>. QED
      BY <1>1, <2>1
  <1>7. CASE PrimitiveStep(v)
    BY <1>0, <1>1, <1>7 DEF PrimitiveStep
  <1>8. CASE Derive(v)
    BY <1>0, <1>8, AccountDerive
  <1>9. ASSUME pc[v] \in {"mirror", "recheck"}, hist' = hist,
               pc'[v] = "release", run'[v].batch = run[v].batch
        PROVE  AccountInvOf(v)'
    <2>1. pc[v] \in Planned /\ pc[v] \in HasRead
      BY <1>9 DEF Planned, HasRead, Locked, Pc
    <2>2. ASSUME NEW id \in RowIds, NEW i \in DOMAIN run[v].batch[id]
          PROVE  hist[id] = <<run[v].batch[id][i]>>
      BY <1>0, <1>9, <2>1, VerifiedLanded DEF DataInvOf
    <2>3. ASSUME NEW id \in RowIds, NEW i \in DOMAIN run[v].batch[id]
          PROVE  Landed(id, run[v].batch[id][i])'
      BY <1>9, <2>1, <2>2, <2>3, LandedAtEnd
    <2>. QED
      BY <1>9, <2>3 DEF AccountInvOf
  <1>10. CASE Mirror(v)
    <2>1. CASE Goto(v, "commit")
      BY <1>0, <1>1, <2>1 DEF Goto
    <2>2. CASE Return(v, run[v], "MIRROR_FAILED_ROLLED_BACK")
      BY <1>0, <1>9, <1>10, <2>2 DEF Mirror, Return, Goto, RunState, raVars
    <2>. QED
      BY <1>10, <2>1, <2>2 DEF Mirror
  <1>11. CASE Recheck(v)
    <2>1. run'[v].batch = run[v].batch
      BY <1>0, <1>11 DEF Recheck, Return, RunState
    <2>. QED
      BY <1>0, <1>9, <1>11, <2>1 DEF Recheck, Return, Goto, raVars
  <1>12. CASE Throw(v)
    <2>1. run'[v].status = "threw"
      BY <1>0, <1>12 DEF Throw, Return, RunState
    <2>2. "threw" \notin Statuses
      BY DEF Statuses, Preserved, Appended, AppendFailed
    <2>. QED
      BY <2>1, <2>2 DEF AccountInvOf
  <1>13. CASE Release(v)
    <2>1. pc[v] = "release" /\ pc'[v] = "done" /\ run' = run
      BY <1>0, <1>13 DEF Release, Goto
    <2>. QED
      BY <2>1, LandedKept DEF AccountInvOf
  <1>14. CASE Crash(v)
    BY <1>0, <1>1, <1>14 DEF Crash, Goto
  <1>. QED
    BY <1>3, <1>4, <1>5, <1>6, <1>7, <1>8, <1>10, <1>11, <1>12, <1>13, <1>14
       DEF JobStep, WriterStep, RunStep

LEMMA AccountInvariant ==
    ASSUME Manual = {}, SingleLined
    PROVE  Spec => []AccountInv
  <1>1. Init => AccountInv
    BY DEF Init, AccountInv, AccountInvOf
  <1>2. ASSUME TypeOK, TypeOK', HistoryLockInv, DataInv, DataInv', NoDupInv,
               NoDupInv', AccountInv, [Next]_vars
        PROVE  AccountInv'
    <2>. SUFFICES ASSUME NEW v \in Writers PROVE AccountInvOf(v)'
      BY DEF AccountInv
    <2>1. AccountInvOf(v)
      BY <1>2 DEF AccountInv
    <2>2. CASE JobStep(v)
      BY <1>2, <2>1, <2>2, AccountOwnStep
    <2>3. CASE ~JobStep(v)
      <3>1. pc'[v] = pc[v] /\ run'[v] = run[v]
        BY <1>2, <2>3, OtherJobsUntouched, OthersSteps
      <3>. QED
        BY <1>2, <2>1, <3>1, LandedKept DEF AccountInvOf
    <2>. QED
      BY <2>2, <2>3
  <1>. QED
    BY <1>1, <1>2, NoDupInvariant, PTL DEF Spec

\* A run that returned a status has left each of its rows in history under its
\* hash, in the capture file or in unsaved_row_ids, and no later run takes it
\* out of history again.
THEOREM EveryRowAccountedFor ==
    ASSUME Manual = {}, SingleLined
    PROVE  Spec => []RowsAccountedFor
  <1>1. AccountInv => RowsAccountedFor
    BY DEF AccountInv, AccountInvOf, RowsAccountedFor, Accounted, Landed, Holds
  <1>. QED
    BY <1>1, AccountInvariant, PTL

\* What the callers count as success is one: after a collected outcome every
\* row of the run is in history, then and from then on.
THEOREM CollectedRowsAreInHistory ==
    ASSUME Manual = {}, SingleLined
    PROVE  Spec => []CollectedMeansInHistory
  <1>1. ASSUME TypeOK, AccountInv PROVE CollectedMeansInHistory
    <2>. SUFFICES ASSUME NEW w \in Writers, pc[w] = "done",
                         run[w].status \in Collected, NEW id \in Ids(run[w].batch)
                  PROVE  Holds(hist, id, run[w].batch[id][1])
      BY DEF CollectedMeansInHistory
    <2>1. run[w].batch \in Table
      BY <1>1 DEF TypeOK, RunState
    <2>2. id \in RowIds /\ 1 \in DOMAIN run[w].batch[id]
      BY <2>1 DEF Ids, Table
    <2>3. run[w].status \in Statuses
      BY DEF Collected, Statuses
    <2>4. hist[id] = <<run[w].batch[id][1]>>
      BY <1>1, <2>2, <2>3 DEF AccountInv, AccountInvOf, Landed
    <2>. QED
      BY <2>4 DEF Holds
  <1>. QED
    BY <1>1, NoDupInvariant, AccountInvariant, PTL

-----------------------------------------------------------------------------
(* The abstract log and its mirror.  The batch in flight is the plan of the  *)
(* one run that holds the history lock; a step of the pipeline is one of the *)
(* abstract specification, or none, according to what it does to the two     *)
(* stores and to that batch.                                                 *)

Pending == UNION {InFlight(w) : w \in Writers}

\* Labels at which the rows of a run are in flight.
Flying == Planned \ {"recheck"}

LEMMA InFlightOf ==
    ASSUME NEW w \in Writers, pc[w] \in Pc
    PROVE  InFlight(w) = IF pc[w] \in Flying THEN Ids(run[w].toWrite) ELSE {}
  BY DEF InFlight, Flying, Planned, HasRead, Locked, Pc

\* The run in its critical section is the only one with rows in flight.
LEMMA PendingOf ==
    ASSUME TypeOK, HistoryLockInv, NEW w \in Writers, pc[w] \in Locked
    PROVE  /\ Pending = InFlight(w)
           /\ \A u \in Writers \ {w} : InFlight(u) = {}
  <1>1. ASSUME NEW u \in Writers, u # w PROVE InFlight(u) = {}
    <2>1. pc[u] \notin Locked /\ pc[u] \in Pc
      BY <1>1 DEF HistoryLockInv, TypeOK
    <2>2. pc[u] \notin Flying
      BY <2>1 DEF Flying, Planned, HasRead
    <2>. QED
      BY <2>1, <2>2, InFlightOf
  <1>. QED
    BY <1>1 DEF Pending

\* A plan is made by ReadDb and not changed after that.
LEMMA PlanStep ==
    ASSUME TypeOK, TypeOK', NEW w \in Writers, JobStep(w), pc'[w] \in Flying
    PROVE  \/ ReadDb(w)
           \/ pc[w] \in Flying /\ run'[w].toWrite = run[w].toWrite
  <1>0. pc \in [Writers -> Pc] /\ run \in [Writers -> RunState]
    BY DEF TypeOK
  <1>. USE DEF Flying, Planned, HasRead, Locked, Goto, Preserve, Return
  <1>1. CASE \/ Begin(w) \/ AcquireHistoryLock(w) \/ ReadHistory(w)
             \/ Recheck(w) \/ Throw(w) \/ Release(w) \/ Crash(w) \/ Commit(w)
    BY <1>0, <1>1 DEF Begin, AcquireHistoryLock, ReadHistory, Recheck, Throw,
       Release, Crash, Commit
  <1>2. CASE LegacyCheck(w) \/ DbLock(w) \/ LegacyTake(w)
    BY <1>0, <1>2 DEF LegacyCheck, DbLock, LegacyTake, RunState
  <1>3. CASE AppendRead(w) \/ AppendRename(w) \/ AppendReturn(w)
    BY <1>0, <1>3 DEF AppendRead, AppendRename, AppendReturn, RunState
  <1>4. CASE LegacyUnlock(w) \/ LegacyRemove(w) \/ PrimitiveStep(w) \/ PrimitiveReturn(w)
    BY <1>0, <1>4 DEF LegacyUnlock, LegacyRemove, PrimitiveStep, PrimitiveReturn, RunState
  <1>5. CASE Derive(w) \/ Mirror(w)
    BY <1>0, <1>5 DEF Derive, Mirror, RunState
  <1>. QED
    BY <1>1, <1>2, <1>3, <1>4, <1>5 DEF JobStep, WriterStep, RunStep

\* What a step does to the batch in flight.
LEMMA PendingStep ==
    ASSUME TypeOK, TypeOK', HistoryLockInv, NEW w \in Writers, JobStep(w)
    PROVE  \/ Pending' \in {Pending, {}}
           \/ ReadDb(w) /\ Pending = {} /\ Pending' = InFlight(w)'
  <1>1. \A u \in Writers : u # w => InFlight(u)' = InFlight(u)
    BY OtherJobsUntouched DEF InFlight
  <1>0. pc[w] \in Pc /\ pc'[w] \in Pc
    BY DEF TypeOK
  <1>2. CASE InFlight(w)' = InFlight(w)
    BY <1>1, <1>2 DEF Pending
  <1>3. CASE InFlight(w) # {} /\ InFlight(w)' = {}
    <2>1. pc[w] \in Locked
      BY <1>0, <1>3, InFlightOf DEF Flying, Planned, HasRead
    <2>2. \A u \in Writers : InFlight(u)' = {}
      BY <1>1, <1>3, <2>1, PendingOf
    <2>. QED
      BY <2>2 DEF Pending
  <1>4. CASE InFlight(w)' # InFlight(w) /\ InFlight(w)' # {}
    <2>1. /\ pc'[w] \in Flying /\ InFlight(w)' = Ids(run[w].toWrite)'
      BY <1>0, <1>4 DEF InFlight, Flying, Planned, HasRead, Locked, Pc
    <2>2. ReadDb(w)
      <3>1. CASE pc[w] \in Flying /\ run'[w].toWrite = run[w].toWrite
        <4>1. InFlight(w) = Ids(run[w].toWrite)
          BY <1>0, <3>1, InFlightOf
        <4>. QED
          BY <1>4, <2>1, <3>1, <4>1 DEF Ids
      <3>. QED
        BY <2>1, <3>1, PlanStep
    <2>3. pc[w] \in Locked /\ InFlight(w) = {}
      BY <2>2 DEF ReadDb, InFlight, Locked, Pc
    <2>4. Pending = {} /\ \A u \in Writers : u # w => InFlight(u)' = {}
      BY <1>1, <2>3, PendingOf
    <2>. QED
      BY <2>2, <2>4 DEF Pending
  <1>. QED
    BY <1>2, <1>3, <1>4

\* What a commit finds and leaves.
LEMMA CommitFacts ==
    ASSUME TypeOK, TypeOK', HistoryLockInv, DbLockInv, DataInv,
           NEW w \in Writers, Commit(w)
    PROVE  /\ hist' = hist /\ dblock = w
           /\ Pending = Ids(run[w].toWrite) /\ Pending # {}
           /\ Pending \subseteq Ids(hist)
           /\ \A id \in Pending : db[id] = NoRow
           /\ db' = InsertRows(db, hist, Pending)
           /\ IsMirror(hist, db')
  <1>. DEFINE r == run[w]
  <1>1. pc[w] = "commit" /\ db' = Mirrored(r) /\ hist' = hist
    BY DEF Commit, raVars
  <1>2. /\ dblock = w /\ \A id \in AppendedIds(r) : db[id] = NoRow
        /\ hist = r.after /\ ~r.failed /\ ~Problems(r) /\ Ids(r.toWrite) # {}
        /\ MirrorExactMatch(r.after, Mirrored(r))
    BY <1>1 DEF DbLockInv, DataInv, DataInvOf, Planned, HasRead, Locked, Pc
  <1>3. AppendedIds(r) = Ids(r.toWrite) /\ AppendedIds(r) \subseteq Ids(hist)
        /\ ~HasDuplicates(hist)
    BY <1>2 DEF Problems, AppendedIds
  <1>4. Pending = Ids(r.toWrite)
    BY <1>1, PendingOf, InFlightOf DEF Flying, Planned, HasRead, Locked, Pc
  <1>5. IsMirror(hist, db')
    BY <1>1, <1>2, <1>3, ExactMatchIsMirror DEF TypeOK, RaTypeOK
  <1>. QED
    BY <1>1, <1>2, <1>3, <1>4, <1>5 DEF Mirrored

\* No scheduled job repairs the mirror: when one changes it, the mirror already
\* was exact in everything but the rows of that run.
THEOREM DegradedMirrorFrozen ==
    ASSUME Manual = {}
    PROVE  Spec => DegradedFreezesMirror
  <1>. DEFINE Frozen == dblock # OtherDb => ExactButInFlight
  <1>1. ASSUME TypeOK, TypeOK', HistoryLockInv, DbLockInv, DataInv,
               NEW w \in Writers, Commit(w)
        PROVE  ExactButInFlight
    <2>1. ASSUME NEW id \in RowIds \ Pending
          PROVE  hist[id] = IF db[id] = NoRow THEN <<>> ELSE <<db[id]>>
      <3>1. db'[id] = db[id]
        BY <1>1, <2>1, CommitFacts DEF InsertRows
      <3>. QED
        BY <1>1, <3>1, CommitFacts DEF IsMirror
    <2>. QED
      BY <2>1 DEF ExactButInFlight, Pending
  <1>2. ASSUME TypeOK, TypeOK', HistoryLockInv, DbLockInv, DataInv, [Next]_vars
        PROVE  [Frozen]_db
    <2>1. ASSUME NEW w \in Writers, JobStep(w) PROVE [Frozen]_db
      BY <1>1, <1>2, <2>1, JobEffects
    <2>2. CASE ~(\E w \in Writers : JobStep(w))
      BY <1>2, <2>2, OthersSteps DEF OtherDbEnd
    <2>. QED
      BY <2>1, <2>2
  <1>. QED
    BY <1>2, DataInvariant, PTL DEF DegradedFreezesMirror, Spec

\* Steps of the abstract log, from what they do to the stores and the batch.
LEMMA AbstractAccept ==
    ASSUME Pending = {}, Pending' \subseteq RowIds \ Ids(hist), Pending' # {},
           hist' = hist, db' = db
    PROVE  Abstract!Accept
  BY DEF Abstract!Accept, Abstract!Ids, Ids, Pending

LEMMA AbstractRecord ==
    ASSUME hist \in Table, hist' \in Table, hist' # hist, db' = db,
           Pending' = Pending,
           \A id \in RowIds : hist'[id] # hist[id] =>
               id \in Pending /\ hist[id] = <<>> /\ ~(Len(hist'[id]) > 1)
    PROVE  Abstract!Record
  <1>. DEFINE S == {id \in RowIds : hist'[id] # hist[id]}
              rows == [id \in S |-> hist'[id][1]]
  <1>1. S \in (SUBSET (Pending \ Ids(hist))) \ {{}}
    <2>1. S # {}
      BY DEF Table
    <2>. QED
      BY <2>1 DEF Ids
  <1>2. ASSUME NEW id \in S
        PROVE  hist'[id][1] \in Hashes /\ hist'[id] = <<hist'[id][1]>>
    <2>1. hist'[id] \in Seq(Hashes) /\ hist'[id] # <<>> /\ ~(Len(hist'[id]) > 1)
      BY DEF Table
    <2>. QED
      BY <2>1, Singleton
  <1>3. rows \in [S -> Hashes]
    BY <1>2
  <1>4. hist' = [id \in RowIds |-> IF id \in S THEN <<rows[id]>> ELSE hist[id]]
    BY <1>2 DEF Table
  <1>5. (UNION {InFlight(w) : w \in Writers})' = UNION {InFlight(w) : w \in Writers}
    BY DEF Pending
  <1>6. S \in (SUBSET ((UNION {InFlight(w) : w \in Writers}) \ Abstract!Ids(hist)))
               \ {{}}
    BY <1>1 DEF Pending, Ids, Abstract!Ids
  <1>. HIDE DEF S, rows
  <1>. QED
    BY <1>3, <1>4, <1>5, <1>6 DEF Abstract!Record

LEMMA AbstractUndo ==
    ASSUME hist \in Table, hist' \in Table, hist' # hist, db' = db,
           Pending' = Pending,
           \A id \in RowIds : hist'[id] # hist[id] =>
               id \in Pending /\ hist[id] # <<>> /\ hist'[id] = <<>>
    PROVE  Abstract!Undo
  <1>. DEFINE S == {id \in RowIds : hist'[id] # hist[id]}
  <1>1. S \in (SUBSET (Pending \cap Ids(hist))) \ {{}}
    <2>1. S # {}
      BY DEF Table
    <2>. QED
      BY <2>1 DEF Ids
  <1>2. hist' = Abstract!OnlyIds(hist, RowIds \ S)
    BY DEF Table, Abstract!OnlyIds
  <1>3. (UNION {InFlight(w) : w \in Writers})' = UNION {InFlight(w) : w \in Writers}
    BY DEF Pending
  <1>4. S \in (SUBSET ((UNION {InFlight(w) : w \in Writers})
                       \cap Abstract!Ids(hist))) \ {{}}
    BY <1>1 DEF Pending, Ids, Abstract!Ids
  <1>. HIDE DEF S
  <1>. QED
    BY <1>2, <1>3, <1>4 DEF Abstract!Undo

LEMMA AbstractPublish ==
    ASSUME hist \in Table, db \in Database, Pending # {}, Pending' = {},
           Pending \subseteq Ids(hist), \A id \in Pending : db[id] = NoRow,
           hist' = hist, db' = InsertRows(db, hist, Pending), IsMirror(hist, db')
    PROVE  Abstract!Publish
  <1>1. \A id \in RowIds : db'[id] = IF id \in Pending THEN RowOf(hist, id)
                                                       ELSE db[id]
    BY DEF InsertRows
  <1>2. Stored(db) = Ids(hist) \ Pending
    <2>1. ASSUME NEW id \in RowIds
          PROVE  db[id] # NoRow <=> hist[id] # <<>> /\ id \notin Pending
      <3>1. CASE id \in Pending
        BY <3>1
      <3>2. CASE id \notin Pending
        <4>1. hist[id] = IF db[id] = NoRow THEN <<>> ELSE <<db[id]>>
          BY <1>1, <3>2 DEF IsMirror
        <4>. QED
          BY <3>2, <4>1
      <3>. QED
        BY <3>1, <3>2
    <2>. QED
      BY <2>1 DEF Stored, Ids
  <1>3. \A id \in Stored(db) : hist[id] = <<db[id]>>
    BY <1>1 DEF Stored, IsMirror
  <1>4. db' = Abstract!InsertRows(db, hist, Pending)
    BY DEF InsertRows, RowOf, Abstract!InsertRows, Abstract!RowOf
  <1>. QED
    BY <1>2, <1>3, <1>4
       DEF Abstract!Publish, Abstract!Stored, Abstract!Ids, Stored, Ids, Pending

LEMMA AbstractSettle ==
    ASSUME hist' = hist, db' = db, Pending' \in {Pending, {}}
    PROVE  [Abstract!LogNext]_(Abstract!avars)
  <1>1. CASE Pending' = Pending
    BY <1>1 DEF Abstract!avars, Pending
  <1>2. CASE Pending # {} /\ Pending' = {}
    BY <1>2 DEF Abstract!LogNext, Abstract!Settle, Pending
  <1>. QED
    BY <1>1, <1>2

\* Where the rows of runs in progress stand, with single lines.
SingleRows ==
    \A v \in Writers : pc[v] \in HasRead => \A id \in RowIds :
        /\ run[v].before[id] # <<>> => hist[id] = run[v].before[id]
        /\ run[v].before[id] = <<>> => hist[id] \in {<<>>, run[v].toWrite[id]}
        /\ ~(Len(hist[id]) > 1)

LEMMA SingleRowsHold == TypeOK /\ DataInv /\ ReadSingle => SingleRows
  BY SingleResult DEF DataInv, ReadSingle, SingleRows

\* A step that writes history keeps the batch in flight and the database.
LEMMA WriteFrame ==
    ASSUME TypeOK, HistoryLockInv, NEW w \in Writers, JobStep(w), hist' # hist
    PROVE  /\ Pending = Ids(run[w].toWrite) /\ Pending' = Pending /\ db' = db
           /\ run'[w].before = run[w].before
           /\ run'[w].toWrite = run[w].toWrite
  <1>0. run \in [Writers -> RunState] /\ pc \in [Writers -> Pc]
    BY DEF TypeOK
  <1>1. AppendRename(w) \/ PrimitiveStep(w)
    BY HistoryWrites
  <1>2. /\ pc[w] \in {"rename", "primitive"} /\ pc'[w] \in {"append", "primitive"}
        /\ run'[w].before = run[w].before /\ run'[w].toWrite = run[w].toWrite
        /\ db' = db
    BY <1>0, <1>1 DEF AppendRename, PrimitiveStep, Goto, RunState
  <1>3. InFlight(w) = Ids(run[w].toWrite) /\ InFlight(w)' = InFlight(w)
    BY <1>2 DEF InFlight, Ids
  <1>4. \A u \in Writers : InFlight(u)' = InFlight(u)
    BY <1>3, OtherJobsUntouched DEF InFlight
  <1>5. Pending = InFlight(w)
    BY <1>2, PendingOf DEF Locked, Pc
  <1>. QED
    BY <1>2, <1>3, <1>4, <1>5 DEF Pending

\* An append adds lines of the batch, a rollback takes them away again.
LEMMA WriteRefines ==
    ASSUME TypeOK, TypeOK', HistoryLockInv, DataInv, SingleRows, SingleRows',
           NEW w \in Writers, JobStep(w), hist' # hist
    PROVE  Abstract!Record \/ Abstract!Undo
  <1>. DEFINE before == run[w].before
              rows == run[w].toWrite
  <1>1. /\ hist \in Table /\ hist' \in Table /\ before \in Table /\ rows \in Table
        /\ pc[w] \in HasRead /\ pc'[w] \in HasRead
        /\ AppendRename(w) \/ PrimitiveStep(w)
    BY HistoryWrites DEF TypeOK, RaTypeOK, RunState
  <1>2. /\ Pending = Ids(rows) /\ Pending' = Pending /\ db' = db
        /\ run'[w].before = before /\ run'[w].toWrite = rows
    BY WriteFrame
  <1>3. ASSUME NEW id \in RowIds, hist'[id] # hist[id]
        PROVE  /\ before[id] = <<>> /\ id \in Pending
               /\ hist[id] \in {<<>>, rows[id]} /\ hist'[id] \in {<<>>, rows[id]}
               /\ ~(Len(hist'[id]) > 1)
    <2>1. /\ before[id] # <<>> => hist[id] = before[id]
          /\ before[id] = <<>> => hist[id] \in {<<>>, rows[id]}
      BY <1>1 DEF SingleRows
    <2>2. /\ before[id] # <<>> => hist'[id] = before[id]
          /\ before[id] = <<>> => hist'[id] \in {<<>>, rows[id]}
          /\ ~(Len(hist'[id]) > 1)
      BY <1>1, <1>2 DEF SingleRows
    <2>. QED
      BY <1>2, <1>3, <2>1, <2>2 DEF Ids
  <1>. DEFINE Added == \A id \in RowIds : hist'[id] # hist[id] => hist[id] = <<>>
              Removed == \A id \in RowIds : hist'[id] # hist[id] => hist'[id] = <<>>
  <1>4. Added => Abstract!Record
    BY <1>1, <1>2, <1>3, AbstractRecord
  <1>5. Removed => Abstract!Undo
    BY <1>1, <1>2, <1>3, AbstractUndo
  <1>6. CASE AppendRename(w)
    <2>1. /\ hist' = PutShards(hist, AppendLines(run[w].buf, rows), {run[w].reading})
          /\ run[w].buf = hist
      BY <1>6 DEF AppendRename, DataInv, DataInvOf, LegacyData
    <2>2. ASSUME NEW id \in RowIds, hist'[id] # hist[id] PROVE hist[id] = <<>>
      <3>1. hist'[id] = hist[id] \o rows[id]
        BY <2>1, <2>2 DEF PutShards, AppendLines
      <3>2. hist[id] \in Seq(Hashes) /\ rows[id] \in Seq(Hashes)
        BY <1>1 DEF Table
      <3>3. hist[id] # <<>> => hist[id] \o rows[id] # <<>>
        BY <3>2
      <3>. QED
        BY <1>3, <2>2, <3>1, <3>3
    <2>. QED
      BY <1>4, <2>2
  <1>7. CASE PrimitiveStep(w)
    <2>1. /\ pc[w] = "primitive" /\ RaStep(w) /\ PrimitiveData(w)
      BY <1>7 DEF PrimitiveStep, DataInv, DataInvOf
    <2>2. CASE RaWriteShard(w)
      <3>1. PICK s \in ra[w].todo :
                ra[w].pc = "write" /\ hist' = PutShards(hist, ra[w].merged, {s})
        BY <2>2 DEF RaWriteShard
      <3>2. ASSUME NEW id \in RowIds, hist'[id] # hist[id] PROVE hist[id] = <<>>
        <4>1. before[id] = <<>> /\ hist[id] \in {<<>>, rows[id]}
          BY <1>3, <3>2
        <4>2. hist'[id] = ra[w].merged[id]
          BY <3>1, <3>2 DEF PutShards
        <4>3. ra[w].merged[id] = rows[id]
          BY <2>1, <3>1, <4>1 DEF PrimitiveData
        <4>. QED
          BY <3>2, <4>1, <4>2, <4>3
      <3>. QED
        BY <1>4, <3>2
    <2>3. CASE RaRollback(w)
      <3>1. PICK S : ra[w].pc = "write" /\ hist' = PutShards(hist, ra[w].backup, S)
        BY <2>3 DEF RaRollback
      <3>2. ASSUME NEW id \in RowIds, hist'[id] # hist[id] PROVE hist'[id] = <<>>
        <4>1. before[id] = <<>>
          BY <1>3, <3>2
        <4>2. hist'[id] = ra[w].backup[id]
          BY <3>1, <3>2 DEF PutShards
        <4>3. ra[w].backup = PutShards(EmptyTable, before, ra[w].undo)
          BY <2>1, <3>1 DEF PrimitiveData
        <4>4. ra[w].backup[id] = <<>>
          BY <4>1, <4>3 DEF PutShards, EmptyTable
        <4>. QED
          BY <4>2, <4>4
      <3>. QED
        BY <1>5, <3>2
    <2>. QED
      BY <2>1, <2>2, <2>3
         DEF RaStep, RaCheckLock, RaReclaim, RaTakeLock, RaRead, RaThrow, RaFinish
  <1>. QED
    BY <1>1, <1>6, <1>7

\* A plan is made of rows that history does not have.
LEMMA PlanIsNew ==
    ASSUME TypeOK, TypeOK', DataInv, DataInv', NEW w \in Writers, ReadDb(w)
    PROVE  InFlight(w)' \subseteq RowIds \ Ids(hist)
  <1>. SUFFICES ASSUME InFlight(w)' # {}
                PROVE  InFlight(w)' \subseteq RowIds \ Ids(hist)
    OBVIOUS
  <1>1. pc[w] = "readDb" /\ hist = run[w].before /\ JobStep(w)
    BY DEF ReadDb, DataInv, DataInvOf, JobStep, WriterStep, RunStep
  <1>2. /\ pc'[w] \in Planned
        /\ InFlight(w)' = {id \in RowIds : run'[w].toWrite[id] # <<>>}
    BY DEF InFlight, Ids, TypeOK, Planned, HasRead, Locked, Pc
  <1>3. run'[w].before = hist
    BY <1>1, <1>2, BeforeStep DEF Planned
  <1>4. run'[w].toWrite = ToWrite(run'[w])
    BY <1>2 DEF DataInv, DataInvOf
  <1>5. \A id \in RowIds : run'[w].toWrite[id] # <<>> => hist[id] = <<>>
    BY <1>3, <1>4 DEF ToWrite, OnlyIds, Ids
  <1>. QED
    BY <1>2, <1>5 DEF Ids

\* The invariants a step of the pipeline needs to be one of the abstract log.
RefinementInv ==
    /\ TypeOK /\ HistoryLockInv /\ DbLockInv /\ DataInv /\ SingleRows
    /\ dblock # OtherDb

LEMMA JobRefines ==
    ASSUME RefinementInv, RefinementInv', NEW w \in Writers, JobStep(w)
    PROVE  [Abstract!LogNext]_(Abstract!avars)
  <1>. USE DEF RefinementInv
  <1>1. CASE hist' # hist
    BY <1>1, WriteRefines DEF Abstract!LogNext
  <1>2. CASE Commit(w)
    <2>1. /\ hist' = hist /\ Pending # {} /\ Pending \subseteq Ids(hist)
          /\ Pending = Ids(run[w].toWrite)
          /\ \A id \in Pending : db[id] = NoRow
          /\ db' = InsertRows(db, hist, Pending) /\ IsMirror(hist, db')
      BY <1>2, CommitFacts
    <2>2. Pending' = {}
      <3>1. pc'[w] = "recheck" /\ pc[w] = "commit"
        BY <1>2 DEF Commit, Goto, TypeOK
      <3>2. \A u \in Writers : InFlight(u)' = {}
        <4>1. \A u \in Writers \ {w} : InFlight(u) = {}
          BY <3>1, PendingOf DEF Locked, Pc
        <4>2. \A u \in Writers \ {w} : InFlight(u)' = InFlight(u)
          BY OtherJobsUntouched DEF InFlight
        <4>. QED
          BY <3>1, <4>1, <4>2 DEF InFlight
      <3>. QED
        BY <3>2 DEF Pending
    <2>3. hist \in Table /\ db \in Database
      BY DEF TypeOK, RaTypeOK
    <2>. QED
      BY <2>1, <2>2, <2>3, AbstractPublish DEF Abstract!LogNext
  <1>3. CASE hist' = hist /\ ~Commit(w)
    <2>1. db' = db
      BY <1>3, JobEffects
    <2>2. CASE Pending' \in {Pending, {}}
      BY <1>3, <2>1, <2>2, AbstractSettle
    <2>3. CASE ReadDb(w) /\ Pending = {} /\ Pending' = InFlight(w)' /\ Pending' # {}
      <3>1. InFlight(w)' \subseteq RowIds \ Ids(hist)
        BY <2>3, PlanIsNew
      <3>. QED
        BY <1>3, <2>1, <2>3, <3>1, AbstractAccept DEF Abstract!LogNext
    <2>. QED
      BY <2>2, <2>3, PendingStep
  <1>. QED
    BY <1>1, <1>2, <1>3

\* The scheduled jobs implement the abstract append-only log with its mirror:
\* whatever they do in parallel, fail at or die of, an observer of history, the
\* database and the batch in flight sees rows of one batch enter, a failed batch
\* undone, and a whole batch published or settled unpublished.
THEOREM JobsImplementAppendOnlyMirror ==
    ASSUME Manual = {}, ~OtherDbActive, SingleLined
    PROVE  Spec => ImplementsAppendOnlyMirror
  <1>1. Init => Abstract!LogInit
    <2>. SUFFICES ASSUME Init PROVE Abstract!LogInit
      OBVIOUS
    <2>1. hist \in Table /\ db \in Database
      BY InitType DEF TypeOK, RaTypeOK
    <2>2. \A w \in Writers : InFlight(w) = {}
      BY DEF Init, InFlight
    <2>. QED
      BY <2>1, <2>2 DEF Abstract!LogInit, Table, Database,
         Abstract!Table, Abstract!Database
  <1>2. ASSUME RefinementInv, RefinementInv', [Next]_vars
        PROVE  [Abstract!LogNext]_(Abstract!avars)
    <2>1. ASSUME NEW w \in Writers, JobStep(w)
          PROVE  [Abstract!LogNext]_(Abstract!avars)
      BY <1>2, <2>1, JobRefines
    <2>2. CASE ~(\E w \in Writers : JobStep(w))
      <3>1. UNCHANGED <<pc, run, hist, db>>
        BY <1>2, <2>2, OthersSteps DEF OtherDbEnd, RefinementInv
      <3>2. Pending' = Pending
        BY <3>1 DEF Pending, InFlight, Ids
      <3>. QED
        BY <3>1, <3>2, AbstractSettle
    <2>. QED
      BY <2>1, <2>2
  <1>3. /\ TypeOK /\ HistoryLockInv /\ DataInv /\ NoDupInv
        /\ DbLockInv /\ MirrorInv
        => RefinementInv
    BY SingleRowsHold DEF RefinementInv, NoDupInv, MirrorInv
  <1>. QED
    BY <1>1, <1>2, <1>3, NoDupInvariant, MirrorInvariant, PTL
       DEF Spec, ImplementsAppendOnlyMirror, Abstract!LogSpec

-----------------------------------------------------------------------------
(* The lock file .append.lock.  Among scheduled jobs it follows the history  *)
(* lock: the run in its critical section found no lock file before it made   *)
(* its own, so one that was left behind is never reclaimed.                  *)

\* The steps of a job that touch the lock file.
LEMMA LockFileSteps ==
    ASSUME NEW w \in Writers, JobStep(w), alock' # alock
    PROVE  \/ LegacyTake(w) /\ alock = NoProc
           \/ LegacyRemove(w)
           \/ PrimitiveStep(w)
  BY DEF JobStep, Begin, WriterStep, RunStep, AcquireHistoryLock, ReadHistory,
     ReadDb, LegacyCheck, DbLock, EnterAppend, RaStart, LegacyTake, AppendRead,
     AppendRename, AppendReturn, LegacyUnlock, LegacyRemove, PrimitiveReturn, Derive, Mirror,
     Commit, Recheck, Throw, Release, Crash, raVars, files

AppendLockInvOf(v) ==
    /\ pc[v] \in {"dbLock", "legacyTake"} => alock = NoProc
    /\ pc[v] \in {"append", "rename", "unlink"} => alock = v
    /\ pc[v] = "primitive" =>
           /\ ra[v].pc # "reclaim"
           /\ ra[v].pc \in {"check", "take"} => alock = NoProc
           /\ ra[v].pc \in {"read", "write"} => alock = v

AppendLockInv == \A v \in Writers : AppendLockInvOf(v)

LEMMA EnterAppendLock ==
    ASSUME TypeOK, NEW v \in Writers, EnterAppend(v), alock = NoProc
    PROVE  AppendLockInvOf(v)'
  <1>1. v \in Procs
    BY WriterAssumption
  <1>2. CASE v \in HoldsLegacy
    BY <1>2 DEF EnterAppend, AppendEntry, AppendLockInvOf, Goto, raVars, TypeOK
  <1>3. CASE v \notin HoldsLegacy
    <2>1. pc'[v] = "primitive" /\ ra'[v].pc = "check" /\ alock' = NoProc
      BY <1>1, <1>3 DEF EnterAppend, AppendEntry, RaStart, RaIdle, Goto,
         TypeOK, RaTypeOK
    <2>. QED
      BY <2>1 DEF AppendLockInvOf
  <1>. QED
    BY <1>2, <1>3

LEMMA PrimitiveLock ==
    ASSUME TypeOK, NEW v \in Writers, AppendLockInvOf(v), PrimitiveStep(v)
    PROVE  AppendLockInvOf(v)'
  <1>1. /\ v \in Procs /\ ra \in [Procs -> RaState] /\ RaStep(v)
        /\ pc[v] = "primitive" /\ pc' = pc
    BY WriterAssumption DEF PrimitiveStep, TypeOK, RaTypeOK
  <1>2. /\ ra[v].pc # "reclaim"
        /\ ra[v].pc \in {"check", "take"} => alock = NoProc
        /\ ra[v].pc \in {"read", "write"} => alock = v
    BY <1>1 DEF AppendLockInvOf
  <1>3. ASSUME NEW d, RaReturn(v, d) PROVE ra'[v].pc = "returned"
    BY <1>1, <1>3 DEF RaReturn, RaIdle
  <1>4. \/ ra'[v].pc = "returned"
        \/ ra'[v].pc = "take" /\ alock' = NoProc
        \/ ra'[v].pc \in {"read", "write"} /\ alock' = v
    <2>1. CASE RaCheckLock(v) \/ RaReclaim(v) \/ RaTakeLock(v)
      BY <1>1, <1>2, <1>3, <2>1 DEF RaCheckLock, RaReclaim, RaTakeLock, RaState
    <2>2. CASE RaRead(v)
      BY <1>1, <1>2, <1>3, <2>2 DEF RaRead, RaState
    <2>3. CASE RaWriteShard(v)
      BY <1>1, <1>2, <2>3 DEF RaWriteShard, RaState
    <2>4. CASE RaRollback(v) \/ RaThrow(v) \/ RaFinish(v)
      BY <1>3, <2>4 DEF RaRollback, RaThrow, RaFinish
    <2>. QED
      BY <1>1, <2>1, <2>2, <2>3, <2>4 DEF RaStep
  <1>. QED
    BY <1>1, <1>4 DEF AppendLockInvOf

LEMMA AppendLockOwnStep ==
    ASSUME TypeOK, NEW v \in Writers, AppendLockInvOf(v), JobStep(v)
    PROVE  AppendLockInvOf(v)'
  <1>0. pc \in [Writers -> Pc]
    BY DEF TypeOK
  <1>. USE <1>0 DEF Goto, Preserve, Return
  <1>1. CASE EnterAppend(v) /\ (LegacyCheck(v) \/ DbLock(v))
    BY <1>1, EnterAppendLock DEF LegacyCheck, DbLock, AppendLockInvOf
  <1>2. CASE PrimitiveStep(v)
    BY <1>2, PrimitiveLock
  <1>3. CASE Begin(v) \/ AcquireHistoryLock(v) \/ ReadHistory(v) \/ ReadDb(v)
    <2>1. pc'[v] \in {"lock", "readHistory", "readDb", "legacyCheck", "release"}
      BY <1>3 DEF Begin, AcquireHistoryLock, ReadHistory, ReadDb
    <2>. QED
      BY <2>1 DEF AppendLockInvOf
  <1>4. CASE (LegacyCheck(v) \/ DbLock(v)) /\ ~EnterAppend(v)
    <2>1. \/ pc'[v] = "release"
          \/ pc'[v] = "dbLock" /\ alock' = NoProc
      BY <1>4 DEF LegacyCheck, DbLock, raVars
    <2>. QED
      BY <2>1 DEF AppendLockInvOf
  <1>5. CASE LegacyTake(v)
    <2>1. \/ Goto(v, "append") /\ alock' = v
          \/ Goto(v, "release")
      BY <1>5 DEF LegacyTake
    <2>2. \/ pc'[v] = "release"
          \/ pc'[v] = "append" /\ alock' = v
      BY <2>1
    <2>. QED
      BY <2>2 DEF AppendLockInvOf
  <1>6. CASE AppendRead(v) \/ AppendRename(v)
    <2>1. pc'[v] \in {"append", "rename"} /\ alock' = v
      BY <1>6 DEF AppendRead, AppendRename, AppendLockInvOf, raVars
    <2>. QED
      BY <2>1 DEF AppendLockInvOf
  <1>7. CASE LegacyUnlock(v)
    <2>1. \/ pc'[v] = "derive"
          \/ pc'[v] = "unlink" /\ alock' = v
      BY <1>7 DEF LegacyUnlock, raVars
    <2>. QED
      BY <2>1 DEF AppendLockInvOf
  <1>8. CASE \/ AppendReturn(v) \/ LegacyRemove(v) \/ PrimitiveReturn(v)
             \/ Derive(v) \/ Mirror(v) \/ Commit(v) \/ Recheck(v) \/ Throw(v)
             \/ Release(v) \/ Crash(v)
    <2>1. pc'[v] \in {"unlock", "derive", "mirror", "commit", "recheck",
                      "release", "done", "idle"}
      BY <1>8 DEF AppendReturn, LegacyRemove, PrimitiveReturn, Derive, Mirror,
         Commit, Recheck, Throw, Release, Crash
    <2>. QED
      BY <2>1 DEF AppendLockInvOf
  <1>. QED
    BY <1>1, <1>2, <1>3, <1>4, <1>5, <1>6, <1>7, <1>8 DEF JobStep, WriterStep, RunStep

LEMMA AppendLockStep ==
    ASSUME Manual = {}, TypeOK, HistoryLockInv, AppendLockInv, [Next]_vars
    PROVE  AppendLockInv'
  <1>. SUFFICES ASSUME NEW v \in Writers PROVE AppendLockInvOf(v)'
    BY DEF AppendLockInv
  <1>0. AppendLockInvOf(v) /\ v # NoProc
    BY WriterAssumption, ProcAssumption DEF AppendLockInv
  <1>1. ASSUME pc'[v] = pc[v], ra'[v] = ra[v], alock' = alock
        PROVE  AppendLockInvOf(v)'
    BY <1>0, <1>1 DEF AppendLockInvOf
  <1>2. CASE JobStep(v)
    BY <1>0, <1>2, AppendLockOwnStep
  <1>3. ASSUME NEW w \in Writers, JobStep(w), w # v PROVE AppendLockInvOf(v)'
    <2>1. pc'[v] = pc[v] /\ ra'[v] = ra[v]
      BY <1>3, OtherJobsUntouched
    <2>2. CASE alock' = alock
      BY <1>1, <2>1, <2>2
    <2>3. CASE alock' # alock
      <3>1. pc[w] \in Locked
        BY <1>3, <2>3, LockFileSteps
           DEF LegacyTake, LegacyRemove, PrimitiveStep, Locked, Pc
      <3>2. pc[v] \notin Locked /\ pc[v] \in Pc
        BY <1>3, <3>1 DEF HistoryLockInv, TypeOK
      <3>. QED
        BY <2>1, <3>2 DEF AppendLockInvOf, Locked, Pc
    <2>. QED
      BY <2>2, <2>3
  <1>4. CASE ~(\E w \in Writers : JobStep(w))
    <2>1. pc'[v] = pc[v] /\ ra'[v] = ra[v]
      BY <1>4, OthersSteps
    <2>2. CASE OperatorRemovesLock
      <3>1. alock # v \/ ~Running(v)
        BY <2>2 DEF OperatorRemovesLock, Alive
      <3>2. Running(v) => ~(pc[v] \in {"append", "rename", "unlink"})
                          /\ ~(pc[v] = "primitive" /\ ra[v].pc \in {"read", "write"})
        BY <1>0, <3>1 DEF AppendLockInvOf
      <3>3. ~Running(v) => pc[v] \in {"idle", "done"}
        BY DEF Running
      <3>4. alock' = NoProc
        BY <2>2 DEF OperatorRemovesLock, RemoveLockFile
      <3>. QED
        BY <1>0, <2>1, <3>2, <3>3, <3>4 DEF AppendLockInvOf
    <2>3. CASE ~OperatorRemovesLock
      <3>1. alock' = alock
        BY <1>4, <2>3 DEF Next, JobStep, Environment, AgeLock, OtherDbBegin,
           OtherDbEnd, vars, raVars
      <3>. QED
        BY <1>1, <2>1, <3>1
    <2>. QED
      BY <2>2, <2>3
  <1>. QED
    BY <1>2, <1>3, <1>4

\* A lock file whose process is gone stops every scheduled append, however old
\* it is, and only the operator takes it away: no job reclaims it by age.
THEOREM LeftoverLockStops ==
    ASSUME Manual = {}
    PROVE  Spec => LeftoverLockBlocks
  <1>. DEFINE Blocks == alock # NoProc /\ ~Alive(alock) =>
                            hist' = hist /\ pc' = pc /\ ra' = ra
  <1>1. Init => AppendLockInv
    BY DEF Init, AppendLockInv, AppendLockInvOf
  <1>2. ASSUME AppendLockInv, NEW w \in Writers, JobStep(w),
               alock # NoProc, ~Alive(alock)
        PROVE  hist' = hist /\ alock' = alock
    <2>1. AppendLockInvOf(w)
      BY <1>2 DEF AppendLockInv
    <2>2. alock # w \/ pc[w] \in {"idle", "done"}
      BY <1>2 DEF Alive, Running
    <2>3. CASE PrimitiveStep(w)
      <3>1. pc[w] = "primitive" /\ ra[w].pc \notin {"take", "reclaim", "read", "write"}
        BY <1>2, <2>1, <2>2, <2>3 DEF PrimitiveStep, AppendLockInvOf
      <3>2. RaStep(w)
        BY <2>3 DEF PrimitiveStep
      <3>. QED
        BY <3>1, <3>2 DEF RaStep, RaCheckLock, RaReclaim, RaTakeLock, RaRead,
           RaWriteShard, RaRollback, RaThrow, RaFinish
    <2>4. CASE ~PrimitiveStep(w)
      <3>1. alock' = alock
        BY <1>2, <2>1, <2>2, <2>4, LockFileSteps DEF LegacyRemove, AppendLockInvOf
      <3>2. ~AppendRename(w)
        BY <2>1, <2>2 DEF AppendRename, AppendLockInvOf
      <3>3. hist' = hist
        BY <1>2, <2>4, <3>2 DEF JobStep, Begin, WriterStep, RunStep,
           AcquireHistoryLock, ReadHistory, ReadDb, LegacyCheck, DbLock,
           EnterAppend, RaStart, LegacyTake, AppendRead, AppendReturn,
           LegacyUnlock, LegacyRemove, PrimitiveReturn, Derive, Mirror, Commit, Recheck,
           Throw, Release, Crash, raVars, files
      <3>. QED
        BY <3>1, <3>3
    <2>. QED
      BY <2>3, <2>4
  <1>3. ASSUME AppendLockInv, [Next]_vars PROVE [Blocks]_<<hist, alock>>
    <2>1. CASE \E w \in Writers : JobStep(w)
      BY <1>2, <1>3, <2>1
    <2>2. CASE ~(\E w \in Writers : JobStep(w))
      BY <1>3, <2>2 DEF Next, JobStep, Environment, AgeLock,
         OperatorRemovesLock, OtherDbBegin, OtherDbEnd, vars, raVars
    <2>. QED
      BY <2>1, <2>2
  <1>4. TypeOK /\ HistoryLockInv /\ AppendLockInv /\ [Next]_vars => AppendLockInv'
    BY AppendLockStep
  <1>. QED
    BY <1>1, <1>3, <1>4, LockInvariants, PTL DEF LeftoverLockBlocks, Spec

-----------------------------------------------------------------------------
(* The database under a run that will mirror.                                *)

SeenInvOf(v) ==
    Normal(v) /\ pc[v] \in Appending \cup {"mirror", "commit"}
        => db = run[v].seen

SeenInv == \A v \in Writers : SeenInvOf(v)

LEMMA SeenOwnStep ==
    ASSUME TypeOK, SeenInv, NEW v \in Writers, JobStep(v)
    PROVE  SeenInvOf(v)'
  <1>. USE DEF SeenInvOf, Appending, Goto, TypeOK
  <1>1. ASSUME pc'[v] \notin Appending \cup {"mirror", "commit"}
        PROVE  SeenInvOf(v)'
    BY <1>1
  <1>2. CASE \/ Begin(v) \/ AcquireHistoryLock(v) \/ ReadHistory(v)
             \/ ReadDb(v) \/ Commit(v) \/ Recheck(v) \/ Throw(v)
             \/ Release(v) \/ Crash(v)
    BY <1>1, <1>2 DEF Begin, AcquireHistoryLock, ReadHistory, ReadDb, Commit,
       Recheck, Throw, Release, Crash, Preserve, Return
  <1>3. CASE LegacyCheck(v)
    <2>1. CASE pc'[v] \in {"release", "dbLock"}
      BY <1>1, <2>1
    <2>2. CASE run' = run /\ ~Normal(v)
      BY <2>2, NormalKept
    <2>. QED
      BY <1>3, <2>1, <2>2 DEF LegacyCheck, Preserve
  <1>4. CASE DbLock(v)
    <2>1. CASE pc'[v] = "release"
      BY <1>1, <2>1
    <2>2. CASE db = run[v].seen /\ run' = run /\ db' = db
      BY <2>2
    <2>. QED
      BY <1>4, <2>1, <2>2 DEF DbLock, Preserve
  <1>5. ASSUME pc[v] \in Appending \cup {"mirror", "commit"}, db' = db,
               run'[v].before = run[v].before, run'[v].seen = run[v].seen
        PROVE  SeenInvOf(v)'
    BY <1>5, NormalKept DEF SeenInv
  <1>6. CASE LegacyTake(v)
    BY <1>1, <1>5, <1>6 DEF LegacyTake, Preserve, locks, RunState
  <1>7. CASE AppendRead(v) \/ AppendRename(v) \/ AppendReturn(v)
    BY <1>5, <1>7 DEF AppendRead, AppendRename, AppendReturn, locks, RunState
  <1>8. CASE \/ LegacyUnlock(v) \/ LegacyRemove(v) \/ PrimitiveStep(v)
             \/ PrimitiveReturn(v)
    BY <1>5, <1>8 DEF LegacyUnlock, LegacyRemove, PrimitiveStep,
       PrimitiveReturn, locks, RunState
  <1>9. CASE Derive(v)
    <2>1. CASE pc'[v] = "release"
      BY <1>1, <2>1
    <2>2. CASE run' = [run EXCEPT ![v] = [run[v] EXCEPT !.after = hist]]
      BY <1>5, <1>9, <2>2 DEF Derive, locks, RunState
    <2>. QED
      BY <1>9, <2>1, <2>2 DEF Derive, Return
  <1>10. CASE Mirror(v)
    <2>1. CASE pc'[v] = "release"
      BY <1>1, <2>1
    <2>2. CASE run' = run /\ db' = db
      BY <1>5, <1>10, <2>2 DEF Mirror
    <2>. QED
      BY <1>10, <2>1, <2>2 DEF Mirror, Return
  <1>. QED
    BY <1>2, <1>3, <1>4, <1>6, <1>7, <1>8, <1>9, <1>10
       DEF JobStep, WriterStep, RunStep

\* A run that mirrors works, from its append to its commit, on a database that
\* is still the exact mirror it classified, under the write lock it holds,
\* manual scripts and other programs that write the database included.
THEOREM AppendsUnderVerdict == Spec => []AppendsFromExactMirror
  <1>1. Init => SeenInv
    BY DEF Init, SeenInv, SeenInvOf, Appending
  <1>2. ASSUME TypeOK, DbLockInv, SeenInv, [Next]_vars
        PROVE  SeenInv'
    <2>. SUFFICES ASSUME NEW v \in Writers PROVE SeenInvOf(v)'
      BY DEF SeenInv
    <2>0. v # OtherDb /\ v # NoProc /\ SeenInvOf(v)
      BY <1>2, WriterAssumption, ProcAssumption DEF SeenInv
    <2>1. ASSUME pc'[v] = pc[v], run'[v] = run[v], dblock = v => db' = db
          PROVE  SeenInvOf(v)'
      <3>1. Normal(v)' <=> Normal(v)
        BY <2>1, NormalKept
      <3>2. Normal(v) /\ pc[v] \in Appending \cup {"mirror", "commit"}
                => dblock = v
        BY <1>2 DEF DbLockInv
      <3>. QED
        BY <2>0, <2>1, <3>1, <3>2 DEF SeenInvOf
    <2>2. CASE JobStep(v)
      BY <1>2, <2>2, SeenOwnStep
    <2>3. ASSUME NEW w \in Writers, JobStep(w), w # v PROVE SeenInvOf(v)'
      <3>1. pc'[v] = pc[v] /\ run'[v] = run[v]
        BY <1>2, <2>3, OtherJobsUntouched
      <3>2. pc[w] \in {"mirror", "commit"} => dblock = w
        BY <1>2 DEF DbLockInv
      <3>3. dblock = v => db' = db
        BY <2>3, <3>2, JobEffects DEF Commit
      <3>. QED
        BY <2>1, <3>1, <3>3
    <2>4. CASE ~(\E w \in Writers : JobStep(w))
      BY <1>2, <2>0, <2>1, <2>4, OthersSteps DEF OtherDbEnd
    <2>. QED
      BY <2>2, <2>3, <2>4
  <1>3. ASSUME TypeOK, DbLockInv, SeenInv PROVE AppendsFromExactMirror
    <2>. SUFFICES ASSUME NEW w \in Writers, Normal(w),
                         pc[w] \in Appending \cup {"mirror", "commit"}
                  PROVE  dblock = w /\ MirrorExactMatch(run[w].before, db)
      BY DEF AppendsFromExactMirror, Appending
    <2>1. dblock = w /\ db = run[w].seen
      BY <1>3 DEF DbLockInv, SeenInv, SeenInvOf
    <2>2. MirrorExactMatch(run[w].before, run[w].seen)
      BY DEF Normal, Consistent
    <2>. QED
      BY <2>1, <2>2
  <1>. QED
    BY <1>1, <1>2, <1>3, LockInvariants, PTL DEF Spec
=============================================================================
