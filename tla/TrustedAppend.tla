---------------------------- MODULE TrustedAppend ---------------------------
(* trustedAppendAndMirror (src/src/services/freshHistoryToDbSync.ts): how    *)
(* every scheduled job appends the rows it collected to the history shards   *)
(* and mirrors exactly those rows into SQLite.  Several jobs run it at once, *)
(* manual scripts run runRealAppend beside them, and any of them can die     *)
(* between two steps.  One action is one step of the function between two    *)
(* accesses to something shared.                                             *)
EXTENDS RealAppend

CONSTANTS Writers,        \* scheduled jobs
          Manual,         \* manual runRealAppend scripts
          HoldsLegacy,    \* jobs called with legacyAppendLock = "hold"
          MirrorEnabled,  \* jobs started with ZMI_TRUSTED_MIRROR_ENABLED=1
          Batches,        \* row batches a job or script may have collected
          Cap,            \* most rows a run may append
          Starts,         \* initial pairs of history and database
          OtherDb,        \* the other writer of the SQLite file
          OtherDbActive,  \* whether it runs
          MaxRuns         \* bound on the number of runs started

ASSUME WriterAssumption ==
    /\ Procs = Writers \cup Manual
    /\ Writers \cap Manual = {}
    /\ HoldsLegacy \subseteq Writers
    /\ MirrorEnabled \subseteq Writers
    /\ Batches \subseteq Table
    /\ Cap \in Nat /\ MaxRuns \in Nat
    /\ Starts \subseteq Table \X Database
    /\ OtherDb \notin Procs \cup {NoProc}
    /\ OtherDbActive \in BOOLEAN

VARIABLES db,       \* market_signal_history, as committed
          hlock,    \* holder of history_writer.lock.sqlite's EXCLUSIVE lock
          dblock,   \* holder of the database's write transaction
          pc,       \* where each job's run stands
          run,      \* each job's local state and result
          started   \* runs started so far (bounded by MaxRuns)

vars == <<raVars, db, hlock, dblock, pc, run, started>>

Pc == {"idle", "lock", "readHistory", "readDb", "legacyCheck", "dbLock",
       "legacyTake", "append", "rename", "primitive", "unlock", "unlink",
       "derive", "mirror", "commit", "recheck", "release", "done"}

Preserved == {"LOCK_BUSY_CAPTURE_PRESERVED", "STATE_UNKNOWN_CAPTURE_PRESERVED",
              "APPEND_CONFLICT_CAPTURE_PRESERVED",
              "APPEND_CAP_EXCEEDED_CAPTURE_PRESERVED"}
Appended == {"HISTORY_APPENDED_MIRROR_DISABLED",
             "HISTORY_APPENDED_MIRROR_BLOCKED"}
AppendFailed == {"HISTORY_APPEND_FAILED_MIRROR_BLOCKED",
                 "HISTORY_APPEND_UNVERIFIED_MIRROR_BLOCKED"}
Statuses == Preserved \cup Appended \cup AppendFailed
            \cup {"MIRRORED", "NOTHING_TO_APPEND", "MIRROR_FAILED_ROLLED_BACK",
                  "CAPTURE_FAILED_ROWS_UNSAVED"}

\* TRUSTED_APPEND_COLLECTED_STATUSES.
Collected == Appended \cup {"MIRRORED", "NOTHING_TO_APPEND"}

\* "none": still running; "threw": an exception left the function.
Outcomes == Statuses \cup {"none", "threw"}

RunState == [batch: Table, before: Table, seen: Database, toWrite: Table,
             buf: Table, reading: Shards, todo: SUBSET Shards,
             failed: BOOLEAN, after: Table, exact: BOOLEAN, status: Outcomes,
             captured: Table, unsaved: Table]

EmptyDb == [id \in RowIds |-> NoRow]

\* A run that has just been given its rows.
NewRun(rows) == [batch |-> rows, before |-> EmptyTable, seen |-> EmptyDb,
                 toWrite |-> EmptyTable, buf |-> EmptyTable,
                 reading |-> CHOOSE s \in Shards : TRUE, todo |-> {},
                 failed |-> FALSE, after |-> EmptyTable, exact |-> FALSE,
                 status |-> "none", captured |-> EmptyTable,
                 unsaved |-> EmptyTable]

TypeOK ==
    /\ RaTypeOK
    /\ db \in Database
    /\ hlock \in Writers \cup {NoProc}
    /\ dblock \in Writers \cup {NoProc, OtherDb}
    /\ pc \in [Writers -> Pc]
    /\ run \in [Writers -> RunState]
    /\ started \in 0..MaxRuns

Init ==
    /\ RaInit
    /\ \E start \in Starts : hist = start[1] /\ db = start[2]
    /\ hlock = NoProc
    /\ dblock = NoProc
    /\ pc = [w \in Writers |-> "idle"]
    /\ run = [w \in Writers |-> NewRun(EmptyTable)]
    /\ started = 0

files == <<hist, alock, alockOld>>
locks == <<hlock, dblock>>
-----------------------------------------------------------------------------
(* Local steps and results.                                                  *)

Goto(w, label) == pc' = [pc EXCEPT ![w] = label]

\* The outcome becomes status and the rows go to the capture file.  When the
\* file cannot be written and read back they are reported as unsaved, and the
\* outcome is instead if one is given.
Capture(w, r, status, instead, rows) ==
    \/ run' = [run EXCEPT ![w] = [r EXCEPT !.status = status,
                                           !.captured = rows]]
    \/ run' = [run EXCEPT ![w] = [r EXCEPT !.status = instead,
                                           !.unsaved = rows]]

\* preserve(): every row of the run is captured and the run ends.
Preserve(w, r, status) ==
    /\ Capture(w, r, status, "CAPTURE_FAILED_ROWS_UNSAVED", r.batch)
    /\ Goto(w, "release")

Return(w, r, status) ==
    /\ run' = [run EXCEPT ![w] = [r EXCEPT !.status = status]]
    /\ Goto(w, "release")

\* The database mirrors history exactly and no row_id is duplicated.
Consistent(r) == ~HasDuplicates(r.before) /\ MirrorExactMatch(r.before, r.seen)

\* The mirror is written only from a consistent state and with the flag on.
Normal(w) == Consistent(run[w]) /\ w \in MirrorEnabled
-----------------------------------------------------------------------------
(* Steps 1 to 4: locks, classification, plan.                                *)

\* The job has collected rows and calls the function.
Begin(w) ==
    /\ pc[w] \in {"idle", "done"}
    /\ started < MaxRuns
    /\ started' = started + 1
    /\ \E rows \in Batches :
          LET r == NewRun(rows) IN
          \/ /\ Ids(rows) = {}
             /\ Return(w, r, "NOTHING_TO_APPEND")
          \/ /\ Cardinality(Lines(rows)) > Cap
             /\ Preserve(w, r, "APPEND_CAP_EXCEEDED_CAPTURE_PRESERVED")
          \/ /\ Cardinality(Lines(rows)) \in 1..Cap
             /\ run' = [run EXCEPT ![w] = r]
             /\ Goto(w, "lock")
    /\ UNCHANGED <<raVars, db, locks>>

\* Mutant of AcquireHistoryLock: a deferred BEGIN is granted to everyone.
AcquireHistoryLockDeferred(w) ==
    /\ pc[w] = "lock"
    /\ hlock' = w
    /\ Goto(w, "readHistory")
    /\ UNCHANGED <<raVars, db, dblock, run, started>>

\* BEGIN EXCLUSIVE on the lock file: granted, timed out, or failed.
AcquireHistoryLock(w) ==
    /\ pc[w] = "lock"
    /\ \/ /\ hlock = NoProc
          /\ hlock' = w
          /\ Goto(w, "readHistory")
          /\ UNCHANGED run
       \/ /\ hlock # NoProc
          /\ Preserve(w, run[w], "LOCK_BUSY_CAPTURE_PRESERVED")
          /\ UNCHANGED hlock
       \/ /\ Preserve(w, run[w], "STATE_UNKNOWN_CAPTURE_PRESERVED")
          /\ UNCHANGED hlock
    /\ UNCHANGED <<raVars, db, dblock, started>>

\* loadHistoryRows under the lock; an unreadable directory ends the run.
ReadHistory(w) ==
    /\ pc[w] = "readHistory"
    /\ \/ /\ run' = [run EXCEPT ![w].before = hist]
          /\ Goto(w, "readDb")
       \/ Preserve(w, run[w], "STATE_UNKNOWN_CAPTURE_PRESERVED")
    /\ UNCHANGED <<raVars, db, locks, started>>

\* Mutant of ToWrite: appends the rows history already has as well.
ToWriteAll(r) == r.batch

\* Rows of the batch whose row_id history does not have yet.
ToWrite(r) == OnlyIds(r.batch, RowIds \ Ids(r.before))

\* Mutant of PlanConflict: a stored row_id is skipped whatever its hash.
PlanConflictIgnoringHash(r) == HasDuplicates(ToWrite(r))

\* A row_id stored with another hash, or twice among the rows to write.
PlanConflict(r) ==
    \/ \E id \in Ids(r.batch) \cap Ids(r.before) :
           \E i \in DOMAIN r.batch[id] : r.batch[id][i] # RowOf(r.before, id)
    \/ HasDuplicates(ToWrite(r))

\* readDbHashesReadOnly, the classification, and the point-of-use plan.
ReadDb(w) ==
    LET r == [run[w] EXCEPT !.seen = db]
        planned == [r EXCEPT !.toWrite = ToWrite(r)] IN
    /\ pc[w] = "readDb"
    /\ \/ Preserve(w, run[w], "STATE_UNKNOWN_CAPTURE_PRESERVED")
       \/ PlanConflict(r) /\ Preserve(w, r, "APPEND_CONFLICT_CAPTURE_PRESERVED")
       \/ /\ ~PlanConflict(r) /\ Ids(ToWrite(r)) = {}
          /\ Return(w, [r EXCEPT !.exact = Consistent(r)], "NOTHING_TO_APPEND")
       \/ /\ ~PlanConflict(r) /\ Ids(ToWrite(r)) # {}
          /\ run' = [run EXCEPT ![w] = planned]
          /\ Goto(w, "legacyCheck")
    /\ UNCHANGED <<raVars, db, locks, started>>

\* After the locks, a "hold" job takes .append.lock; the others call
\* runRealAppend, which takes it itself.
AppendEntry(w) == IF w \in HoldsLegacy THEN "legacyTake" ELSE "primitive"

\* Leaving towards the append: in primitive mode the call starts here.
EnterAppend(w) ==
    /\ Goto(w, AppendEntry(w))
    /\ IF w \in HoldsLegacy THEN UNCHANGED raVars
                            ELSE RaStart(w, run[w].toWrite)

\* Mutant of LegacyCheck: a lock file older than the threshold is ignored.
LegacyCheckByAge(w) ==
    /\ pc[w] = "legacyCheck"
    /\ \/ /\ alock # NoProc /\ ~alockOld
          /\ Preserve(w, run[w], "LOCK_BUSY_CAPTURE_PRESERVED")
          /\ UNCHANGED raVars
       \/ /\ alock = NoProc \/ alockOld
          /\ EnterAppend(w)
          /\ UNCHANGED run
    /\ UNCHANGED <<db, locks, started>>

\* An .append.lock of any age is a busy writer and is never removed here.
LegacyCheck(w) ==
    /\ pc[w] = "legacyCheck"
    /\ \/ /\ alock # NoProc
          /\ Preserve(w, run[w], "LOCK_BUSY_CAPTURE_PRESERVED")
          /\ UNCHANGED raVars
       \/ /\ alock = NoProc /\ Normal(w)
          /\ Goto(w, "dbLock")
          /\ UNCHANGED <<run, raVars>>
       \/ /\ alock = NoProc /\ ~Normal(w)
          /\ EnterAppend(w)
          /\ UNCHANGED run
    /\ UNCHANGED <<db, locks, started>>

\* Mutant of DbLock: inserts the rows before they are appended, outside a
\* transaction.
DbLockInsertFirst(w) ==
    /\ pc[w] = "dbLock" /\ dblock = NoProc /\ db = run[w].seen
    /\ dblock' = w
    /\ db' = InsertRows(db, run[w].toWrite, Ids(run[w].toWrite))
    /\ EnterAppend(w)
    /\ UNCHANGED <<run, hlock, started>>

\* Mutant of DbLock: waits for the database lock without a timeout.
DbLockNoTimeout(w) ==
    /\ pc[w] = "dbLock" /\ dblock = NoProc
    /\ dblock' = w
    /\ EnterAppend(w)
    /\ UNCHANGED <<run, db, hlock, started>>

\* Mutant of DbLock: keeps the verdict read before the transaction.
DbLockUnchecked(w) ==
    /\ pc[w] = "dbLock"
    /\ \/ /\ dblock # NoProc
          /\ Preserve(w, run[w], "LOCK_BUSY_CAPTURE_PRESERVED")
          /\ UNCHANGED <<raVars, dblock>>
       \/ /\ dblock = NoProc
          /\ dblock' = w
          /\ EnterAppend(w)
          /\ UNCHANGED run
    /\ UNCHANGED <<db, hlock, started>>

\* BEGIN IMMEDIATE, then the database is compared with what was classified.
DbLock(w) ==
    /\ pc[w] = "dbLock"
    /\ \/ /\ dblock # NoProc
          /\ Preserve(w, run[w], "LOCK_BUSY_CAPTURE_PRESERVED")
          /\ UNCHANGED <<raVars, dblock>>
       \/ /\ dblock = NoProc /\ db # run[w].seen
          /\ dblock' = w
          /\ Preserve(w, run[w], "STATE_UNKNOWN_CAPTURE_PRESERVED")
          /\ UNCHANGED raVars
       \/ /\ dblock = NoProc /\ db = run[w].seen
          /\ dblock' = w
          /\ EnterAppend(w)
          /\ UNCHANGED run
    /\ UNCHANGED <<db, hlock, started>>
-----------------------------------------------------------------------------
(* Step 5: the append.                                                       *)

\* Exclusive creation of .append.lock ("hold" jobs).  A failed creation of any
\* kind is a busy lock; one that fails in the write leaves an empty file.
LegacyTake(w) ==
    /\ pc[w] = "legacyTake"
    /\ \/ /\ alock = NoProc
          /\ alock' = w /\ alockOld' = FALSE
          /\ run' = [run EXCEPT ![w].todo = ShardsOf(run[w].toWrite)]
          /\ Goto(w, "append")
       \/ /\ Preserve(w, run[w], "LOCK_BUSY_CAPTURE_PRESERVED")
          /\ \/ UNCHANGED <<alock, alockOld>>
             \/ alock = NoProc /\ alock' = w /\ alockOld' = FALSE
    /\ UNCHANGED <<hist, ra, db, locks, started>>

\* appendHistoryRowsAtomic reads one shard of the rows to write ...
AppendRead(w) ==
    /\ pc[w] = "append"
    /\ \E s \in run[w].todo :
          run' = [run EXCEPT ![w].buf = hist, ![w].reading = s]
    /\ Goto(w, "rename")
    /\ UNCHANGED <<raVars, db, locks, started>>

\* Mutant of AppendRename: the new file holds the new lines only.
AppendRenameNewOnly(w) ==
    LET r == run[w] IN
    /\ pc[w] = "rename"
    /\ hist' = PutShards(hist, r.toWrite, {r.reading})
    /\ run' = [run EXCEPT ![w].todo = @ \ {r.reading}, ![w].buf = EmptyTable]
    /\ Goto(w, "append")
    /\ UNCHANGED <<alock, alockOld, ra, db, locks, started>>

\* ... and renames the file holding its old bytes and the new lines over it.
AppendRename(w) ==
    LET r == run[w] IN
    /\ pc[w] = "rename"
    /\ hist' = PutShards(hist, AppendLines(r.buf, r.toWrite), {r.reading})
    /\ run' = [run EXCEPT ![w].todo = @ \ {r.reading}, ![w].buf = EmptyTable]
    /\ Goto(w, "append")
    /\ UNCHANGED <<alock, alockOld, ra, db, locks, started>>

\* The primitive has written every shard, or throws with some unwritten.
AppendReturn(w) ==
    /\ \/ /\ pc[w] = "append" /\ run[w].todo = {}
          /\ UNCHANGED run
       \/ /\ pc[w] \in {"append", "rename"} /\ run[w].todo # {}
          /\ run' = [run EXCEPT ![w].failed = TRUE, ![w].todo = {},
                                ![w].buf = EmptyTable]
    /\ Goto(w, "unlock")
    /\ UNCHANGED <<raVars, db, locks, started>>

\* finally: the lock file is read back; one that is not byte-identical to the
\* file this run wrote stays where it is ...
LegacyUnlock(w) ==
    /\ pc[w] = "unlock"
    /\ Goto(w, IF alock = w THEN "unlink" ELSE "derive")
    /\ UNCHANGED <<raVars, db, locks, run, started>>

\* ... and one that was is removed, whichever file is there by now.
LegacyRemove(w) ==
    /\ pc[w] = "unlink"
    /\ RemoveLockFile
    /\ Goto(w, "derive")
    /\ UNCHANGED <<hist, ra, db, locks, run, started>>

\* One step of runRealAppend called by the job.
PrimitiveStep(w) ==
    /\ pc[w] = "primitive"
    /\ RaStep(w)
    /\ UNCHANGED <<db, locks, pc, run, started>>

\* Any decision other than success is thrown by the caller's write().
PrimitiveReturn(w) ==
    /\ pc[w] = "primitive" /\ ra[w].pc = "returned"
    /\ run' = [run EXCEPT ![w].failed = (ra[w].decision # "success")]
    /\ ra' = [ra EXCEPT ![w] = RaIdle]
    /\ Goto(w, "derive")
    /\ UNCHANGED <<files, db, locks, started>>
-----------------------------------------------------------------------------
(* Steps 6 and 7: derive the appended rows from history, mirror them.        *)

\* W: rows absent before, present after, with the hash this run intended.
AppendedIds(r) ==
    {id \in Ids(r.after) \ Ids(r.before) : r.toWrite[id] = <<RowOf(r.after, id)>>}

Problems(r) ==
    \/ HasDuplicates(r.after)
    \/ \E id \in Ids(r.before) : RowOf(r.after, id) # RowOf(r.before, id)
    \/ Ids(r.after) \ Ids(r.before) # AppendedIds(r)
    \/ ~r.failed /\ AppendedIds(r) # Ids(r.toWrite)

\* Mutant of Missing: the rows that did land instead of those that did not.
MissingSwapped(r) == OnlyIds(r.toWrite, AppendedIds(r))

\* Intended rows that did not land.
Missing(r) == OnlyIds(r.toWrite, RowIds \ AppendedIds(r))

\* Mutant of Derive: an append error is forgotten.
DeriveIgnoringError(w) ==
    LET r == [run[w] EXCEPT !.after = hist] IN
    /\ pc[w] = "derive" /\ Normal(w)
    /\ run' = [run EXCEPT ![w] = r]
    /\ Goto(w, "mirror")
    /\ UNCHANGED <<raVars, db, locks, started>>

\* History is read again and compared with what it was under the lock.
Derive(w) ==
    LET r == [run[w] EXCEPT !.after = hist] IN
    /\ pc[w] = "derive"
    /\ \/ /\ r.failed
          /\ Capture(w, r, "HISTORY_APPEND_FAILED_MIRROR_BLOCKED",
                     "HISTORY_APPEND_FAILED_MIRROR_BLOCKED", Missing(r))
          /\ Goto(w, "release")
       \/ /\ ~r.failed /\ Problems(r)
          /\ Capture(w, r, "HISTORY_APPEND_UNVERIFIED_MIRROR_BLOCKED",
                     "HISTORY_APPEND_UNVERIFIED_MIRROR_BLOCKED", Missing(r))
          /\ Goto(w, "release")
       \/ /\ ~r.failed /\ ~Problems(r) /\ ~Normal(w)
          /\ Return(w, r, IF Consistent(r) THEN "HISTORY_APPENDED_MIRROR_DISABLED"
                                           ELSE "HISTORY_APPENDED_MIRROR_BLOCKED")
       \/ /\ ~r.failed /\ ~Problems(r) /\ Normal(w)
          /\ run' = [run EXCEPT ![w] = r]
          /\ Goto(w, "mirror")
    /\ UNCHANGED <<raVars, db, locks, started>>

\* Mutant of Mirrored: inserts every row history has by now.
MirroredAll(r) == InsertRows(db, hist, Ids(hist) \ Stored(db))

\* The database inside the open transaction, with W inserted.
Mirrored(r) == InsertRows(db, r.after, AppendedIds(r))

\* applyRealSync inserted every row of W, history still has the bytes read
\* (digest), and the result is an exact mirror.
Validated(r) ==
    /\ \A id \in AppendedIds(r) : db[id] = NoRow
    /\ hist = r.after
    /\ MirrorExactMatch(r.after, Mirrored(r))

\* Insert and validate in the transaction; a failure of any kind rolls back.
Mirror(w) ==
    /\ pc[w] = "mirror"
    /\ \/ /\ Validated(run[w])
          /\ Goto(w, "commit")
          /\ UNCHANGED <<run, dblock>>
       \/ /\ Return(w, run[w], "MIRROR_FAILED_ROLLED_BACK")
          /\ dblock' = NoProc
    /\ UNCHANGED <<raVars, db, hlock, started>>

Commit(w) ==
    /\ pc[w] = "commit"
    /\ db' = Mirrored(run[w])
    /\ dblock' = NoProc
    /\ Goto(w, "recheck")
    /\ UNCHANGED <<raVars, hlock, run, started>>

\* The report: the committed database is compared with the rows read in step 6.
Recheck(w) ==
    /\ pc[w] = "recheck"
    /\ Return(w, [run[w] EXCEPT !.exact = MirrorExactMatch(run[w].after, db)],
              "MIRRORED")
    /\ UNCHANGED <<raVars, db, locks, started>>

\* An unguarded call throws: opening the lock file or the database, reading the
\* lock file back, removing it, reading history again, the ROLLBACK of a failed
\* mirror, COMMIT, the reading after it.
Throw(w) ==
    /\ pc[w] \in {"lock", "dbLock", "unlock", "unlink", "derive", "mirror",
                 "commit", "recheck"}
    /\ Return(w, run[w], "threw")
    /\ UNCHANGED <<raVars, db, locks, started>>

\* finally: an open transaction is rolled back, the lock file's too.
FreeLocks(w) ==
    /\ hlock' = IF hlock = w THEN NoProc ELSE hlock
    /\ dblock' = IF dblock = w THEN NoProc ELSE dblock

Release(w) ==
    /\ pc[w] = "release"
    /\ FreeLocks(w)
    /\ Goto(w, "done")
    /\ UNCHANGED <<raVars, db, run, started>>
-----------------------------------------------------------------------------
(* The environment.                                                          *)

Running(w) == pc[w] \notin {"idle", "done"}

\* The process dies: SQLite frees its locks, .append.lock stays, memory is lost.
Crash(w) ==
    /\ Running(w)
    /\ FreeLocks(w)
    /\ Goto(w, "idle")
    /\ run' = [run EXCEPT ![w] = NewRun(EmptyTable)]
    /\ ra' = [ra EXCEPT ![w] = RaIdle]
    /\ UNCHANGED <<files, db, started>>

\* A manual script calls runRealAppend, takes a step of it, or dies.
ManualStart(m) ==
    /\ started < MaxRuns
    /\ started' = started + 1
    /\ \E rows \in Batches : Ids(rows) # {} /\ RaStart(m, rows)
    /\ UNCHANGED <<db, locks, pc, run>>

ManualStep(m) == RaStep(m) /\ UNCHANGED <<db, locks, pc, run, started>>

ManualCrash(m) ==
    /\ ~RaQuiet(m)
    /\ ra' = [ra EXCEPT ![m] = RaIdle]
    /\ UNCHANGED <<files, db, locks, pc, run, started>>

\* Half an hour passes over the lock file.
AgeLock ==
    /\ alock # NoProc /\ ~alockOld
    /\ alockOld' = TRUE
    /\ UNCHANGED <<hist, alock, ra, db, locks, pc, run, started>>

\* The process is still executing the function that took the lock file.
Alive(p) == ~RaQuiet(p) \/ (p \in Writers /\ Running(p))

\* The operator inspects a lock file whose owner is gone and removes it.
OperatorRemovesLock ==
    /\ alock # NoProc /\ ~Alive(alock)
    /\ RemoveLockFile
    /\ UNCHANGED <<hist, ra, db, locks, pc, run, started>>

\* Another program takes the SQLite write lock for a while: a collector writes
\* its own tables, or a tool that knows nothing of the locks of this function
\* inserts a row of history or deletes one.
OtherDbBegin ==
    /\ OtherDbActive /\ dblock = NoProc
    /\ dblock' = OtherDb
    /\ UNCHANGED <<raVars, db, hlock, pc, run, started>>

OtherDbEnd ==
    /\ dblock = OtherDb
    /\ dblock' = NoProc
    /\ \/ UNCHANGED db
       \/ \E id \in Ids(hist) \ Stored(db) : db' = InsertRows(db, hist, {id})
       \/ \E id \in Stored(db) : db' = [db EXCEPT ![id] = NoRow]
    /\ UNCHANGED <<raVars, hlock, pc, run, started>>
-----------------------------------------------------------------------------
\* The function's own steps, the failures it handles included.
RunStep(w) ==
    \/ AcquireHistoryLock(w) \/ ReadHistory(w) \/ ReadDb(w) \/ LegacyCheck(w)
    \/ DbLock(w) \/ LegacyTake(w) \/ AppendRead(w) \/ AppendRename(w)
    \/ AppendReturn(w) \/ LegacyUnlock(w) \/ LegacyRemove(w)
    \/ PrimitiveStep(w) \/ PrimitiveReturn(w) \/ Derive(w) \/ Mirror(w) \/ Commit(w) \/ Recheck(w)
    \/ Release(w)

WriterStep(w) == RunStep(w) \/ Throw(w)

ManualNext(m) == ManualStart(m) \/ ManualStep(m) \/ ManualCrash(m)

Environment == AgeLock \/ OperatorRemovesLock \/ OtherDbBegin \/ OtherDbEnd

Next ==
    \/ \E w \in Writers : Begin(w) \/ WriterStep(w) \/ Crash(w)
    \/ \E m \in Manual : ManualNext(m)
    \/ Environment

Spec == Init /\ [][Next]_vars

\* A running job is scheduled until it returns; nothing obliges it to throw,
\* and no other process to make progress.
FairSpec == Spec /\ \A w \in Writers : WF_vars(RunStep(w))
=============================================================================
