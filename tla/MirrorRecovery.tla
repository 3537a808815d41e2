--------------------------- MODULE MirrorRecovery ---------------------------
(* The operator's repair of a diverged history and database                  *)
(* (src/src/services/marketMirrorRecoveryPlan.ts, driven by                  *)
(* src/src/scripts/reconcileMarketMirror.ts).  An accepted plan names both   *)
(* states; an execution publishes the rows only the database has into their  *)
(* shards, one file at a time, and then inserts the rows only history has in *)
(* one transaction.  It can die anywhere; a later execution of the same plan *)
(* resumes from the manifest, the receipts and the journal.  Each element of *)
(* Runs is one execution, so that its lock file body is never used again.    *)
EXTENDS RealAppend

CONSTANTS Runs,       \* executions of reconcileMarketMirror
          Rollbacks,  \* those called with --mode=rollback
          Scripts,    \* manual runRealAppend scripts
          Batches,    \* rows a script may append
          Starts,     \* diverged pairs of history and database
          MaxEdits    \* bound on the changes made by others

\* What prepareInternal demands of the pair a plan is made from: no row_id
\* twice, none stored under two hashes, every DB-only row's shard pinned.
Admissible(t, d) ==
    /\ ~HasDuplicates(t)
    /\ \A id \in Ids(t) \cap Stored(d) : RowOf(t, id) = d[id]
    /\ \A id \in Stored(d) : ShardOf[id] \in ShardsOf(t)

ASSUME RecoveryAssumption ==
    /\ Procs = Runs \cup Scripts /\ Runs \cap Scripts = {}
    /\ Rollbacks \subseteq Runs
    /\ Batches \subseteq Table
    /\ Starts \subseteq Table \X Database
    /\ \A start \in Starts : Admissible(start[1], start[2])
    /\ MaxEdits \in Nat

VARIABLES db,           \* market_signal_history, as committed
          hlock,        \* holder of the history writer's EXCLUSIVE lock
          dblock,       \* holder of the database's write transaction
          journal,      \* the reconciliation tables' record of the plan
          plan,         \* the accepted plan: the two states it was made from
          manifest,     \* recovery_plan_<sha>.json exists
          lockReceipt,  \* the owner execution_lock_<sha>.json names
          backups,      \* encrypted shard images in the backup directory
          receipts,     \* per shard, its publication receipt
          pc,           \* where each execution stands
          run,          \* its prepared context and outcome
          edits         \* changes made by others (bounded by MaxEdits)

stores == <<hist, alock, alockOld, ra, db>>
locks == <<hlock, dblock>>
saved == <<manifest, lockReceipt, backups, receipts>>
vars == <<raVars, db, locks, journal, plan, saved, pc, run, edits>>

Pc == {"new", "appendLock", "take", "open", "manifest", "lockReceipt",
       "publish", "shard", "backup", "receipt", "check", "rename", "readback",
       "apply", "validate", "commit", "rollback", "release", "done", "dead"}
Outcomes == {"none", "applied", "already_applied", "rolled_back",
             "lock_refused", "refused", "failed"}
Receipt == [before: Table, after: Table]
NoReceipt == [before |-> EmptyTable, after |-> EmptyTable]
RunState == [expected: Table, published: BOOLEAN, todo: SUBSET Shards,
             shard: Shards, before: Table, outcome: Outcomes]
NewRun == [expected |-> EmptyTable, published |-> FALSE, todo |-> {},
           shard |-> CHOOSE s \in Shards : TRUE, before |-> EmptyTable,
           outcome |-> "none"]

TypeOK ==
    /\ RaTypeOK
    /\ db \in Database
    /\ hlock \in Runs \cup {NoProc} /\ dblock \in Runs \cup {NoProc}
    /\ journal \in [state: {"none", "APPLIED", "ROLLED_BACK"},
                    rows: SUBSET RowIds]
    /\ plan \in [hist: Table, db: Database]
    /\ manifest \in BOOLEAN /\ lockReceipt \in Runs \cup {NoProc}
    /\ backups \subseteq Table /\ receipts \in [Shards -> Receipt]
    /\ pc \in [Runs -> Pc] /\ run \in [Runs -> RunState]
    /\ edits \in 0..MaxEdits

Init ==
    /\ RaInit
    /\ \E start \in Starts :
           /\ hist = start[1] /\ db = start[2]
           /\ plan = [hist |-> start[1], db |-> start[2]]
    /\ hlock = NoProc /\ dblock = NoProc
    /\ journal = [state |-> "none", rows |-> {}]
    /\ manifest = FALSE /\ lockReceipt = NoProc
    /\ backups = {} /\ receipts = [s \in Shards |-> NoReceipt]
    /\ pc = [r \in Runs |-> "new"]
    /\ run = [r \in Runs |-> NewRun]
    /\ edits = 0
-----------------------------------------------------------------------------
(* The plan and what an execution compares with it.                          *)

\* Rows the plan restores to history, and rows it inserts into the database.
LegacyIds == Stored(plan.db) \ Ids(plan.hist)
MissingIds == Ids(plan.hist) \ Stored(plan.db)
Union == InsertRows(plan.db, plan.hist, MissingIds)

OnlyShard(t, s) == OnlyIds(t, {id \in RowIds : ShardOf[id] = s})
LegacyShards == {ShardOf[id] : id \in LegacyIds}

\* Mutant of Image: takes the rows from the database as it is now.
ImageOfDatabase(t) ==
    [id \in RowIds |-> IF db[id] # NoRow /\ t[id] = <<>>
                         THEN <<db[id]>> ELSE t[id]]

\* appendImage: the lines of t and the recovered rows it does not have.
Image(t) ==
    [id \in RowIds |-> IF id \in LegacyIds /\ t[id] = <<>>
                         THEN <<plan.db[id]>> ELSE t[id]]
ImageConflict(t, s) ==
    \E id \in LegacyIds : /\ ShardOf[id] = s /\ t[id] # <<>>
                          /\ RowOf(t, id) # plan.db[id]

Published(s) == OnlyShard(hist, s) # OnlyShard(plan.hist, s)

\* Mutant of ShardProven: trusts a receipt without comparing the file with it.
ShardProvenByReceipt(s) == Published(s) => receipts[s] # NoReceipt

\* A shard is what the plan saw, or what its receipt says this plan published
\* over what it saw, with the original in the backup directory.
ShardProven(s) ==
    LET before == OnlyShard(plan.hist, s)
        after == OnlyShard(Image(plan.hist), s) IN
    Published(s) =>
        /\ receipts[s] = [before |-> before, after |-> OnlyShard(hist, s)]
        /\ before \in backups
        /\ OnlyShard(hist, s) = after

\* Mutant of DatabaseProven: wants the plan's database after the plan too.
DatabaseProvenOriginal == db = plan.db

\* The database is the plan's, or the journal proves that it was the plan's
\* before this plan was applied, and then every recovered row is in history.
DatabaseProven ==
    \/ journal.state = "none" /\ db = plan.db
    \/ /\ journal.state = "APPLIED" /\ db = Union /\ journal.rows = MissingIds
       /\ \A s \in LegacyShards : Published(s)

\* Mutant of Prepared: compares the database alone.
PreparedByDatabase == DatabaseProven

\* resumeMirrorRecovery, or without a manifest prepareMirrorRecovery.
Prepared ==
    IF manifest THEN /\ ShardsOf(hist) = ShardsOf(plan.hist)
                     /\ \A s \in ShardsOf(plan.hist) : ShardProven(s)
                     /\ DatabaseProven
                ELSE hist = plan.hist /\ db = plan.db

OwnsLock(r) == alock = r
SourceUnchanged(r) == hist = run[r].expected
LegacyUnchanged == \A id \in LegacyIds : db[id] = plan.db[id]
Rechecked(r) == OwnsLock(r) /\ SourceUnchanged(r) /\ LegacyUnchanged
-----------------------------------------------------------------------------
(* Steps and outcomes.                                                       *)

Goto(r, label) == pc' = [pc EXCEPT ![r] = label]
End(r, outcome) ==
    /\ run' = [run EXCEPT ![r] = [NewRun EXCEPT !.outcome = outcome]]
    /\ Goto(r, "release")
Refuse(r) == End(r, "refused")

\* BEGIN EXCLUSIVE with a busy timeout.
LockHistory(r) ==
    /\ pc[r] = "new"
    /\ \/ hlock = NoProc /\ hlock' = r /\ Goto(r, "appendLock") /\ UNCHANGED run
       \/ hlock # NoProc /\ End(r, "lock_refused") /\ UNCHANGED hlock
    /\ UNCHANGED <<stores, dblock, journal, plan, saved, edits>>

\* A lock file may go only if the saved receipt holds its very text and its
\* process is gone; a rollback never reclaims one.
Reclaimable(r) ==
    /\ r \notin Rollbacks
    /\ alock \in Runs /\ lockReceipt = alock
    /\ pc[alock] \in {"done", "dead"}

CheckAppendLock(r) ==
    /\ pc[r] = "appendLock"
    /\ \/ alock = NoProc /\ Goto(r, "take") /\ UNCHANGED <<alock, alockOld, run>>
       \/ /\ alock # NoProc /\ Reclaimable(r)
          /\ RemoveLockFile
          /\ Goto(r, "take")
          /\ UNCHANGED run
       \/ /\ alock # NoProc /\ ~Reclaimable(r)
          /\ End(r, "lock_refused")
          /\ UNCHANGED <<alock, alockOld>>
    /\ UNCHANGED <<hist, ra, db, locks, journal, plan, saved, edits>>

\* Exclusive creation.
TakeAppendLock(r) ==
    /\ pc[r] = "take"
    /\ \/ /\ alock = NoProc
          /\ alock' = r /\ alockOld' = FALSE
          /\ Goto(r, IF r \in Rollbacks THEN "rollback" ELSE "open")
          /\ UNCHANGED run
       \/ /\ alock # NoProc
          /\ End(r, "lock_refused")
          /\ UNCHANGED <<alock, alockOld>>
    /\ UNCHANGED <<hist, ra, db, locks, journal, plan, saved, edits>>

\* What the recovered rows' publication depends on is already in place when
\* every one of their shards has been published.
Open(r) ==
    /\ pc[r] = "open"
    /\ \/ /\ Prepared /\ (manifest => OwnsLock(r))
          /\ run' = [run EXCEPT ![r].expected = hist,
                       ![r].published = \A s \in LegacyShards : Published(s)]
          /\ Goto(r, "manifest")
       \/ ~Prepared /\ Refuse(r)
       \/ manifest /\ ~OwnsLock(r) /\ Refuse(r)
    /\ UNCHANGED <<stores, locks, journal, plan, saved, edits>>

\* persistMirrorRecoveryPlan: the manifest, then the lock receipt.
SaveManifest(r) ==
    /\ pc[r] = "manifest"
    /\ \/ /\ Rechecked(r)
          /\ manifest' = TRUE
          /\ Goto(r, "lockReceipt")
          /\ UNCHANGED run
       \/ ~Rechecked(r) /\ Refuse(r) /\ UNCHANGED manifest
    /\ UNCHANGED <<stores, locks, journal, plan, lockReceipt, backups,
                   receipts, edits>>

SaveLockReceipt(r) ==
    /\ pc[r] = "lockReceipt"
    /\ lockReceipt' = r
    /\ Goto(r, IF LegacyIds = {} THEN "apply" ELSE "publish")
    /\ UNCHANGED <<stores, locks, journal, plan, manifest, backups, receipts,
                   run, edits>>
-----------------------------------------------------------------------------
(* publishRecoveredLegacyHistory.                                            *)

\* Nothing to do when all is published; else the database must be the plan's.
BeginPublish(r) ==
    /\ pc[r] = "publish"
    /\ \/ /\ Rechecked(r) /\ run[r].published
          /\ Goto(r, "apply")
          /\ UNCHANGED run
       \/ /\ Rechecked(r) /\ ~run[r].published /\ db = plan.db
          /\ run' = [run EXCEPT ![r].todo = LegacyShards]
          /\ Goto(r, "shard")
       \/ /\ ~Rechecked(r) \/ (~run[r].published /\ db # plan.db)
          /\ Refuse(r)
    /\ UNCHANGED <<stores, locks, journal, plan, saved, edits>>

\* The next shard with rows to add, or the end of the publication.
NextShard(r) ==
    /\ pc[r] = "shard"
    /\ \/ \E s \in run[r].todo :
             \/ /\ ImageConflict(hist, s)
                /\ Refuse(r)
             \/ /\ ~ImageConflict(hist, s)
                /\ OnlyShard(Image(hist), s) = OnlyShard(hist, s)
                /\ run' = [run EXCEPT ![r].todo = @ \ {s}]
                /\ UNCHANGED pc
             \/ /\ ~ImageConflict(hist, s)
                /\ OnlyShard(Image(hist), s) # OnlyShard(hist, s)
                /\ run' = [run EXCEPT ![r].todo = @ \ {s}, ![r].shard = s,
                                      ![r].before = OnlyShard(hist, s)]
                /\ Goto(r, "backup")
       \/ /\ run[r].todo = {} /\ SourceUnchanged(r)
          /\ run' = [run EXCEPT ![r].published = TRUE]
          /\ Goto(r, "apply")
       \/ run[r].todo = {} /\ ~SourceUnchanged(r) /\ Refuse(r)
    /\ UNCHANGED <<stores, locks, journal, plan, saved, edits>>

After(r) == OnlyShard(Image(run[r].before), run[r].shard)

\* Published under its final name at once, or found there with these bytes.
SaveBackup(r) ==
    /\ pc[r] = "backup"
    /\ backups' = backups \cup {run[r].before}
    /\ Goto(r, "receipt")
    /\ UNCHANGED <<stores, locks, journal, plan, manifest, lockReceipt,
                   receipts, run, edits>>

\* Mutant of SaveReceipt: no receipt is written.
SaveReceiptNot(r) ==
    /\ pc[r] = "receipt"
    /\ Goto(r, "check")
    /\ UNCHANGED <<stores, locks, journal, plan, saved, run, edits>>

SaveReceipt(r) ==
    LET receipt == [before |-> run[r].before, after |-> After(r)]
        old == receipts[run[r].shard] IN
    /\ pc[r] = "receipt"
    /\ \/ /\ old \in {NoReceipt, receipt}
          /\ receipts' = [receipts EXCEPT ![run[r].shard] = receipt]
          /\ Goto(r, "check")
          /\ UNCHANGED run
       \/ old \notin {NoReceipt, receipt} /\ Refuse(r) /\ UNCHANGED receipts
    /\ UNCHANGED <<stores, locks, journal, plan, manifest, lockReceipt,
                   backups, edits>>

\* The last look at files, saved rows and lock before the rename.
CheckShard(r) ==
    /\ pc[r] = "check"
    /\ \/ Rechecked(r) /\ Goto(r, "rename") /\ UNCHANGED run
       \/ ~Rechecked(r) /\ Refuse(r)
    /\ UNCHANGED <<stores, locks, journal, plan, saved, edits>>

RenameShard(r) ==
    /\ pc[r] = "rename"
    /\ hist' = PutShards(hist, After(r), {run[r].shard})
    /\ Goto(r, "readback")
    /\ UNCHANGED <<alock, alockOld, ra, db, locks, journal, plan, saved, run,
                   edits>>

\* The file reads back as written and is admitted as this run's own.
Readback(r) ==
    LET s == run[r].shard
        same == /\ OnlyShard(hist, s) = After(r)
                /\ ShardsOf(hist) = ShardsOf(run[r].expected) IN
    /\ pc[r] = "readback"
    /\ \/ /\ same
          /\ run' = [run EXCEPT ![r].expected = PutShards(@, hist, {s}),
                                ![r].before = EmptyTable]
          /\ Goto(r, "shard")
       \/ ~same /\ Refuse(r)
    /\ UNCHANGED <<stores, locks, journal, plan, saved, edits>>
-----------------------------------------------------------------------------
(* applyMirrorDatabaseRecovery and rollbackMirrorDatabaseRecovery.           *)

\* What the transaction finds when it begins.
Replay(r) ==
    /\ journal.state = "APPLIED" /\ SourceUnchanged(r)
    /\ \A id \in journal.rows : db[id] = Union[id]
FirstApply(r) ==
    journal.state = "none" /\ db = plan.db /\ SourceUnchanged(r)

BeginApply(r) ==
    LET allowed == OwnsLock(r) /\ run[r].published IN
    /\ pc[r] = "apply" /\ dblock = NoProc
    /\ \/ allowed /\ Replay(r) /\ End(r, "already_applied") /\ UNCHANGED dblock
       \/ /\ allowed /\ FirstApply(r)
          /\ dblock' = r
          /\ Goto(r, "validate")
          /\ UNCHANGED run
       \/ /\ ~allowed \/ ~(Replay(r) \/ FirstApply(r))
          /\ Refuse(r)
          /\ UNCHANGED dblock
    /\ UNCHANGED <<stores, hlock, journal, plan, saved, edits>>

\* The transaction's own view: the rows the prepared database lacked are in.
Inserted == InsertRows(db, plan.hist, MissingIds)

Validate(r) ==
    /\ pc[r] = "validate"
    /\ \/ /\ Rechecked(r) /\ Inserted = Union
          /\ Goto(r, "commit")
          /\ UNCHANGED <<run, dblock>>
       \/ /\ ~(Rechecked(r) /\ Inserted = Union)
          /\ Refuse(r)
          /\ dblock' = NoProc
    /\ UNCHANGED <<stores, hlock, journal, plan, saved, edits>>

Commit(r) ==
    /\ pc[r] = "commit"
    /\ db' = Inserted
    /\ journal' = [state |-> "APPLIED", rows |-> MissingIds]
    /\ dblock' = NoProc
    /\ End(r, "applied")
    /\ UNCHANGED <<raVars, hlock, plan, saved, edits>>

\* Mutant of WithoutInserted: back to the rows the plan found.
WithoutInsertedButPlanned ==
    [id \in RowIds |-> IF plan.db[id] = NoRow THEN NoRow ELSE db[id]]

\* Mutant of WithoutInserted: leaves what an absent row of a shard looks like.
WithoutInsertedAsLines ==
    [id \in RowIds |-> IF id \in journal.rows THEN <<>> ELSE db[id]]

WithoutInserted ==
    [id \in RowIds |-> IF id \in journal.rows THEN NoRow ELSE db[id]]

\* Mutant of AfterRollback: deletes the record instead of marking it.
AfterRollbackErased == [state |-> "none", rows |-> {}]

AfterRollback == [journal EXCEPT !.state = "ROLLED_BACK"]

\* One transaction: only rows that still are what the journal inserted.
Rollback(r) ==
    LET allowed == /\ OwnsLock(r) /\ journal.state = "APPLIED"
                   /\ \A id \in journal.rows : db[id] = Union[id] IN
    /\ pc[r] = "rollback" /\ dblock = NoProc
    /\ \/ /\ allowed
          /\ db' = WithoutInserted
          /\ journal' = AfterRollback
          /\ End(r, "rolled_back")
       \/ ~allowed /\ Refuse(r) /\ UNCHANGED <<db, journal>>
    /\ UNCHANGED <<raVars, locks, plan, saved, edits>>

\* A file or database call throws, a busy database included.
Fail(r) ==
    /\ pc[r] \notin {"new", "release", "done", "dead"}
    /\ End(r, "failed")
    /\ dblock' = IF dblock = r THEN NoProc ELSE dblock
    /\ UNCHANGED <<stores, hlock, journal, plan, saved, edits>>

\* finally: this run's own lock file, if it still is the one it wrote.
Release(r) ==
    /\ pc[r] = "release"
    /\ IF alock = r THEN RemoveLockFile ELSE UNCHANGED <<alock, alockOld>>
    /\ hlock' = IF hlock = r THEN NoProc ELSE hlock
    /\ Goto(r, "done")
    /\ UNCHANGED <<hist, ra, db, dblock, journal, plan, saved, run, edits>>
-----------------------------------------------------------------------------
(* The environment.                                                          *)

\* What is remembered of an execution that dies, before or after its commit.
Remembered(r) == IF run[r].outcome = "applied" THEN "applied" ELSE "none"

\* The process dies: SQLite frees its locks, the lock file stays.  Its memory is
\* lost and it reports nothing; that it had applied the plan is kept, as a
\* history of what was done to the stores, which no later step reads.
Crash(r) ==
    /\ pc[r] \notin {"new", "done", "dead"}
    /\ Goto(r, "dead")
    /\ hlock' = IF hlock = r THEN NoProc ELSE hlock
    /\ dblock' = IF dblock = r THEN NoProc ELSE dblock
    /\ run' = [run EXCEPT ![r] = [NewRun EXCEPT !.outcome = Remembered(r)]]
    /\ UNCHANGED <<stores, journal, plan, saved, edits>>

Edit == edits < MaxEdits /\ edits' = edits + 1

\* A scheduled job appends a row and, from an exact mirror, may mirror it.
JobAppends ==
    /\ Edit
    /\ hlock = NoProc /\ alock = NoProc /\ dblock = NoProc
    /\ \E id \in RowIds \ Ids(hist), hash \in Hashes :
           /\ hist' = [hist EXCEPT ![id] = <<hash>>]
           /\ \/ UNCHANGED db
              \/ /\ MirrorExactMatch(hist, db)
                 /\ db' = [db EXCEPT ![id] = hash]
    /\ UNCHANGED <<alock, alockOld, ra, locks, journal, plan, saved, pc, run>>

\* Another program inserts, changes or deletes a row of the database.
OtherDbEdit ==
    /\ Edit
    /\ dblock = NoProc
    /\ \E id \in RowIds, hash \in Hashes \cup {NoRow} :
           hash # db[id] /\ db' = [db EXCEPT ![id] = hash]
    /\ UNCHANGED <<raVars, locks, journal, plan, saved, pc, run>>

\* A manual script calls runRealAppend, takes a step of it, or dies.
ScriptStarts(m) ==
    /\ Edit
    /\ \E rows \in Batches : RaStart(m, rows)
    /\ UNCHANGED <<db, locks, journal, plan, saved, pc, run>>
ScriptStep(m) ==
    RaStep(m) /\ UNCHANGED <<db, locks, journal, plan, saved, pc, run, edits>>
ScriptDies(m) ==
    /\ ~RaQuiet(m)
    /\ ra' = [ra EXCEPT ![m] = RaIdle]
    /\ UNCHANGED <<hist, alock, alockOld, db, locks, journal, plan, saved, pc,
                   run, edits>>

\* Half an hour passes over the lock file.
AgeLock ==
    /\ alock # NoProc /\ ~alockOld /\ Scripts # {}
    /\ alockOld' = TRUE
    /\ UNCHANGED <<hist, alock, ra, db, locks, journal, plan, saved, pc, run,
                   edits>>

\* The operator inspects a lock file whose process is gone and removes it.
OperatorRemovesLock ==
    /\ alock # NoProc
    /\ \/ alock \in Runs /\ pc[alock] \in {"done", "dead"}
       \/ alock \in Scripts /\ RaQuiet(alock)
    /\ RemoveLockFile
    /\ UNCHANGED <<hist, ra, db, locks, journal, plan, saved, pc, run, edits>>
-----------------------------------------------------------------------------
RunStep(r) ==
    \/ LockHistory(r) \/ CheckAppendLock(r) \/ TakeAppendLock(r) \/ Open(r)
    \/ SaveManifest(r) \/ SaveLockReceipt(r) \/ BeginPublish(r) \/ NextShard(r)
    \/ SaveBackup(r) \/ SaveReceipt(r) \/ CheckShard(r) \/ RenameShard(r)
    \/ Readback(r) \/ BeginApply(r) \/ Validate(r) \/ Commit(r) \/ Rollback(r)
    \/ Release(r)

Environment ==
    \/ JobAppends \/ OtherDbEdit \/ AgeLock \/ OperatorRemovesLock
    \/ \E m \in Scripts : ScriptStarts(m) \/ ScriptStep(m) \/ ScriptDies(m)

Next ==
    \/ \E r \in Runs : RunStep(r) \/ Fail(r) \/ Crash(r)
    \/ Environment

Spec == Init /\ [][Next]_vars

\* The operator starts each execution, and it is scheduled until it ends.
FairSpec == Spec /\ \A r \in Runs : WF_vars(RunStep(r))
=============================================================================
