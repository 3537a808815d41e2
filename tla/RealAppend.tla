----------------------------- MODULE RealAppend -----------------------------
(* runRealAppend (src/src/services/localHistoryRealAppend.ts), the append    *)
(* primitive of the manual *-real-run scripts and of two scheduled jobs.     *)
(* Each process in Procs is one operating-system process that may be         *)
(* executing it.  It guards the history directory with the file              *)
(* .append.lock, created by an existence check followed by a plain write,    *)
(* rebuilds each touched shard from the rows it read, and restores backups   *)
(* when a shard cannot be written.                                           *)
EXTENDS HistoryTable

CONSTANTS Procs,    \* processes that may execute runRealAppend
          NoProc    \* no process

ASSUME ProcAssumption == NoProc \notin Procs

VARIABLES hist,      \* the shard files
          alock,     \* the process named in .append.lock, NoProc: no file
          alockOld,  \* the file is older than STALE_LOCK_THRESHOLD_MINUTES
          ra         \* per process, its execution of runRealAppend

raVars == <<hist, alock, alockOld, ra>>

RaPc == {"idle", "check", "reclaim", "take", "read", "write", "returned"}
Decisions == {"none", "success", "failed_preflight", "failed_write",
              "rolled_back", "manual_recovery_required", "threw"}
RaState == [pc: RaPc, decision: Decisions, rows: Table, merged: Table,
            backup: Table, existed: SUBSET Shards, todo: SUBSET Shards,
            undo: SUBSET Shards]

RaIdle == [pc |-> "idle", decision |-> "none", rows |-> EmptyTable,
           merged |-> EmptyTable, backup |-> EmptyTable,
           existed |-> {}, todo |-> {}, undo |-> {}]

RaTypeOK ==
    /\ hist \in Table
    /\ alock \in Procs \cup {NoProc}
    /\ alockOld \in BOOLEAN
    /\ ra \in [Procs -> RaState]

RaInit ==
    /\ alock = NoProc
    /\ alockOld = FALSE
    /\ ra = [p \in Procs |-> RaIdle]

RaQuiet(p) == ra[p].pc \in {"idle", "returned"}

RaReturn(p, decision) ==
    ra' = [ra EXCEPT ![p] = [RaIdle EXCEPT !.pc = "returned",
                                           !.decision = decision]]

RemoveLockFile == alock' = NoProc /\ alockOld' = FALSE
-----------------------------------------------------------------------------
\* The call: sourceShards are the caller's rows grouped by shard.
RaStart(p, rows) ==
    /\ RaQuiet(p)
    /\ ra' = [ra EXCEPT ![p] = [RaIdle EXCEPT !.pc = "check",
                                              !.rows = rows]]
    /\ UNCHANGED <<hist, alock, alockOld>>

\* existsSync and statSync: a fresh lock file aborts, an old one is reclaimed.
RaCheckLock(p) ==
    /\ ra[p].pc = "check"
    /\ \/ alock = NoProc /\ ra' = [ra EXCEPT ![p].pc = "take"]
       \/ alock # NoProc /\ alockOld /\ ra' = [ra EXCEPT ![p].pc = "reclaim"]
       \/ alock # NoProc /\ ~alockOld /\ RaReturn(p, "failed_preflight")
    /\ UNCHANGED <<hist, alock, alockOld>>

\* rmSync of whatever file is there now.
RaReclaim(p) ==
    /\ ra[p].pc = "reclaim"
    /\ RemoveLockFile
    /\ ra' = [ra EXCEPT ![p].pc = "take"]
    /\ UNCHANGED hist

\* writeFileSync without the exclusive flag: overwrites a lock created since.
RaTakeLock(p) ==
    /\ ra[p].pc = "take"
    /\ alock' = p
    /\ alockOld' = FALSE
    /\ ra' = [ra EXCEPT ![p].pc = "read"]
    /\ UNCHANGED hist

\* simulateAppend: a row already in its shard is skipped when the hash is the
\* same and is a conflict when it is not; the first line of a row_id wins.
FirstLine(rows, id) ==
    IF hist[id] # <<>> THEN Head(hist[id]) ELSE Head(rows[id])
Conflicts(rows) ==
    {id \in Ids(rows) :
        \E i \in DOMAIN rows[id] : rows[id][i] # FirstLine(rows, id)}
Merged(rows) ==
    [id \in RowIds |-> IF hist[id] = <<>> /\ rows[id] = <<>>
                         THEN <<>> ELSE <<FirstLine(rows, id)>>]

\* Reads the touched shards; a conflict removes the lock file and aborts.
RaRead(p) ==
    LET rows == ra[p].rows IN
    /\ ra[p].pc = "read"
    /\ \/ /\ Conflicts(rows) # {}
          /\ RemoveLockFile
          /\ RaReturn(p, "failed_write")
       \/ /\ Conflicts(rows) = {}
          /\ ra' = [ra EXCEPT ![p].pc = "write",
                              ![p].merged = Merged(rows),
                              ![p].existed = ShardsOf(hist),
                              ![p].todo = ShardsOf(rows)]
          /\ UNCHANGED <<alock, alockOld>>
    /\ UNCHANGED hist

\* One shard, in sorted order: copy a backup if the file existed, rebuild the
\* file from the merged rows, rename it over the target.
RaWriteShard(p) ==
    \E s \in ra[p].todo :
        /\ ra[p].pc = "write"
        /\ \A t \in ra[p].todo : s <= t
        /\ hist' = PutShards(hist, ra[p].merged, {s})
        /\ ra' = [ra EXCEPT
                    ![p].todo = @ \ {s},
                    ![p].undo = @ \cup {s},
                    ![p].backup = IF s \in ra[p].existed
                                    THEN PutShards(@, hist, {s}) ELSE @]
        /\ UNCHANGED <<alock, alockOld>>

\* Created files are deleted first, then backups copied back in shard order.
RestoredBefore(p, s, t) ==
    IF s \in ra[p].existed THEN t \in ra[p].existed /\ s < t
                           ELSE t \in ra[p].existed \/ s < t

\* A shard cannot be written: the shards written so far are restored and the
\* lock file goes.  An error on the way leaves the lock file and the remaining
\* shards as they are, for an operator to recover.
RaRollback(p) ==
    /\ ra[p].pc = "write" /\ ra[p].todo # {}
    /\ \/ /\ hist' = PutShards(hist, ra[p].backup, ra[p].undo)
          /\ RemoveLockFile
          /\ RaReturn(p, "rolled_back")
       \/ /\ \E restored \in SUBSET ra[p].undo :
                /\ \A s \in ra[p].undo, t \in restored :
                       RestoredBefore(p, s, t) => s \in restored
                /\ hist' = PutShards(hist, ra[p].backup, restored)
          /\ RaReturn(p, "manual_recovery_required")
          /\ UNCHANGED <<alock, alockOld>>

\* statSync of a lock file that just went, a read or a write of a file outside
\* the guarded loop fails: the exception leaves the lock file where it is.
RaThrow(p) ==
    /\ \/ ra[p].pc \in {"check", "take", "read"}
       \/ ra[p].pc = "write" /\ (ra[p].undo = {} \/ ra[p].todo = {})
    /\ RaReturn(p, "threw")
    /\ UNCHANGED <<hist, alock, alockOld>>

\* Every shard is in place: the lock file is removed, whoever wrote it.
RaFinish(p) ==
    /\ ra[p].pc = "write" /\ ra[p].todo = {}
    /\ RemoveLockFile
    /\ RaReturn(p, "success")
    /\ UNCHANGED hist

RaStep(p) == \/ RaCheckLock(p) \/ RaReclaim(p) \/ RaTakeLock(p) \/ RaRead(p)
             \/ RaWriteShard(p) \/ RaRollback(p) \/ RaThrow(p) \/ RaFinish(p)
=============================================================================
