------------------------- MODULE TrustedAppendProps -------------------------
(* What the append pipeline promises, over the variables of TrustedAppend.   *)
EXTENDS TrustedAppend

\* Every line of history is stored under its hash and nothing else is stored.
ExactMirror ==
    \A id \in RowIds :
        hist[id] = IF db[id] = NoRow THEN <<>> ELSE <<db[id]>>

Holds(t, id, hash) == \E i \in DOMAIN t[id] : t[id][i] = hash

\* Each row of the run is in history, the capture file or unsaved_row_ids.
Accounted(w) ==
    \A id \in RowIds : \A i \in DOMAIN run[w].batch[id] :
        \E t \in {hist, run[w].captured, run[w].unsaved} :
            Holds(t, id, run[w].batch[id][i])

\* isVerifiedTrustedMirror: what callers publish on.
VerifiedMirror(w) ==
    /\ w \in MirrorEnabled
    /\ run[w].exact
    /\ \/ run[w].status = "MIRRORED"
       \/ run[w].status = "NOTHING_TO_APPEND" /\ Consistent(run[w])

\* From the plan to the commit, the rows a run may still mirror.
InFlight(w) ==
    IF pc[w] \in {"idle", "lock", "readHistory", "readDb", "recheck",
                  "release", "done"}
      THEN {} ELSE Ids(run[w].toWrite)

\* The database mirrors history exactly but for the rows of runs in progress.
ExactButInFlight ==
    \A id \in RowIds \ UNION {InFlight(w) : w \in Writers} :
        hist[id] = IF db[id] = NoRow THEN <<>> ELSE <<db[id]>>

\* Between reading a shard and renaming its new version over it.
Rewriting(p) ==
    \/ ra[p].pc = "write"
    \/ p \in Writers /\ pc[p] \in {"append", "rename"}
-----------------------------------------------------------------------------
\* A row_id never gets a second line, however runs overlap, fail halfway, die
\* and are repeated with the same rows.
NoDuplicateRows == ~HasDuplicates(hist)

\* A run that returns a status leaves each of its rows in history under its
\* hash, in the capture file, or in unsaved_row_ids.
RowsAccountedFor ==
    \A w \in Writers :
        pc[w] = "done" /\ run[w].status \in Statuses => Accounted(w)

\* A collected outcome (the callers' success) means the rows are in history.
CollectedMeansInHistory ==
    \A w \in Writers : pc[w] = "done" /\ run[w].status \in Collected =>
        \A id \in Ids(run[w].batch) : Holds(hist, id, run[w].batch[id][1])

\* When a run reports a verified mirror, before it frees the history lock, the
\* database is the exact mirror of the history there is.
VerifiedMeansExact ==
    \A w \in Writers :
        pc[w] = "release" /\ hlock = w /\ VerifiedMirror(w) => ExactMirror

\* While a run holds the history lock, every row it classified as existing is
\* still there with its hash.
ExistingRowsKept ==
    \A w \in Writers :
        hlock = w /\ pc[w] \notin {"readHistory", "release"} =>
            \A id \in RowIds : Len(run[w].before[id]) = 1
                                   => hist[id] = run[w].before[id]

\* At most one process is rewriting shards.
AppendExclusive ==
    \A p, q \in Procs : Rewriting(p) /\ Rewriting(q) => p = q

\* A row enters the database only after it is in history, alone under its
\* row_id and with that hash; and the database never changes or drops a row.
MirrorFollowsHistory ==
    [][\A id \in RowIds : db'[id] # db[id] =>
           db[id] = NoRow /\ hist[id] = <<db'[id]>>]_db

\* A row inserted by a scheduled job is one that this run appended itself.
MirrorGainsOnlyOwnRows ==
    [][dblock # OtherDb => \E w \in Writers :
           /\ pc[w] = "commit" /\ dblock = w
           /\ \A id \in RowIds : db'[id] # db[id] =>
                  /\ db[id] = NoRow /\ run[w].before[id] = <<>>
                  /\ run[w].toWrite[id] = <<db'[id]>>]_db

\* No backfill and no repair: unless the database mirrors exactly everything
\* but the rows of the run that commits, no scheduled job changes it.
DegradedFreezesMirror == [][dblock # OtherDb => ExactButInFlight]_db

\* The lock file of a dead process stops every append, however old it is, and
\* no process but the operator removes it.
LeftoverLockBlocks ==
    [][alock # NoProc /\ ~Alive(alock) =>
           hist' = hist /\ pc' = pc /\ ra' = ra]_<<hist, alock>>

\* From its append to its commit, a run that will mirror works on a database
\* that is, under the write lock it holds, still the exact mirror of the history
\* it classified, whatever another program committed since that reading.
AppendsFromExactMirror ==
    \A w \in Writers :
        /\ Normal(w)
        /\ pc[w] \in {"legacyTake", "append", "rename", "primitive", "unlock",
                      "unlink", "derive", "mirror", "commit"}
        => dblock = w /\ MirrorExactMatch(run[w].before, db)

\* A manual runRealAppend backs off while a scheduled "hold" job rewrites.
ManualBacksOff ==
    \A m \in Manual, w \in HoldsLegacy :
        ~(ra[m].pc = "write" /\ pc[w] \in {"append", "rename"})

\* Every behaviour of the scheduled jobs is one of the abstract append-only log
\* with its mirror: crashes, lost locks and failed writes show up there only as
\* a batch undone or settled unpublished.
Abstract == INSTANCE AppendOnlyMirror
            WITH log <- hist, mirror <- db,
                 pending <- UNION {InFlight(w) : w \in Writers}
ImplementsAppendOnlyMirror == Abstract!LogSpec

\* A run that is started ends: it returns, or its process dies.
EveryRunEnds == \A w \in Writers : Running(w) ~> ~Running(w)
=============================================================================
