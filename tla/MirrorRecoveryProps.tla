------------------------ MODULE MirrorRecoveryProps -------------------------
(* What the operator's recovery promises, over the variables of              *)
(* MirrorRecovery.  A step that leaves edits alone and changes a store is    *)
(* one of an execution, or of a manual script.                               *)
EXTENDS MirrorRecovery

\* The transaction that records the plan as applied leaves the database the
\* exact mirror of the history there is, however many executions it took.
AppliedMakesExactMirror ==
    [][journal'.state = "APPLIED" =>
           \A id \in RowIds :
               hist[id] = IF db'[id] = NoRow THEN <<>> ELSE <<db'[id]>>]_journal

\* An execution inserts rows that history had when the plan was made, and a
\* rollback removes only such rows: the database's original rows and those
\* that jobs inserted later are never touched.
RecoveryTouchesOnlyItsRows ==
    [][edits' = edits => \A id \in RowIds : db'[id] # db[id] =>
           /\ id \in MissingIds
           /\ \/ db[id] = NoRow /\ db'[id] = RowOf(plan.hist, id)
              \/ db[id] = RowOf(plan.hist, id) /\ db'[id] = NoRow]_db

\* The plan's rows are inserted at most once, whatever executions repeat it,
\* die after the commit and before they report it, or follow a rollback: at
\* most one execution, dead ones counted, ever committed the insertion.
InsertedOnce ==
    \A r, q \in Runs :
        run[r].outcome = "applied" /\ run[q].outcome = "applied" => r = q

\* No line of history is changed or removed, and executions add exactly rows
\* that only the database had, under the hash it has them.
HistoryOnlyGains ==
    [][\A id \in RowIds : hist'[id] # hist[id] =>
           /\ hist[id] = <<>>
           /\ \/ edits' # edits
              \/ id \in LegacyIds /\ hist'[id] = <<plan.db[id]>>]_hist

\* An execution publishes only over shards the plan saw or published itself:
\* a row someone else appended since makes every later publication refuse.
PublishesOnlyPlannedHistory ==
    [][edits' = edits =>
           \A s \in Shards : OnlyShard(hist, s) \in
               {OnlyShard(plan.hist, s), OnlyShard(Image(plan.hist), s)}]_hist

\* Wherever earlier executions died or failed, a later one of the same plan is
\* refused only after a change by someone else, or after a rollback.
CrashIsResumable ==
    edits = 0 /\ journal.state # "ROLLED_BACK" =>
        \A r \in Runs \ Rollbacks : run[r].outcome # "refused"

\* Publishing a shard keeps every line it has ("Existing bytes remain a
\* prefix, and only recovered rows are appended").
ExistingLinesKept ==
    [][(\E r \in Runs : pc[r] = "rename" /\ pc'[r] = "readback") =>
           \A id \in RowIds : hist[id] # <<>> => hist'[id] = hist[id]]_hist

\* The plan is applied in the end, unless someone else changes a store or
\* each execution dies, fails or finds a lock.
RecoveryCompletes ==
    <>(\/ journal.state # "none" \/ edits > 0
       \/ \A r \in Runs \ Rollbacks :
              pc[r] = "dead" \/ run[r].outcome \in {"failed", "lock_refused"})
=============================================================================
