-------------------------- MODULE AppendOnlyMirror --------------------------
(* What the scheduled append pipeline promises the readers of its two        *)
(* stores, without its locks, steps, files and crashes: a log that gains the *)
(* rows of one batch at a time and never loses or changes a settled row, and *)
(* a mirror that takes a whole batch at once, and only when that makes it an *)
(* exact copy of the log.                                                    *)
EXTENDS HistoryTable

VARIABLES log,      \* the rows of record
          mirror,   \* the copy that is queried
          pending   \* row_ids of the batch being appended, {} between batches

avars == <<log, mirror, pending>>

LogInit == log \in Table /\ mirror \in Database /\ pending = {}

\* A batch of rows the log does not have.
Accept ==
    /\ pending = {}
    /\ pending' \in SUBSET (RowIds \ Ids(log)) /\ pending' # {}
    /\ UNCHANGED <<log, mirror>>

\* Some of the batch's rows enter the log, one line each.
Record ==
    \E S \in (SUBSET (pending \ Ids(log))) \ {{}} : \E rows \in [S -> Hashes] :
        /\ log' = [id \in RowIds |-> IF id \in S THEN <<rows[id]>> ELSE log[id]]
        /\ UNCHANGED <<mirror, pending>>

\* A failed append is undone: only the batch's own rows leave the log.
Undo ==
    \E S \in (SUBSET (pending \cap Ids(log))) \ {{}} :
        /\ log' = OnlyIds(log, RowIds \ S)
        /\ UNCHANGED <<mirror, pending>>

\* The whole batch is in the log and was all the mirror lacked.
Publish ==
    /\ pending # {} /\ pending \subseteq Ids(log)
    /\ Stored(mirror) = Ids(log) \ pending
    /\ \A id \in Stored(mirror) : log[id] = <<mirror[id]>>
    /\ mirror' = InsertRows(mirror, log, pending)
    /\ pending' = {}
    /\ UNCHANGED log

\* The batch ends without being published, its rows in the log or not.
Settle == pending # {} /\ pending' = {} /\ UNCHANGED <<log, mirror>>

LogNext == Accept \/ Record \/ Undo \/ Publish \/ Settle

LogSpec == LogInit /\ [][LogNext]_avars
=============================================================================
