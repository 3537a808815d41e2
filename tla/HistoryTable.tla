---------------------------- MODULE HistoryTable ----------------------------
(* The data the append pipeline moves around: the monthly CSV shards under   *)
(* .data/history and the SQLite table market_signal_history that mirrors     *)
(* them.  A table maps a row_id to the row_hashes of the lines stored under  *)
(* it, in file order: the empty sequence is an absent row, one entry is the  *)
(* normal case, and more than one entry is a duplicated row_id.  A row's     *)
(* shard is a function of its row_id (both are built from the check-in       *)
(* date), so one table stands for all the shard files of the directory.      *)
EXTENDS Naturals, Sequences, FiniteSets

CONSTANTS RowIds,   \* row_id values
          Hashes,   \* row_hash values: two rows with one hash are equal
          Shards,   \* shard months, as numbers so that they sort
          ShardOf,  \* the month a row_id belongs to
          NoRow     \* the value of a row_id the database does not store

ASSUME TableAssumption ==
    /\ IsFiniteSet(RowIds)
    /\ Shards \subseteq Nat /\ Shards # {}
    /\ ShardOf \in [RowIds -> Shards]
    /\ NoRow \notin Hashes

Table == [RowIds -> Seq(Hashes)]
Database == [RowIds -> Hashes \cup {NoRow}]

EmptyTable == [id \in RowIds |-> <<>>]

Ids(t) == {id \in RowIds : t[id] # <<>>}
Lines(t) == UNION {{<<id, i>> : i \in DOMAIN t[id]} : id \in RowIds}
Stored(d) == {id \in RowIds : d[id] # NoRow}

\* A Map built from the lines in file order keeps the last one of a row_id.
RowOf(t, id) == IF t[id] = <<>> THEN NoRow ELSE t[id][Len(t[id])]

HasDuplicates(t) == \E id \in RowIds : Len(t[id]) > 1

\* Mutant of MirrorExactMatch: compares the counts alone.
MirrorCountMatch(t, d) == Cardinality(Stored(d)) = Cardinality(Lines(t))

\* As many stored rows as lines, and every line stored under its own hash.
MirrorExactMatch(t, d) ==
    /\ Cardinality(Stored(d)) = Cardinality(Lines(t))
    /\ \A id \in RowIds : \A i \in DOMAIN t[id] : d[id] = t[id][i]

\* Mutant of ShardsOf: groups rows by row_id instead of by month.
ShardPerRow(t) == Ids(t)

\* The months a table's rows fall in.
ShardsOf(t) == {ShardOf[id] : id \in Ids(t)}

OnlyIds(t, S) == [id \in RowIds |-> IF id \in S THEN t[id] ELSE <<>>]

\* Table t with the shards in S replaced by those of table new.
PutShards(t, new, S) ==
    [id \in RowIds |-> IF ShardOf[id] \in S THEN new[id] ELSE t[id]]

\* The lines of t followed by those of rows.
AppendLines(t, rows) == [id \in RowIds |-> t[id] \o rows[id]]

\* The database after inserting, from table t, the rows in S.
InsertRows(d, t, S) ==
    [id \in RowIds |-> IF id \in S THEN RowOf(t, id) ELSE d[id]]
=============================================================================
