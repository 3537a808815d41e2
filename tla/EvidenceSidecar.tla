--------------------------- MODULE EvidenceSidecar --------------------------
(* The evidence export (src/src/services/marketEvidenceSidecar.ts): after a  *)
(* run's rows are in history, one sealed record per row is appended to the   *)
(* monthly JSONL shards of .data/history-evidence.  Runs overlap and die, a  *)
(* shard may have been edited by hand, and the captures the records are      *)
(* derived from are pruned or replaced later.                                *)
(* A table (HistoryTable) holds the records: a line is what the seal covers  *)
(* (the run and the artifact bytes; the row's own values are those of its    *)
(* history line), or Garbled where schema, seal or JSON does not verify.     *)
EXTENDS HistoryTable

CONSTANTS Exporters,  \* processes that export
          RunIds,     \* run ids (timestamps to the second: two may coincide)
          Captures,   \* contents a capture or decision file may have
          NoCapture,  \* no such file, not allowed by guardedReader, or ambiguous
          Garbled,    \* a line that does not verify
          NoExporter, \* nobody
          Prices,     \* prices in yen
          NoPrice,    \* a blank price
          RowData,    \* the accepted history row behind each row_id
          PriceIn,    \* the price a capture proves, or NoPrice
          Accepted,   \* sets of rows a run may have appended
          FirstCaptures, \* what the collectors may have left at the paths
          Replaceable,   \* rows whose capture may change later (a bound)
          Editable,    \* shards somebody may edit by hand (a bound)
          Cuttable,    \* shards where a write may be cut short (a bound)
          MaxRuns     \* bound on the exports started

Line == [run : RunIds, artifact : Captures]
MaybePrice == Prices \cup {NoPrice}

\* availability: "priced" and "unpriced" labels, or "blank".
HistoryRow == [source : {"booking", "jalan", "other"}, primary : MaybePrice,
               normalized : MaybePrice,
               availability : {"priced", "unpriced", "blank"}]

ASSUME SidecarAssumption ==
    /\ Hashes = Line \cup {Garbled} /\ Garbled \notin Line
    /\ NoExporter \notin Exporters /\ NoCapture \notin Captures
    /\ NoPrice \notin Prices
    /\ RowData \in [RowIds -> HistoryRow]
    /\ PriceIn \in [Captures -> MaybePrice]
    /\ Accepted \subseteq SUBSET RowIds
    /\ FirstCaptures \subseteq [RowIds -> Captures \cup {NoCapture}]
    /\ Replaceable \subseteq RowIds
    /\ Editable \subseteq Shards /\ Cuttable \subseteq Shards
    /\ MaxRuns \in Nat

VARIABLES store,    \* the shards' records
          lockf,    \* who created each shard's lock file
          temps,    \* each shard's temporary files, by the exporter that made it
          capture,  \* what is at each row's artifact path now
          edited,   \* shards edited by hand so far
          cut,      \* shards for which a temporary file was not written whole
          pc,       \* where each export stands
          ex,       \* each export's local state and result
          exports   \* exports started so far (bounded by MaxRuns)

vars == <<store, lockf, temps, capture, edited, cut, pc, ex, exports>>

Pc == {"idle", "shard", "verify", "write", "rename", "check", "done", "dead"}
Statuses == {"NOT_RUN", "OK", "PARTIAL_EVIDENCE_DEGRADED",
             "ERROR_NO_EFFECT_ON_HISTORY"}
Export == [rows : SUBSET RowIds, records : Database, todo : SUBSET Shards,
           at : Shards, old : Table, new : Table, image : Table, lost : BOOLEAN,
           conflicts : SUBSET RowIds, tampered : SUBSET Shards,
           locked : SUBSET Shards, status : Statuses]

NoExport == [rows |-> {}, records |-> [id \in RowIds |-> NoRow], todo |-> {},
             at |-> CHOOSE s \in Shards : TRUE, old |-> EmptyTable, new |-> EmptyTable,
             image |-> EmptyTable, lost |-> FALSE, conflicts |-> {}, tampered |-> {}, locked |-> {},
             status |-> "NOT_RUN"]

TypeOK ==
    /\ store \in Table
    /\ lockf \in [Shards -> Exporters \cup {NoExporter}]
    /\ temps \in [Shards -> SUBSET Exporters]
    /\ capture \in [RowIds -> Captures \cup {NoCapture}]
    /\ edited \in SUBSET Shards /\ cut \in SUBSET Shards
    /\ pc \in [Exporters -> Pc]
    /\ ex \in [Exporters -> Export]
    /\ exports \in 0..MaxRuns

Init ==
    /\ store = EmptyTable
    /\ lockf = [s \in Shards |-> NoExporter]
    /\ temps = [s \in Shards |-> {}]
    /\ capture \in FirstCaptures
    /\ edited = {} /\ cut = {}
    /\ pc = [e \in Exporters |-> "idle"]
    /\ ex = [e \in Exporters |-> NoExport]
    /\ exports = 0

Goto(e, label) == pc' = [pc EXCEPT ![e] = label]
-----------------------------------------------------------------------------
(* Building and verifying one record.                                        *)

\* Both prices blank under a label that states no usable price.
IsUnpricedAuditRow(row) ==
    /\ row.primary = NoPrice /\ row.normalized = NoPrice
    /\ row.availability = "unpriced"

\* The normalized price may be blank (row excluded from pricing use).
AcceptedPriceAgrees(row, proven) ==
    row.primary = proven /\ row.normalized \in {NoPrice, proven}

\* Mutant of Buildable: any readable capture will do.
BuildableFromAny(row, c) == c # NoCapture /\ row.source # "other"

\* Mutant of Buildable: the capture is not read.
BuildableUnread(row, c) == row.source # "other"

\* buildBookingRecord and buildJalanRecord do not refuse the row.
Buildable(row, c) ==
    /\ c # NoCapture
    /\ \/ /\ row.source = "booking" /\ IsUnpricedAuditRow(row)
          /\ PriceIn[c] = NoPrice
       \/ /\ row.source = "booking" /\ ~IsUnpricedAuditRow(row)
          /\ PriceIn[c] # NoPrice /\ AcceptedPriceAgrees(row, PriceIn[c])
       \/ row.source = "jalan" /\ AcceptedPriceAgrees(row, PriceIn[c])

\* verifyEvidenceRecord: the artifact is there with the sealed hash, and the
\* row's prices are bound to the price it proves.
PriceBound(row, c) ==
    LET proven == PriceIn[c] IN
    IF row.source = "booking" /\ IsUnpricedAuditRow(row) THEN proven = NoPrice
    ELSE /\ row.source = "booking" => proven # NoPrice
         /\ row.primary = proven
         /\ row.normalized # NoPrice => row.normalized = proven

\* verifyEvidenceRecordFullTrust has no problem to report of row id's line.
FullTrust(id, line) ==
    /\ line # Garbled
    /\ capture[id] = line.artifact
    /\ RowData[id].source \in {"booking", "jalan"}
    /\ PriceBound(RowData[id], line.artifact)
-----------------------------------------------------------------------------
(* One export: appendEvidenceSidecar shard by shard.                         *)

\* buildEvidenceForAcceptedRows over the captures as they are now.
Built(rows, run) ==
    [id \in RowIds |->
        IF id \in rows /\ Buildable(RowData[id], capture[id])
          THEN [run |-> run, artifact |-> capture[id]] ELSE NoRow]

\* A run appended rows to history and exports their evidence.
Begin(e) ==
    /\ pc[e] \in {"idle", "done"} /\ exports < MaxRuns
    /\ \E rows \in Accepted, run \in RunIds :
          LET records == Built(rows, run) IN
          ex' = [ex EXCEPT ![e] = [NoExport EXCEPT !.rows = rows,
                     !.records = records,
                     !.todo = {ShardOf[id] : id \in Stored(records)}]]
    /\ Goto(e, "shard")
    /\ exports' = exports + 1
    /\ UNCHANGED <<store, lockf, temps, capture, edited, cut>>

\* Mutant of OpenShard: an existing lock file is taken over.
OpenShardAnyway(e) ==
    /\ pc[e] = "shard"
    /\ \E s \in ex[e].todo :
          /\ lockf' = [lockf EXCEPT ![s] = e]
          /\ ex' = [ex EXCEPT ![e].at = s, ![e].todo = @ \ {s}]
    /\ Goto(e, "verify")
    /\ UNCHANGED <<store, temps, capture, edited, cut, exports>>

\* Exclusive creation of the shard's lock file.
OpenShard(e) ==
    /\ pc[e] = "shard"
    /\ \E s \in ex[e].todo :
          /\ lockf[s] = NoExporter
          /\ lockf' = [lockf EXCEPT ![s] = e]
          /\ ex' = [ex EXCEPT ![e].at = s, ![e].todo = @ \ {s}]
    /\ Goto(e, "verify")
    /\ UNCHANGED <<store, temps, capture, edited, cut, exports>>

\* Mutant of SkipLocked: the shard is skipped without a word.
SkipLockedSilently(e) ==
    /\ pc[e] = "shard"
    /\ \E s \in ex[e].todo : ex' = [ex EXCEPT ![e].todo = @ \ {s}]
    /\ UNCHANGED <<store, lockf, temps, capture, edited, cut, pc, exports>>

\* A lock file that exists, whoever left it, is neither waited on nor stolen;
\* one that cannot be created for another reason counts as locked too.
SkipLocked(e) ==
    /\ pc[e] = "shard"
    /\ \E s \in ex[e].todo :
          /\ ex' = [ex EXCEPT ![e].locked = @ \cup {s}, ![e].todo = @ \ {s}]
    /\ UNCHANGED <<store, lockf, temps, capture, edited, cut, pc, exports>>

\* finally: the lock file goes, whatever happened.
Unlock(e) == lockf' = [lockf EXCEPT ![ex[e].at] = NoExporter]

InShard(s) == {id \in RowIds : ShardOf[id] = s}

\* A line that does not verify, or a second line of one row_id.
Tampered(t, s) ==
    \E id \in InShard(s) : Len(t[id]) > 1
                           \/ \E i \in DOMAIN t[id] : t[id][i] = Garbled

\* This shard's records whose row_id the file does not have yet, as lines, and
\* those it has with another seal.
ToAdd(x) == {id \in Stored(x.records) \cap InShard(x.at) : store[id] = <<>>}
LinesOf(x, S) == [id \in RowIds |-> IF id \in S THEN <<x.records[id]>> ELSE <<>>]
Conflicts(x) == {id \in Stored(x.records) \cap InShard(x.at) :
                    store[id] # <<>> /\ store[id] # <<x.records[id]>>}

\* Orphaned temporary files are removed; the file is read and every line
\* verified; the records are sorted into new, identical and conflicting ones.
Verify(e) ==
    LET x == ex[e] IN
    /\ pc[e] = "verify"
    /\ temps' = [temps EXCEPT ![x.at] = {}]
    /\ \/ /\ Tampered(store, x.at)
          /\ ex' = [ex EXCEPT ![e].tampered = @ \cup {x.at}]
          /\ Unlock(e) /\ Goto(e, "shard")
       \/ /\ ~Tampered(store, x.at) /\ ToAdd(x) = {}
          /\ ex' = [ex EXCEPT ![e].conflicts = @ \cup Conflicts(x)]
          /\ Unlock(e) /\ Goto(e, "shard")
       \/ /\ ~Tampered(store, x.at) /\ ToAdd(x) # {}
          /\ ex' = [ex EXCEPT ![e].conflicts = @ \cup Conflicts(x),
                              ![e].old = store, ![e].new = LinesOf(x, ToAdd(x))]
          /\ Goto(e, "write")
          /\ UNCHANGED lockf
    /\ UNCHANGED <<store, capture, edited, cut, exports>>

\* What the file is to hold: the old bytes and the new lines.
Whole(x) == AppendLines(x.old, x.new)

\* Two writes, neither of whose results is looked at: either may have put down
\* less than it was given.  Lines are lost, old ones too; the bytes left of one
\* run into what follows.
CutShort(x, kept, last, rest) ==
    [id \in RowIds |-> IF id = last THEN rest
                       ELSE IF id \in kept THEN Whole(x)[id] ELSE <<>>]

\* The temporary file, fsynced.
WriteTemp(e) ==
    LET lines == Ids(Whole(ex[e])) \cap InShard(ex[e].at) IN
    /\ pc[e] = "write"
    /\ temps' = [temps EXCEPT ![ex[e].at] = @ \cup {e}]
    /\ \/ ex' = [ex EXCEPT ![e].image = Whole(ex[e])] /\ UNCHANGED cut
       \/ /\ ex[e].at \in Cuttable
          /\ \E kept \in SUBSET lines, last \in lines, rest \in {<<>>, <<Garbled>>} :
                ex' = [ex EXCEPT ![e].image = CutShort(ex[e], kept, last, rest)]
          /\ cut' = cut \cup {ex[e].at}
    /\ Goto(e, "rename")
    /\ UNCHANGED <<store, lockf, capture, edited, exports>>

\* Whether the rename takes a line away that was in the shard (a history of
\* what the export did; but for shards edited by hand).
TakesLines(x) ==
    /\ x.at \notin edited
    /\ \E id \in InShard(x.at) : store[id] # <<>> /\ x.image[id] # store[id]

\* The temporary file replaces the shard.
RenameTemp(e) ==
    /\ pc[e] = "rename" /\ e \in temps[ex[e].at]
    /\ store' = PutShards(store, ex[e].image, {ex[e].at})
    /\ ex' = [ex EXCEPT ![e].lost = TakesLines(ex[e]), ![e].new = EmptyTable,
                        ![e].image = EmptyTable]
    /\ temps' = [temps EXCEPT ![ex[e].at] = @ \ {e}]
    /\ Goto(e, "check")
    /\ UNCHANGED <<lockf, capture, edited, cut, exports>>

\* The old bytes are an exact prefix of what the file holds now.
PrefixKept(x) ==
    \A id \in InShard(x.at) : \A i \in DOMAIN x.old[id] :
        i \in DOMAIN store[id] /\ store[id][i] = x.old[id][i]

\* The file is read back and the shard is done.
CheckPrefix(e) ==
    /\ pc[e] = "check" /\ PrefixKept(ex[e])
    /\ ex' = [ex EXCEPT ![e].old = EmptyTable]
    /\ Unlock(e) /\ Goto(e, "shard")
    /\ UNCHANGED <<store, temps, capture, edited, cut, exports>>

\* A throw: the finally block removes the lock file, the remaining shards are
\* not visited, and the caller reports the error.  A failed write or rename
\* leaves its temporary file.
Throw(e) ==
    /\ \/ pc[e] \in {"verify", "rename"} /\ UNCHANGED temps
       \/ pc[e] = "write" /\ \E left \in SUBSET {e} :
             temps' = [temps EXCEPT ![ex[e].at] = @ \cup left]
       \/ pc[e] = "check" /\ ~PrefixKept(ex[e]) /\ UNCHANGED temps
    /\ ex' = [ex EXCEPT ![e] = [NoExport EXCEPT !.lost = ex[e].lost,
                                    !.status = "ERROR_NO_EFFECT_ON_HISTORY"]]
    /\ Unlock(e) /\ Goto(e, "done")
    /\ UNCHANGED <<store, capture, edited, cut, exports>>

\* evidenceExportStatus.
ExportStatus(x) ==
    IF /\ x.rows = Stored(x.records)
       /\ x.conflicts = {} /\ x.tampered = {} /\ x.locked = {}
      THEN "OK" ELSE "PARTIAL_EVIDENCE_DEGRADED"

Finish(e) ==
    /\ pc[e] = "shard" /\ ex[e].todo = {}
    /\ ex' = [ex EXCEPT ![e].status = ExportStatus(ex[e])]
    /\ Goto(e, "done")
    /\ UNCHANGED <<store, lockf, temps, capture, edited, cut, exports>>

ExportStep(e) ==
    \/ OpenShard(e) \/ SkipLocked(e) \/ Verify(e) \/ WriteTemp(e)
    \/ RenameTemp(e) \/ CheckPrefix(e) \/ Throw(e) \/ Finish(e)
-----------------------------------------------------------------------------
(* What happens around the exports.                                          *)

\* The process dies; its lock and temporary files stay.
Crash(e) ==
    /\ pc[e] \notin {"idle", "done", "dead"}
    /\ ex' = [ex EXCEPT ![e] = NoExport]
    /\ Goto(e, "dead")
    /\ UNCHANGED <<store, lockf, temps, capture, edited, cut, exports>>

\* Somebody edits a line of a shard by hand (once per shard).
Edit(s) ==
    /\ s \notin edited
    /\ \E id \in InShard(s) : \E i \in DOMAIN store[id] :
          store' = [store EXCEPT ![id][i] = Garbled]
    /\ edited' = edited \cup {s}
    /\ UNCHANGED <<lockf, temps, capture, cut, pc, ex, exports>>

\* A capture is pruned with its debug directory, or replaced.
ChangeCapture(id) ==
    /\ capture[id] # NoCapture
    /\ \E c \in Captures \cup {NoCapture} : capture' = [capture EXCEPT ![id] = c]
    /\ UNCHANGED <<store, lockf, temps, edited, cut, pc, ex, exports>>

Next ==
    \/ \E e \in Exporters : Begin(e) \/ ExportStep(e) \/ Crash(e)
    \/ \E s \in Editable : Edit(s)
    \/ \E id \in Replaceable : ChangeCapture(id)

Spec == Init /\ [][Next]_vars
=============================================================================
