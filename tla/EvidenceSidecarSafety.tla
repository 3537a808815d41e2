----------------------- MODULE EvidenceSidecarSafety ------------------------
(* For every set of exporters, rows, captures and accepted batches: the      *)
(* exclusive lock files keep the exports of one shard apart, so that what    *)
(* each of them read, planned and reported stays true of the store.          *)
EXTENDS EvidenceSidecarProps, HistoryTableFacts

-----------------------------------------------------------------------------
(* Types.                                                                    *)

LEMMA RecordTypes ==
    ASSUME TypeOK
    PROVE  /\ NoExport \in Export
           /\ \A rows, run : run \in RunIds => Built(rows, run) \in Database
           /\ \A x \in Export : \A S \in SUBSET Stored(x.records) :
                  LinesOf(x, S) \in Table
           /\ \A x \in Export : Whole(x) \in Table
           /\ \A x \in Export : \A kept, last, rest :
                  rest \in {<<>>, <<Garbled>>} => CutShort(x, kept, last, rest) \in Table
           /\ \A x \in Export : ToAdd(x) \subseteq Stored(x.records)
           /\ \A x \in Export : Conflicts(x) \in SUBSET RowIds
  <1>. USE SidecarAssumption, TableAssumption
  <1>1. NoExport \in Export
    <2>1. (CHOOSE s \in Shards : TRUE) \in Shards
      OBVIOUS
    <2>. QED
      BY <2>1, TableTypes DEF NoExport, Export, Database, Statuses
  <1>2. ASSUME NEW rows, NEW run \in RunIds PROVE Built(rows, run) \in Database
    <2>1. ASSUME NEW id \in RowIds, Buildable(RowData[id], capture[id])
          PROVE  [run |-> run, artifact |-> capture[id]] \in Hashes
      BY <2>1 DEF Buildable, TypeOK, Line
    <2>. QED
      BY <2>1 DEF Built, Database
  <1>3. ASSUME NEW x \in Export, NEW S \in SUBSET Stored(x.records)
        PROVE  LinesOf(x, S) \in Table
    <2>1. \A id \in S : x.records[id] \in Hashes
      BY DEF Export, Database, Stored
    <2>2. \A h \in Hashes : <<h>> \in Seq(Hashes)
      OBVIOUS
    <2>3. <<>> \in Seq(Hashes)
      OBVIOUS
    <2>4. \A id \in RowIds : LinesOf(x, S)[id] \in Seq(Hashes)
      BY <2>1, <2>2, <2>3 DEF LinesOf
    <2>. QED
      BY <2>4 DEF LinesOf, Table
  <1>6. ASSUME NEW x \in Export PROVE Whole(x) \in Table
    BY TableTypes DEF Whole, Export
  <1>4. ASSUME NEW x \in Export, NEW kept, NEW last, NEW rest \in {<<>>, <<Garbled>>}
        PROVE  CutShort(x, kept, last, rest) \in Table
    <2>1. \A id \in RowIds : Whole(x)[id] \in Seq(Hashes)
      BY <1>6 DEF Table
    <2>2. <<Garbled>> \in Seq(Hashes) /\ <<>> \in Seq(Hashes)
      OBVIOUS
    <2>3. \A id \in RowIds : CutShort(x, kept, last, rest)[id] \in Seq(Hashes)
      BY <2>1, <2>2 DEF CutShort
    <2>. QED
      BY <2>3 DEF CutShort, Table
  <1>5. ASSUME NEW x \in Export
        PROVE  /\ ToAdd(x) \subseteq Stored(x.records)
               /\ Conflicts(x) \in SUBSET RowIds
    BY DEF ToAdd, Conflicts, Stored
  <1>. QED
    BY <1>1, <1>2, <1>3, <1>4, <1>5, <1>6

\* What is written to the temporary file, and all that a write changes.
LEMMA WriteEffect ==
    ASSUME NEW e \in Exporters, WriteTemp(e)
    PROVE  \E image :
              /\ ex' = [ex EXCEPT ![e].image = image]
              /\ \/ image = Whole(ex[e]) /\ cut' = cut
                 \/ /\ cut' = cut \cup {ex[e].at}
                    /\ \E kept, last : \E rest \in {<<>>, <<Garbled>>} :
                           image = CutShort(ex[e], kept, last, rest)
  <1>1. CASE ex' = [ex EXCEPT ![e].image = Whole(ex[e])] /\ UNCHANGED cut
    BY <1>1
  <1>2. ASSUME NEW kept, NEW last, NEW rest \in {<<>>, <<Garbled>>},
               ex' = [ex EXCEPT ![e].image = CutShort(ex[e], kept, last, rest)],
               cut' = cut \cup {ex[e].at}
        PROVE  \E image :
              /\ ex' = [ex EXCEPT ![e].image = image]
              /\ \/ image = Whole(ex[e]) /\ cut' = cut
                 \/ /\ cut' = cut \cup {ex[e].at}
                    /\ \E k, l : \E r \in {<<>>, <<Garbled>>} :
                           image = CutShort(ex[e], k, l, r)
    <2>. DEFINE image == CutShort(ex[e], kept, last, rest)
    <2>1. \E k, l : \E r \in {<<>>, <<Garbled>>} : image = CutShort(ex[e], k, l, r)
      OBVIOUS
    <2>. HIDE DEF image
    <2>. QED
      BY <1>2, <2>1 DEF image
  <1>. QED
    BY <1>1, <1>2 DEF WriteTemp

LEMMA WriteKeeps ==
    ASSUME TypeOK, NEW e \in Exporters, WriteTemp(e)
    PROVE  /\ ex'[e].rows = ex[e].rows /\ ex'[e].records = ex[e].records
           /\ ex'[e].todo = ex[e].todo /\ ex'[e].at = ex[e].at
           /\ ex'[e].old = ex[e].old /\ ex'[e].new = ex[e].new
           /\ ex'[e].lost = ex[e].lost /\ ex'[e].conflicts = ex[e].conflicts
           /\ ex'[e].tampered = ex[e].tampered /\ ex'[e].locked = ex[e].locked
           /\ ex'[e].status = ex[e].status
           /\ \A f \in Exporters : f # e => ex'[f] = ex[f]
  <1>1. PICK image : ex' = [ex EXCEPT ![e].image = image]
    BY WriteEffect
  <1>. QED
    BY <1>1 DEF TypeOK, Export

LEMMA TypeStep == TypeOK /\ [Next]_vars => TypeOK'
  <1>. SUFFICES ASSUME TypeOK, [Next]_vars PROVE TypeOK'
    OBVIOUS
  <1>. USE DEF Goto, Unlock
  <1>0. /\ store \in Table /\ lockf \in [Shards -> Exporters \cup {NoExporter}]
        /\ temps \in [Shards -> SUBSET Exporters]
        /\ pc \in [Exporters -> Pc] /\ ex \in [Exporters -> Export]
        /\ edited \in SUBSET Shards /\ cut \in SUBSET Shards
        /\ exports \in 0..MaxRuns
        /\ capture \in [RowIds -> Captures \cup {NoCapture}]
    BY DEF TypeOK
  <1>1. ASSUME NEW e \in Exporters, Begin(e) PROVE TypeOK'
    <2>1. PICK rows \in Accepted, run \in RunIds :
            ex' = [ex EXCEPT ![e] = [NoExport EXCEPT !.rows = rows,
                     !.records = Built(rows, run),
                     !.todo = {ShardOf[id] : id \in Stored(Built(rows, run))}]]
      BY <1>1 DEF Begin
    <2>2. {ShardOf[id] : id \in Stored(Built(rows, run))} \in SUBSET Shards
      BY TableAssumption DEF Stored
    <2>3. rows \in SUBSET RowIds
      BY SidecarAssumption
    <2>4. ex' \in [Exporters -> Export]
      BY <1>0, <2>1, <2>2, <2>3, RecordTypes DEF Export
    <2>5. exports' \in 0..MaxRuns
      BY <1>0, <1>1, SidecarAssumption DEF Begin
    <2>. QED
      BY <1>0, <1>1, <2>4, <2>5 DEF Begin, TypeOK, Pc
  <1>2. ASSUME NEW e \in Exporters, OpenShard(e) PROVE TypeOK'
    <2>1. PICK s \in ex[e].todo :
              /\ lockf' = [lockf EXCEPT ![s] = e]
              /\ ex' = [ex EXCEPT ![e].at = s, ![e].todo = @ \ {s}]
      BY <1>2 DEF OpenShard
    <2>2. ex' \in [Exporters -> Export]
      <3>1. [ex[e] EXCEPT !.at = s, !.todo = @ \ {s}] \in Export
        BY <1>0 DEF Export
      <3>2. ex' = [ex EXCEPT ![e] = [ex[e] EXCEPT !.at = s, !.todo = @ \ {s}]]
        BY <1>0, <2>1
      <3>. QED
        BY <1>0, <3>1, <3>2
    <2>3. lockf' \in [Shards -> Exporters \cup {NoExporter}]
      BY <1>0, <2>1
    <2>. QED
      BY <1>0, <1>2, <2>2, <2>3 DEF OpenShard, TypeOK, Pc
  <1>3. ASSUME NEW e \in Exporters, SkipLocked(e) PROVE TypeOK'
    BY <1>0, <1>3 DEF SkipLocked, TypeOK, Export
  <1>4. ASSUME NEW e \in Exporters, Verify(e) PROVE TypeOK'
    <2>. DEFINE x == ex[e]
    <2>1. x \in Export /\ x.at \in Shards
      BY <1>0 DEF Export
    <2>2. LinesOf(x, ToAdd(x)) \in Table /\ Conflicts(x) \in SUBSET RowIds
      BY <2>1, RecordTypes
    <2>3. ex' \in [Exporters -> Export]
      <3>1. CASE ex' = [ex EXCEPT ![e].tampered = @ \cup {x.at}]
        BY <1>0, <2>1, <3>1 DEF Export
      <3>2. CASE ex' = [ex EXCEPT ![e].conflicts = @ \cup Conflicts(x)]
        BY <1>0, <2>1, <2>2, <3>2 DEF Export
      <3>3. CASE ex' = [ex EXCEPT ![e].conflicts = @ \cup Conflicts(x),
                            ![e].old = store, ![e].new = LinesOf(x, ToAdd(x))]
        BY <1>0, <2>1, <2>2, <3>3 DEF Export
      <3>. QED
        BY <1>4, <3>1, <3>2, <3>3 DEF Verify
    <2>4. pc' \in [Exporters -> Pc]
      BY <1>0, <1>4 DEF Verify, Pc
    <2>5. lockf' \in [Shards -> Exporters \cup {NoExporter}]
      BY <1>0, <1>4 DEF Verify
    <2>6. temps' \in [Shards -> SUBSET Exporters]
      BY <1>0, <1>4 DEF Verify
    <2>. QED
      BY <1>0, <1>4, <2>3, <2>4, <2>5, <2>6 DEF Verify, TypeOK
  <1>5. ASSUME NEW e \in Exporters, WriteTemp(e) PROVE TypeOK'
    <2>1. /\ ex[e] \in Export /\ Whole(ex[e]) \in Table
          /\ \A kept, last, rest : rest \in {<<>>, <<Garbled>>}
                => CutShort(ex[e], kept, last, rest) \in Table
      BY <1>0, RecordTypes
    <2>2. ex' \in [Exporters -> Export] /\ cut' \in SUBSET Shards
      <3>1. PICK image : /\ ex' = [ex EXCEPT ![e].image = image]
                         /\ \/ image = Whole(ex[e]) /\ cut' = cut
                            \/ /\ cut' = cut \cup {ex[e].at}
                               /\ \E kept, last : \E rest \in {<<>>, <<Garbled>>} :
                                      image = CutShort(ex[e], kept, last, rest)
        BY <1>5, WriteEffect
      <3>2. image \in Table
        BY <2>1, <3>1
      <3>3. [ex[e] EXCEPT !.image = image] \in Export
        BY <2>1, <3>2 DEF Export
      <3>4. ex' = [ex EXCEPT ![e] = [ex[e] EXCEPT !.image = image]]
        BY <1>0, <3>1
      <3>5. ex[e].at \in Shards
        BY <2>1 DEF Export
      <3>. QED
        BY <1>0, <3>1, <3>3, <3>4, <3>5
    <2>3. temps' \in [Shards -> SUBSET Exporters] /\ pc' \in [Exporters -> Pc]
      BY <1>0, <1>5 DEF WriteTemp, Pc
    <2>. QED
      BY <1>0, <1>5, <2>2, <2>3 DEF WriteTemp, TypeOK
  <1>6. ASSUME NEW e \in Exporters, RenameTemp(e) PROVE TypeOK'
    <2>1. store' \in Table
      BY <1>0, <1>6, TableTypes DEF RenameTemp, Export
    <2>2. TakesLines(ex[e]) \in BOOLEAN
      BY DEF TakesLines
    <2>3. ex' \in [Exporters -> Export]
      <3>. DEFINE y == [ex[e] EXCEPT !.lost = TakesLines(ex[e]), !.new = EmptyTable,
                                     !.image = EmptyTable]
      <3>1. y \in Export
        BY <1>0, <2>2, TableTypes DEF Export
      <3>2. ex' = [ex EXCEPT ![e] = y]
        BY <1>0, <1>6 DEF RenameTemp
      <3>. QED
        BY <1>0, <3>1, <3>2
    <2>. QED
      BY <1>0, <1>6, <2>1, <2>3 DEF RenameTemp, TypeOK, Pc
  <1>7. ASSUME NEW e \in Exporters, CheckPrefix(e) PROVE TypeOK'
    <2>1. ex' \in [Exporters -> Export]
      <3>1. [ex[e] EXCEPT !.old = EmptyTable] \in Export
        BY <1>0, TableTypes DEF Export
      <3>. QED
        BY <1>0, <1>7, <3>1 DEF CheckPrefix
    <2>. QED
      BY <1>0, <1>7, <2>1 DEF CheckPrefix, TypeOK, Pc
  <1>8. ASSUME NEW e \in Exporters, Throw(e) PROVE TypeOK'
    <2>1. temps' \in [Shards -> SUBSET Exporters]
      BY <1>0, <1>8 DEF Throw
    <2>2. ex' \in [Exporters -> Export]
      <3>1. ex[e].lost \in BOOLEAN /\ NoExport \in Export
        BY <1>0, RecordTypes DEF Export
      <3>2. ASSUME NEW lost \in BOOLEAN
            PROVE  [NoExport EXCEPT !.lost = lost,
                             !.status = "ERROR_NO_EFFECT_ON_HISTORY"] \in Export
        BY <3>1, <3>2 DEF Export, Statuses
      <3>. QED
        BY <1>0, <1>8, <3>1, <3>2 DEF Throw
    <2>. QED
      BY <1>0, <1>8, <2>1, <2>2 DEF Throw, TypeOK, Pc
  <1>9. ASSUME NEW e \in Exporters, Finish(e) PROVE TypeOK'
    <2>1. ExportStatus(ex[e]) \in Statuses
      BY DEF ExportStatus, Statuses
    <2>2. ex' \in [Exporters -> Export]
      <3>1. [ex[e] EXCEPT !.status = ExportStatus(ex[e])] \in Export
        BY <1>0, <2>1 DEF Export
      <3>. QED
        BY <1>0, <1>9, <3>1 DEF Finish
    <2>. QED
      BY <1>0, <1>9, <2>2 DEF Finish, TypeOK, Pc
  <1>10. ASSUME NEW e \in Exporters, Crash(e) PROVE TypeOK'
    BY <1>0, <1>10, RecordTypes DEF Crash, TypeOK, Pc
  <1>11. ASSUME NEW s \in Editable, Edit(s) PROVE TypeOK'
    <2>1. s \in Shards /\ Garbled \in Hashes
      BY SidecarAssumption
    <2>2. PICK id \in InShard(s) : \E i \in DOMAIN store[id] :
              store' = [store EXCEPT ![id][i] = Garbled]
      BY <1>11 DEF Edit
    <2>3. store' \in Table
      BY <1>0, <2>1, <2>2 DEF InShard, Table
    <2>. QED
      BY <1>0, <1>11, <2>1, <2>3 DEF Edit, TypeOK
  <1>12. ASSUME NEW id \in Replaceable, ChangeCapture(id) PROVE TypeOK'
    BY <1>0, <1>12 DEF ChangeCapture, TypeOK
  <1>13. CASE UNCHANGED vars
    BY <1>0, <1>13 DEF vars, TypeOK
  <1>. QED
    BY <1>1, <1>2, <1>3, <1>4, <1>5, <1>6, <1>7, <1>8, <1>9, <1>10, <1>11,
       <1>12, <1>13 DEF Next, ExportStep

\* Every variable keeps its type: the states the other results are about are
\* the states the exports and their surroundings can be in.
THEOREM SidecarTypes == Spec => []TypeOK
  <1>1. Init => TypeOK
    BY RecordTypes, TableTypes, SidecarAssumption, TableAssumption
    DEF Init, TypeOK, Pc, NoExport, Export, Database, Statuses
  <1>. QED
    BY <1>1, TypeStep, PTL DEF Spec

-----------------------------------------------------------------------------
(* The inductive invariant.                                                  *)

\* Every line verifies and every row_id has one line at most.
Clean(s) == \A id \in InShard(s) :
    store[id] # <<>> =>
        /\ Len(store[id]) = 1 /\ store[id][1] \in Line
        /\ Buildable(RowData[id], store[id][1].artifact)

\* Between taking the lock and releasing it the lock file is the export's.
LockInv ==
    \A e \in Exporters : pc[e] \in {"verify", "write", "rename", "check"} =>
        lockf[ex[e].at] = e

\* Each record is one the rules for building it allow.
RecordInv ==
    \A e \in Exporters : \A id \in Stored(ex[e].records) :
        /\ ex[e].records[id] \in Line
        /\ Buildable(RowData[id], ex[e].records[id].artifact)

\* What a plan to rewrite its shard says of the lines it read and adds: it adds
\* its records to empty places, and no other line.
Planned(x) ==
    \A id \in InShard(x.at) :
        /\ x.new[id] = IF id \in Stored(x.records) /\ x.old[id] = <<>>
                         THEN <<x.records[id]>> ELSE <<>>
        /\ id \in Stored(x.records) =>
               x.old[id] \in {<<>>, <<x.records[id]>>} \/ id \in x.conflicts

\* The temporary file has each row's lines, or has lost or garbled them.
Imaged(x) ==
    \A id \in InShard(x.at) :
        /\ x.image[id] \in {Whole(x)[id], <<>>, <<Garbled>>}
        /\ x.at \notin cut => x.image[id] = Whole(x)[id]

PlanInv ==
    \A e \in Exporters :
        /\ pc[e] \in {"write", "rename"} =>
               /\ ~Tampered(ex[e].old, ex[e].at)
               /\ Planned(ex[e])
               /\ ex[e].at \notin edited =>
                      \A id \in InShard(ex[e].at) : store[id] = ex[e].old[id]
        /\ pc[e] = "rename" => Imaged(ex[e])

\* An export that took a line away will find the old bytes changed, or has.
LostInv ==
    \A e \in Exporters : ex[e].lost =>
        \/ /\ pc[e] = "check"
           /\ ~Tampered(ex[e].old, ex[e].at) /\ ~PrefixKept(ex[e])
        \/ pc[e] = "done" /\ ex[e].status = "ERROR_NO_EFFECT_ON_HISTORY"

StoreInv == \A s \in Shards : s \notin edited \cup cut => Clean(s)

\* A record that needs no further work.
Settled(x, id) == StoredFor(x, id) \/ Damaged(id) \/ Reported(x, id)

\* Every record is settled, or its shard is yet to come or being worked on.
ProgressInv ==
    \A e \in Exporters :
        pc[e] \in {"shard", "verify", "write", "rename", "check"} =>
            \A id \in Stored(ex[e].records) :
                \/ ShardOf[id] \in ex[e].todo
                \/ pc[e] \in {"verify", "write", "rename"} /\ ShardOf[id] = ex[e].at
                \/ Settled(ex[e], id)

DoneInv ==
    \A e \in Exporters : pc[e] = "done" =>
        /\ ex[e].status \in {"OK", "PARTIAL_EVIDENCE_DEGRADED"} =>
               \A id \in Stored(ex[e].records) : Settled(ex[e], id)
        /\ ex[e].status = "OK" =>
               /\ ex[e].rows = Stored(ex[e].records)
               /\ \A id \in RowIds : ~Reported(ex[e], id)

IInv == /\ TypeOK /\ LockInv /\ RecordInv /\ PlanInv /\ StoreInv
        /\ LostInv /\ ProgressInv /\ DoneInv

-----------------------------------------------------------------------------
(* What one step does to the exports it is not about, and to the store.      *)

\* A step of one export leaves the others where they stand.
LEMMA OthersStay ==
    ASSUME TypeOK, NEW e \in Exporters, NEW f \in Exporters, f # e,
           Begin(e) \/ ExportStep(e) \/ Crash(e)
    PROVE  pc'[f] = pc[f] /\ ex'[f] = ex[f]
  <1>. USE DEF TypeOK, Goto
  <1>1. CASE Begin(e)
    BY <1>1 DEF Begin
  <1>2. CASE OpenShard(e) \/ SkipLocked(e)
    BY <1>2 DEF OpenShard, SkipLocked
  <1>3. CASE Verify(e)
    BY <1>3 DEF Verify
  <1>4. CASE WriteTemp(e) \/ RenameTemp(e) \/ CheckPrefix(e)
    BY <1>4 DEF WriteTemp, RenameTemp, CheckPrefix
  <1>5. CASE Throw(e) \/ Finish(e) \/ Crash(e)
    BY <1>5 DEF Throw, Finish, Crash
  <1>. QED
    BY <1>1, <1>2, <1>3, <1>4, <1>5 DEF ExportStep

\* Only a rename and a hand edit change the store; damage is never undone.
LEMMA StoreChanges ==
    ASSUME [Next]_vars
    PROVE  /\ edited \subseteq edited' /\ cut \subseteq cut'
           /\ \/ store' = store
              \/ \E e \in Exporters : RenameTemp(e)
              \/ \E s \in Editable : Edit(s)
  BY DEF Next, ExportStep, Begin, OpenShard, SkipLocked, Verify, WriteTemp,
         RenameTemp, CheckPrefix, Throw, Finish, Crash, Edit, ChangeCapture, vars

\* The lock file keeps two exports out of one shard.
LEMMA Exclusive ==
    ASSUME LockInv, NEW e \in Exporters, NEW f \in Exporters,
           pc[e] \in {"verify", "write", "rename", "check"},
           pc[f] \in {"verify", "write", "rename", "check"},
           ex[e].at = ex[f].at
    PROVE  e = f
  BY DEF LockInv

\* What is to be written at one row: the line read, or the line planned.
LEMMA WholeRow ==
    ASSUME TypeOK, PlanInv, NEW e \in Exporters, pc[e] \in {"write", "rename"},
           NEW id \in InShard(ex[e].at)
    PROVE  /\ ex[e].old[id] # <<>> => Whole(ex[e])[id] = ex[e].old[id]
           /\ ex[e].old[id] = <<>> => Whole(ex[e])[id] = ex[e].new[id]
  <1>. DEFINE x == ex[e]
  <1>1. /\ id \in RowIds
        /\ x.old[id] \in Seq(Hashes) /\ x.new[id] \in Seq(Hashes)
    BY DEF TypeOK, Export, Table, InShard
  <1>2. Whole(x)[id] = x.old[id] \o x.new[id]
    BY <1>1 DEF Whole, AppendLines
  <1>3. x.old[id] # <<>> => x.new[id] = <<>>
    BY DEF PlanInv, Planned
  <1>4. \A q \in Seq(Hashes) : q \o <<>> = q /\ <<>> \o q = q
    OBVIOUS
  <1>5. x.old[id] = <<>> => x.old[id] \o x.new[id] = x.new[id]
    BY <1>1, <1>4
  <1>6. x.new[id] = <<>> => x.old[id] \o x.new[id] = x.old[id]
    BY <1>1, <1>4
  <1>. QED
    BY <1>2, <1>3, <1>5, <1>6

\* What a rename puts at one row.
LEMMA RenameRow ==
    ASSUME TypeOK, PlanInv, NEW e \in Exporters, RenameTemp(e), NEW id \in RowIds
    PROVE  /\ ShardOf[id] # ex[e].at => store'[id] = store[id]
           /\ ShardOf[id] = ex[e].at => store'[id] = ex[e].image[id]
           /\ ShardOf[id] = ex[e].at /\ ex[e].at \notin cut =>
                 /\ ex[e].old[id] # <<>> => store'[id] = ex[e].old[id]
                 /\ ex[e].old[id] = <<>> => store'[id] = ex[e].new[id]
  <1>1. store'[id] = IF ShardOf[id] = ex[e].at THEN ex[e].image[id] ELSE store[id]
    BY DEF RenameTemp, PutShards
  <1>2. ASSUME ShardOf[id] = ex[e].at, ex[e].at \notin cut
        PROVE  store'[id] = Whole(ex[e])[id]
    BY <1>1, <1>2 DEF PlanInv, Imaged, RenameTemp, InShard
  <1>. QED
    BY <1>1, <1>2, WholeRow DEF RenameTemp, InShard

\* A line of a shard nobody damaged is there for good.
LEMMA LinesStay ==
    ASSUME TypeOK, PlanInv, [Next]_vars, NEW id \in RowIds,
           store[id] # <<>>, ShardOf[id] \notin edited' \cup cut'
    PROVE  store'[id] = store[id]
  <1>1. ShardOf[id] \notin edited /\ ShardOf[id] \notin cut
    BY StoreChanges
  <1>2. ASSUME NEW e \in Exporters, RenameTemp(e) PROVE store'[id] = store[id]
    <2>1. ShardOf[id] = ex[e].at => store[id] = ex[e].old[id]
      BY <1>1, <1>2 DEF PlanInv, RenameTemp, InShard
    <2>2. CASE ShardOf[id] = ex[e].at
      <3>1. ex[e].old[id] # <<>> /\ ex[e].at \notin cut
        BY <1>1, <2>1, <2>2
      <3>. QED
        BY <1>2, <2>1, <2>2, <3>1, RenameRow
    <2>. QED
      BY <1>2, <2>2, RenameRow
  <1>3. ASSUME NEW s \in Editable, Edit(s) PROVE store'[id] = store[id]
    <2>1. ShardOf[id] # s
      BY <1>3 DEF Edit
    <2>2. PICK other \in InShard(s) : \E i \in DOMAIN store[other] :
              store' = [store EXCEPT ![other][i] = Garbled]
      BY <1>3 DEF Edit
    <2>. QED
      BY <2>1, <2>2 DEF InShard, TypeOK, Table
  <1>. QED
    BY <1>2, <1>3, StoreChanges

-----------------------------------------------------------------------------
(* The parts of the invariant, one at a time.                                *)

LEMMA LockStep ==
    ASSUME TypeOK, LockInv, [Next]_vars
    PROVE  LockInv'
  <1>. USE DEF TypeOK, Goto, Unlock, LockInv
  <1>. DEFINE Critical == {"verify", "write", "rename", "check"}
  <1>1. ASSUME NEW e \in Exporters, Begin(e) \/ ExportStep(e) \/ Crash(e)
        PROVE  LockInv'
    <2>1. ASSUME NEW f \in Exporters, f # e, pc[f] \in Critical
          PROVE  lockf'[ex[f].at] = f
      <3>1. lockf[ex[f].at] = f /\ f # NoExporter /\ ex[f].at \in Shards
        BY <2>1, SidecarAssumption DEF Export
      <3>2. \/ lockf' = lockf
            \/ lockf' = [lockf EXCEPT ![ex[e].at] = NoExporter] /\ pc[e] \in Critical
            \/ \E s \in Shards : lockf[s] = NoExporter /\ lockf' = [lockf EXCEPT ![s] = e]
        BY <1>1 DEF ExportStep, Begin, OpenShard, SkipLocked, Verify, WriteTemp,
           RenameTemp, CheckPrefix, Throw, Finish, Crash, Export
      <3>. QED
        BY <2>1, <3>1, <3>2
    <2>2. ASSUME pc'[e] \in Critical PROVE lockf'[ex'[e].at] = e
      <3>1. CASE OpenShard(e)
        BY <3>1 DEF OpenShard, Export
      <3>2. CASE Verify(e)
        BY <2>2, <3>2 DEF Verify, Export
      <3>3. CASE WriteTemp(e) \/ RenameTemp(e)
        BY <3>3 DEF WriteTemp, RenameTemp, Export
      <3>. QED
        BY <1>1, <2>2, <3>1, <3>2, <3>3 DEF ExportStep, Begin, SkipLocked,
           CheckPrefix, Throw, Finish, Crash
    <2>. QED
      BY <1>1, <2>1, <2>2, OthersStay
  <1>2. CASE UNCHANGED <<lockf, pc, ex>>
    BY <1>2
  <1>. QED
    BY <1>1, <1>2 DEF Next, Edit, ChangeCapture, vars

LEMMA RecordStep ==
    ASSUME TypeOK, RecordInv, [Next]_vars
    PROVE  RecordInv'
  <1>. USE DEF TypeOK, RecordInv
  <1>1. ASSUME NEW e \in Exporters, Begin(e) PROVE RecordInv'
    <2>1. PICK rows \in Accepted, run \in RunIds :
              ex'[e].records = Built(rows, run)
      BY <1>1 DEF Begin, NoExport
    <2>2. ASSUME NEW id \in Stored(Built(rows, run))
          PROVE  /\ Built(rows, run)[id] \in Line
                 /\ Buildable(RowData[id], Built(rows, run)[id].artifact)
      <3>1. /\ Buildable(RowData[id], capture[id]) /\ id \in RowIds
            /\ Built(rows, run)[id] = [run |-> run, artifact |-> capture[id]]
        BY <2>2 DEF Stored, Built
      <3>2. capture[id] \in Captures
        BY <3>1 DEF Buildable
      <3>. QED
        BY <3>1, <3>2 DEF Line
    <2>3. ASSUME NEW f \in Exporters, f # e PROVE ex'[f] = ex[f]
      BY <1>1, <2>3, OthersStay
    <2>. QED
      BY <2>1, <2>2, <2>3 DEF Stored
  <1>2. ASSUME NEW e \in Exporters, ExportStep(e) \/ Crash(e),
               NEW f \in Exporters
        PROVE  ex'[f].records = ex[f].records \/ Stored(ex'[f].records) = {}
    <2>1. f # e => ex'[f] = ex[f]
      BY <1>2, OthersStay
    <2>2. ex'[e].records = ex[e].records \/ ex'[e].records = NoExport.records
      <3>1. CASE OpenShard(e)
        BY <3>1 DEF OpenShard, Export
      <3>2. CASE Verify(e)
        BY <3>2 DEF Verify, Export
      <3>3. CASE SkipLocked(e)
        BY <3>3 DEF SkipLocked, Export
      <3>4. CASE WriteTemp(e)
        BY <3>4, WriteKeeps
      <3>5. CASE RenameTemp(e) \/ CheckPrefix(e)
        BY <3>5 DEF RenameTemp, CheckPrefix, Export
      <3>6. CASE Throw(e) \/ Crash(e)
        BY <3>6 DEF Throw, Crash, NoExport
      <3>7. CASE Finish(e)
        BY <3>7 DEF Finish, Export
      <3>. QED
        BY <1>2, <3>1, <3>2, <3>3, <3>4, <3>5, <3>6, <3>7 DEF ExportStep
    <2>3. Stored(NoExport.records) = {}
      BY DEF NoExport, Stored
    <2>. QED
      BY <2>1, <2>2, <2>3
  <1>3. CASE ex' = ex
    BY <1>3 DEF Stored
  <1>4. ASSUME \A f \in Exporters : \/ ex'[f].records = ex[f].records
                                     \/ Stored(ex'[f].records) = {}
        PROVE  RecordInv'
    BY <1>4 DEF Stored
  <1>. QED
    BY <1>1, <1>2, <1>3, <1>4 DEF Next, Edit, ChangeCapture, vars

LEMMA StoreStep ==
    ASSUME TypeOK, PlanInv, RecordInv, StoreInv, [Next]_vars
    PROVE  StoreInv'
  <1>. SUFFICES ASSUME NEW s \in Shards, s \notin edited' \cup cut',
                       NEW id \in InShard(s), store'[id] # <<>>
                PROVE  /\ Len(store'[id]) = 1 /\ store'[id][1] \in Line
                       /\ Buildable(RowData[id], store'[id][1].artifact)
    BY DEF StoreInv, Clean
  <1>1. s \notin edited \cup cut /\ id \in RowIds /\ ShardOf[id] = s
    BY StoreChanges DEF InShard
  <1>2. CASE store[id] # <<>>
    <2>1. store'[id] = store[id]
      BY <1>1, <1>2, LinesStay
    <2>. QED
      BY <1>1, <1>2, <2>1 DEF StoreInv, Clean
  <1>3. CASE store[id] = <<>>
    <2>1. ~ \E t \in Editable : Edit(t)
      <3>. SUFFICES ASSUME NEW t \in Editable, Edit(t) PROVE FALSE
        OBVIOUS
      <3>1. PICK other \in InShard(t) : \E i \in DOMAIN store[other] :
                store' = [store EXCEPT ![other][i] = Garbled]
        BY DEF Edit
      <3>2. t # s
        BY DEF Edit
      <3>. QED
        BY <1>1, <1>3, <3>1, <3>2 DEF InShard, TypeOK, Table
    <2>2. PICK e \in Exporters : RenameTemp(e)
      BY <1>3, <2>1, StoreChanges
    <2>3. ex[e].at = s
      BY <1>1, <1>3, <2>2, RenameRow
    <2>4. ex[e].old[id] = <<>> /\ store'[id] = ex[e].new[id]
      BY <1>1, <1>3, <2>2, <2>3, RenameRow DEF PlanInv, RenameTemp
    <2>5. id \in Stored(ex[e].records) /\ store'[id] = <<ex[e].records[id]>>
      BY <1>1, <2>2, <2>3, <2>4 DEF PlanInv, Planned, RenameTemp
    <2>. QED
      BY <2>5 DEF RecordInv
  <1>. QED
    BY <1>2, <1>3

\* What the shard an export has locked holds is changed by hand edits only,
\* or by the export itself.
LEMMA ShardStays ==
    ASSUME TypeOK, LockInv, PlanInv, [Next]_vars, NEW f \in Exporters,
           pc[f] \in {"verify", "write", "rename", "check"}, ~RenameTemp(f),
           ex[f].at \notin edited', NEW id \in InShard(ex[f].at)
    PROVE  store'[id] = store[id]
  <1>. USE DEF TypeOK
  <1>1. ASSUME NEW e \in Exporters, RenameTemp(e) PROVE store'[id] = store[id]
    <2>1. ex[e].at # ex[f].at
      BY <1>1, Exclusive DEF RenameTemp
    <2>. QED
      BY <1>1, <2>1, RenameRow DEF InShard
  <1>2. ASSUME NEW t \in Editable, Edit(t) PROVE store'[id] = store[id]
    <2>1. PICK other \in InShard(t) : \E i \in DOMAIN store[other] :
            store' = [store EXCEPT ![other][i] = Garbled]
      BY <1>2 DEF Edit
    <2>2. t # ex[f].at
      BY <1>2 DEF Edit
    <2>. QED
      BY <2>1, <2>2 DEF InShard, Table
  <1>. QED
    BY <1>1, <1>2, StoreChanges

LEMMA PlanStep ==
    ASSUME TypeOK, LockInv, PlanInv, [Next]_vars
    PROVE  PlanInv'
  <1>. USE DEF TypeOK, Goto
  <1>. DEFINE Plan(f) ==
                /\ ~Tampered(ex[f].old, ex[f].at)
                /\ Planned(ex[f])
                /\ ex[f].at \notin edited =>
                       \A id \in InShard(ex[f].at) : store[id] = ex[f].old[id]
  \* A plan that was made before the step.
  <1>1. ASSUME NEW f \in Exporters, pc[f] \in {"write", "rename"}, ~RenameTemp(f),
               ex'[f] = ex[f]
        PROVE  Plan(f)'
    <2>1. Plan(f)
      BY <1>1 DEF PlanInv
    <2>2. Planned(ex'[f])
      BY <1>1, <2>1
    <2>3. ASSUME ex[f].at \notin edited', NEW id \in InShard(ex[f].at)
          PROVE  store'[id] = ex[f].old[id]
      BY <1>1, <2>1, <2>3, ShardStays, StoreChanges
    <2>. QED
      BY <1>1, <2>1, <2>2, <2>3
  <1>2. ASSUME NEW e \in Exporters, Verify(e), pc'[e] = "write" PROVE Plan(e)'
    <2>. DEFINE x == ex[e]
    <2>1. /\ ~Tampered(store, x.at) /\ store' = store
          /\ ex' = [ex EXCEPT ![e].conflicts = @ \cup Conflicts(x),
                              ![e].old = store, ![e].new = LinesOf(x, ToAdd(x))]
      BY <1>2 DEF Verify
    <2>2. /\ ex'[e].old = store /\ ex'[e].new = LinesOf(x, ToAdd(x))
          /\ ex'[e].at = x.at /\ ex'[e].records = x.records
          /\ Conflicts(x) \subseteq ex'[e].conflicts
      BY <2>1 DEF Export
    <2>3. Planned(ex'[e])
      BY <2>2 DEF Planned, LinesOf, ToAdd, Conflicts, InShard
    <2>. QED
      BY <2>1, <2>2, <2>3
  <1>3. ASSUME NEW e \in Exporters, WriteTemp(e) PROVE Plan(e)' /\ Imaged(ex[e])'
    <2>1. pc[e] = "write" /\ Plan(e) /\ UNCHANGED <<store, edited>>
      BY <1>3 DEF WriteTemp, PlanInv
    <2>2. /\ ex'[e].at = ex[e].at /\ ex'[e].old = ex[e].old
          /\ ex'[e].new = ex[e].new /\ ex'[e].records = ex[e].records
          /\ ex'[e].conflicts = ex[e].conflicts
      BY <1>3, WriteKeeps
    <2>3. PICK image : /\ ex' = [ex EXCEPT ![e].image = image]
                       /\ \/ image = Whole(ex[e]) /\ cut' = cut
                          \/ /\ cut' = cut \cup {ex[e].at}
                             /\ \E kept, last : \E rest \in {<<>>, <<Garbled>>} :
                                    image = CutShort(ex[e], kept, last, rest)
      BY <1>3, WriteEffect
    <2>8. ex'[e].image = image
      BY <2>3 DEF Export
    <2>4. Plan(e)'
      BY <2>1, <2>2 DEF Planned
    <2>5. Whole(ex[e])' = Whole(ex[e])
      BY <2>2 DEF Whole
    <2>6. CASE image = Whole(ex[e])
      BY <2>2, <2>4, <2>5, <2>6, <2>8 DEF Imaged
    <2>7. ASSUME cut' = cut \cup {ex[e].at}, NEW kept, NEW last,
                 NEW rest \in {<<>>, <<Garbled>>},
                 image = CutShort(ex[e], kept, last, rest)
          PROVE  Imaged(ex[e])'
      <3>1. \A id \in InShard(ex[e].at) :
                image[id] \in {Whole(ex[e])[id], <<>>, <<Garbled>>}
        BY <2>7 DEF CutShort, InShard
      <3>. QED
        BY <2>2, <2>5, <2>7, <2>8, <3>1 DEF Imaged
    <2>. QED
      BY <2>3, <2>4, <2>6, <2>7
  <1>4. ASSUME NEW e \in Exporters, Begin(e) \/ ExportStep(e) \/ Crash(e),
               NEW f \in Exporters, pc'[f] \in {"write", "rename"}
        PROVE  Plan(f)' /\ (pc'[f] = "rename" => Imaged(ex[f])')
    <2>1. CASE f # e
      <3>1. pc[f] = pc'[f] /\ ex'[f] = ex[f]
        BY <1>4, <2>1, OthersStay
      <3>2. ~RenameTemp(f)
        BY <1>4, <3>1 DEF RenameTemp
      <3>3. pc[f] = "rename" => Imaged(ex[f])'
        <4>1. cut \subseteq cut'
          BY StoreChanges
        <4>2. pc[f] = "rename" => Imaged(ex[f])
          BY DEF PlanInv
        <4>. QED
          BY <3>1, <4>1, <4>2 DEF Imaged, Whole
      <3>. QED
        BY <1>1, <1>4, <3>1, <3>2, <3>3
    <2>2. CASE f = e
      <3>1. (Verify(e) /\ pc'[e] = "write") \/ WriteTemp(e)
        BY <1>4, <2>2 DEF ExportStep, Begin, OpenShard, SkipLocked, Verify,
           RenameTemp, CheckPrefix, Throw, Finish, Crash
      <3>. QED
        BY <1>2, <1>3, <2>2, <3>1
    <2>. QED
      BY <2>1, <2>2
  <1>5. ASSUME UNCHANGED <<pc, ex, cut>>, \A e \in Exporters : ~RenameTemp(e),
               NEW f \in Exporters, pc'[f] \in {"write", "rename"}
        PROVE  Plan(f)' /\ (pc'[f] = "rename" => Imaged(ex[f])')
    <2>1. pc[f] = "rename" => Imaged(ex[f])
      BY DEF PlanInv
    <2>. QED
      BY <1>1, <1>5, <2>1 DEF Imaged, Whole
  <1>6. (\E t \in Editable : Edit(t)) \/ (\E id \in Replaceable : ChangeCapture(id))
           \/ UNCHANGED vars => UNCHANGED <<pc, ex, cut>>
    BY DEF Edit, ChangeCapture, vars
  <1>7. UNCHANGED <<pc, ex>> => \A e \in Exporters : ~RenameTemp(e)
    BY DEF RenameTemp
  <1>8. \A f \in Exporters : pc'[f] \in {"write", "rename"} =>
            Plan(f)' /\ (pc'[f] = "rename" => Imaged(ex[f])')
    BY <1>4, <1>5, <1>6, <1>7 DEF Next
  <1>. QED
    BY <1>8 DEF PlanInv

LEMMA LostStep ==
    ASSUME TypeOK, LockInv, PlanInv, LostInv, [Next]_vars
    PROVE  LostInv'
  <1>. USE DEF TypeOK, Goto
  <1>. DEFINE Found(f) == /\ pc[f] = "check"
                          /\ ~Tampered(ex[f].old, ex[f].at) /\ ~PrefixKept(ex[f])
  \* Nobody puts the line back.
  <1>1. ASSUME NEW f \in Exporters, Found(f), pc'[f] = "check", ex'[f] = ex[f]
        PROVE  Found(f)'
    <2>1. PICK id \in InShard(ex[f].at) : \E i \in DOMAIN ex[f].old[id] :
              ~(i \in DOMAIN store[id] /\ store[id][i] = ex[f].old[id][i])
      BY <1>1 DEF PrefixKept
    <2>. PICK i \in DOMAIN ex[f].old[id] :
              ~(i \in DOMAIN store[id] /\ store[id][i] = ex[f].old[id][i])
      BY <2>1
    <2>2. ex[f].old[id][i] # Garbled
      BY <1>1, <2>1 DEF Tampered
    <2>3. store'[id] = store[id] \/ \E t \in Editable : Edit(t)
      <3>1. ~RenameTemp(f)
        BY <1>1 DEF RenameTemp
      <3>2. (~ \E t \in Editable : Edit(t)) => store'[id] = store[id]
        <4>1. ASSUME NEW e \in Exporters, RenameTemp(e) PROVE store'[id] = store[id]
          <5>1. ex[e].at # ex[f].at
            BY <1>1, <3>1, <4>1, Exclusive DEF RenameTemp
          <5>. QED
            BY <2>1, <4>1, <5>1, RenameRow DEF InShard
        <4>. QED
          BY <4>1, StoreChanges
      <3>. QED
        BY <3>2
    <2>4. ASSUME NEW t \in Editable, Edit(t)
          PROVE  ~(i \in DOMAIN store'[id] /\ store'[id][i] = ex[f].old[id][i])
      <3>0. PICK other \in InShard(t) : \E k \in DOMAIN store[other] :
                store' = [store EXCEPT ![other][k] = Garbled]
        BY <2>4 DEF Edit
      <3>1. PICK k \in DOMAIN store[other] :
                store' = [store EXCEPT ![other][k] = Garbled]
        BY <3>0
      <3>2. id \in RowIds /\ other \in RowIds
        BY <2>1, <3>0 DEF InShard
      <3>3. CASE id # other
        BY <2>1, <3>1, <3>2, <3>3 DEF Table
      <3>4. CASE id = other
        <4>1. store'[id] = [store[id] EXCEPT ![k] = Garbled]
          BY <3>1, <3>2, <3>4 DEF Table
        <4>2. DOMAIN store'[id] = DOMAIN store[id]
          BY <4>1
        <4>. QED
          BY <2>1, <2>2, <4>1, <4>2
      <3>. QED
        BY <3>3, <3>4
    <2>5. ~PrefixKept(ex[f])'
      BY <1>1, <2>1, <2>3, <2>4 DEF PrefixKept
    <2>. QED
      BY <1>1, <2>5
  \* The step that takes it away.
  <1>2. ASSUME NEW e \in Exporters, RenameTemp(e), ex'[e].lost PROVE Found(e)'
    <2>. DEFINE x == ex[e]
    <2>1. /\ pc'[e] = "check" /\ ex'[e].old = x.old /\ ex'[e].at = x.at
          /\ TakesLines(x)
      BY <1>2 DEF RenameTemp, Export
    <2>2. PICK id \in InShard(x.at) : store[id] # <<>> /\ x.image[id] # store[id]
      BY <2>1 DEF TakesLines
    <2>3. x.old[id] = store[id] /\ Imaged(x) /\ ~Tampered(x.old, x.at)
      BY <1>2, <2>1, <2>2 DEF PlanInv, RenameTemp, TakesLines
    <2>4. Whole(x)[id] = x.old[id]
      BY <1>2, <2>2, <2>3, WholeRow DEF RenameTemp
    <2>5. x.image[id] \in {<<>>, <<Garbled>>}
      BY <2>2, <2>3, <2>4 DEF Imaged
    <2>6. store'[id] = x.image[id]
      BY <1>2, <2>2, RenameRow DEF InShard
    <2>7. 1 \in DOMAIN x.old[id] /\ x.old[id][1] # Garbled
      <3>1. x.old[id] \in Seq(Hashes) /\ x.old[id] # <<>>
        BY <2>2, <2>3 DEF InShard, Table, Export
      <3>2. 1 \in DOMAIN x.old[id]
        BY <3>1
      <3>. QED
        BY <2>2, <2>3, <3>2 DEF Tampered
    <2>8. ~(1 \in DOMAIN store'[id] /\ store'[id][1] = x.old[id][1])
      BY <2>5, <2>6, <2>7
    <2>. QED
      BY <2>1, <2>2, <2>3, <2>7, <2>8 DEF PrefixKept
  <1>3. ASSUME NEW e \in Exporters, Begin(e) \/ ExportStep(e) \/ Crash(e),
               NEW f \in Exporters, ex'[f].lost
        PROVE  \/ Found(f)'
               \/ pc'[f] = "done" /\ ex'[f].status = "ERROR_NO_EFFECT_ON_HISTORY"
    <2>1. CASE f # e
      <3>1. pc[f] = pc'[f] /\ ex'[f] = ex[f]
        BY <1>3, <2>1, OthersStay
      <3>2. \/ Found(f)
            \/ pc[f] = "done" /\ ex[f].status = "ERROR_NO_EFFECT_ON_HISTORY"
        BY <1>3, <3>1 DEF LostInv
      <3>. QED
        BY <1>1, <3>1, <3>2
    <2>2. CASE f = e /\ RenameTemp(e)
      BY <1>2, <1>3, <2>2
    <2>3. CASE f = e /\ (Begin(e) \/ Crash(e))
      <3>1. ~NoExport.lost
        BY DEF NoExport
      <3>2. CASE Begin(e)
        <4>1. PICK rows \in Accepted, run \in RunIds :
                ex' = [ex EXCEPT ![e] = [NoExport EXCEPT !.rows = rows,
                     !.records = Built(rows, run),
                     !.todo = {ShardOf[i] : i \in Stored(Built(rows, run))}]]
          BY <3>2 DEF Begin
        <4>2. ex'[e].lost = NoExport.lost
          <5>1. ASSUME NEW u, NEW v, NEW w
                PROVE  [NoExport EXCEPT !.rows = u, !.records = v, !.todo = w].lost
                           = NoExport.lost
            BY DEF NoExport
          <5>. QED
            BY <4>1, <5>1
        <4>. QED
          BY <1>3, <2>3, <3>1, <4>2
      <3>3. CASE Crash(e)
        BY <1>3, <2>3, <3>1, <3>3 DEF Crash
      <3>. QED
        BY <2>3, <3>2, <3>3
    <2>4. CASE f = e /\ Throw(e)
      <3>1. ex'[e] = [NoExport EXCEPT !.lost = ex[e].lost,
                                      !.status = "ERROR_NO_EFFECT_ON_HISTORY"]
        BY <2>4 DEF Throw
      <3>2. ex'[e].status = "ERROR_NO_EFFECT_ON_HISTORY"
        BY <3>1 DEF NoExport
      <3>. QED
        BY <2>4, <3>2 DEF Throw
    <2>5. CASE f = e /\ (\/ OpenShard(e) \/ SkipLocked(e) \/ Verify(e)
                         \/ WriteTemp(e) \/ CheckPrefix(e) \/ Finish(e))
      <3>1. ex'[e].lost = ex[e].lost
        <4>2. CASE WriteTemp(e)
          BY <4>2, WriteKeeps
        <4>3. CASE Verify(e)
          BY <4>3 DEF Verify, Export
        <4>4. CASE OpenShard(e)
          BY <4>4 DEF OpenShard, Export
        <4>5. CASE SkipLocked(e)
          BY <4>5 DEF SkipLocked, Export
        <4>6. CASE CheckPrefix(e)
          BY <4>6 DEF CheckPrefix, Export
        <4>7. CASE Finish(e)
          BY <4>7 DEF Finish, Export
        <4>. QED
          BY <2>5, <4>2, <4>3, <4>4, <4>5, <4>6, <4>7
      <3>2. ~ex[e].lost
        <4>1. pc[e] # "done"
          BY <2>5 DEF OpenShard, SkipLocked, Verify, WriteTemp, CheckPrefix, Finish
        <4>2. ~Found(e)
          BY <2>5 DEF OpenShard, SkipLocked, Verify, WriteTemp, CheckPrefix, Finish
        <4>. QED
          BY <4>1, <4>2 DEF LostInv
      <3>. QED
        BY <1>3, <2>5, <3>1, <3>2
    <2>. QED
      BY <1>3, <2>1, <2>2, <2>3, <2>4, <2>5 DEF ExportStep
  <1>4. ASSUME UNCHANGED <<pc, ex>>, NEW f \in Exporters, ex'[f].lost
        PROVE  \/ Found(f)'
               \/ pc'[f] = "done" /\ ex'[f].status = "ERROR_NO_EFFECT_ON_HISTORY"
    BY <1>1, <1>4 DEF LostInv
  <1>5. \/ \E e \in Exporters : Begin(e) \/ ExportStep(e) \/ Crash(e)
        \/ UNCHANGED <<pc, ex>>
    BY DEF Next, Edit, ChangeCapture, vars
  <1>. QED
    BY <1>3, <1>4, <1>5 DEF LostInv

\* What an export settled stays settled, whatever anybody does.
LEMMA SettledStays ==
    ASSUME TypeOK, PlanInv, [Next]_vars, NEW f \in Exporters, NEW id \in RowIds,
           ex'[f].records = ex[f].records,
           ex[f].locked \subseteq ex'[f].locked,
           ex[f].tampered \subseteq ex'[f].tampered,
           ex[f].conflicts \subseteq ex'[f].conflicts,
           Settled(ex[f], id)
    PROVE  Settled(ex[f], id)'
  <1>1. StoredFor(ex[f], id) => store[id] # <<>>
    BY DEF StoredFor
  <1>2. StoredFor(ex[f], id) => StoredFor(ex[f], id)' \/ Damaged(id)'
    BY <1>1, LinesStay DEF StoredFor, Damaged
  <1>3. Damaged(id) => Damaged(id)'
    BY StoreChanges DEF Damaged
  <1>4. Reported(ex[f], id) => Reported(ex[f], id)'
    BY DEF Reported
  <1>. QED
    BY <1>2, <1>3, <1>4 DEF Settled

LEMMA ProgressStep ==
    ASSUME TypeOK, LockInv, PlanInv, ProgressInv, [Next]_vars
    PROVE  ProgressInv'
  <1>. USE DEF TypeOK, Goto
  <1>. DEFINE Active == {"shard", "verify", "write", "rename", "check"}
              Open(f, id) ==
                \/ ShardOf[id] \in ex[f].todo
                \/ pc[f] \in {"verify", "write", "rename"} /\ ShardOf[id] = ex[f].at
                \/ Settled(ex[f], id)
  <1>1. ASSUME NEW f \in Exporters, pc'[f] \in Active, pc'[f] = pc[f],
               ex'[f] = ex[f], NEW id \in Stored(ex'[f].records)
        PROVE  Open(f, id)'
    <2>1. Open(f, id) /\ id \in RowIds
      BY <1>1 DEF ProgressInv, Stored
    <2>2. Settled(ex[f], id) => Settled(ex[f], id)'
      BY <1>1, <2>1, SettledStays
    <2>. QED
      BY <1>1, <2>1, <2>2
  <1>2. ASSUME NEW e \in Exporters, Begin(e), NEW id \in Stored(ex'[e].records)
        PROVE  ShardOf[id] \in ex'[e].todo
    <2>1. PICK rows \in Accepted, run \in RunIds :
              ex' = [ex EXCEPT ![e] = [NoExport EXCEPT !.rows = rows,
                     !.records = Built(rows, run),
                     !.todo = {ShardOf[i] : i \in Stored(Built(rows, run))}]]
      BY <1>2 DEF Begin
    <2>. DEFINE records == Built(rows, run)
                months == {ShardOf[i] : i \in Stored(records)}
    <2>2. ex'[e] = [NoExport EXCEPT !.rows = rows, !.records = records,
                                     !.todo = months]
      BY <2>1
    <2>3. ex'[e].records = records /\ ex'[e].todo = months
      <3>. HIDE DEF records, months
      <3>. QED
        BY <2>2 DEF NoExport
    <2>. QED
      BY <1>2, <2>3
  \* The steps of an export keep its records and what it settled so far.
  <1>3. ASSUME NEW e \in Exporters, ExportStep(e), pc'[e] \in Active
        PROVE  /\ pc[e] \in Active /\ ex'[e].records = ex[e].records
               /\ ex[e].locked \subseteq ex'[e].locked
               /\ ex[e].tampered \subseteq ex'[e].tampered
               /\ ex[e].conflicts \subseteq ex'[e].conflicts
    <2>1. CASE OpenShard(e)
      BY <2>1 DEF OpenShard, Export
    <2>2. CASE SkipLocked(e)
      BY <2>2 DEF SkipLocked, Export
    <2>3. CASE Verify(e)
      <3>1. pc[e] = "verify"
        BY <2>3 DEF Verify
      <3>2. CASE ex' = [ex EXCEPT ![e].tampered = @ \cup {ex[e].at}]
        BY <3>1, <3>2 DEF Export
      <3>3. CASE ex' = [ex EXCEPT ![e].conflicts = @ \cup Conflicts(ex[e])]
        BY <3>1, <3>3 DEF Export
      <3>4. CASE ex' = [ex EXCEPT ![e].conflicts = @ \cup Conflicts(ex[e]),
                                  ![e].old = store,
                                  ![e].new = LinesOf(ex[e], ToAdd(ex[e]))]
        BY <3>1, <3>4 DEF Export
      <3>. QED
        BY <2>3, <3>2, <3>3, <3>4 DEF Verify
    <2>4. CASE WriteTemp(e)
      <3>1. pc[e] = "write"
        BY <2>4 DEF WriteTemp
      <3>. QED
        BY <2>4, <3>1, WriteKeeps
    <2>5. CASE RenameTemp(e)
      BY <2>5 DEF RenameTemp, Export
    <2>6. CASE CheckPrefix(e)
      BY <2>6 DEF CheckPrefix, Export
    <2>. QED
      BY <1>3, <2>1, <2>2, <2>3, <2>4, <2>5, <2>6 DEF ExportStep, Throw, Finish
  <1>4. ASSUME NEW e \in Exporters, ExportStep(e), pc'[e] \in Active,
               NEW id \in Stored(ex'[e].records)
        PROVE  Open(e, id)'
    <2>1. Open(e, id) /\ id \in Stored(ex[e].records) /\ id \in RowIds
      BY <1>3, <1>4 DEF ProgressInv, Stored
    <2>2. Settled(ex[e], id) => Settled(ex[e], id)'
      BY <1>3, <1>4, <2>1, SettledStays
    <2>3. CASE OpenShard(e)
      <3>1. PICK s \in ex[e].todo : ex' = [ex EXCEPT ![e].at = s, ![e].todo = @ \ {s}]
        BY <2>3 DEF OpenShard
      <3>2. ex'[e].at = s /\ ex'[e].todo = ex[e].todo \ {s}
        BY <3>1 DEF Export
      <3>3. pc[e] = "shard" /\ pc'[e] = "verify"
        BY <2>3 DEF OpenShard
      <3>. QED
        BY <2>1, <2>2, <3>2, <3>3
    <2>4. CASE SkipLocked(e)
      <3>1. PICK s \in ex[e].todo :
                ex' = [ex EXCEPT ![e].locked = @ \cup {s}, ![e].todo = @ \ {s}]
        BY <2>4 DEF SkipLocked
      <3>2. ex'[e].locked = ex[e].locked \cup {s} /\ ex'[e].todo = ex[e].todo \ {s}
        BY <3>1 DEF Export
      <3>3. pc[e] = "shard" /\ pc'[e] = "shard"
        BY <2>4 DEF SkipLocked
      <3>4. ShardOf[id] = s => Settled(ex[e], id)'
        BY <3>2 DEF Settled, Reported
      <3>. QED
        BY <2>1, <2>2, <3>2, <3>3, <3>4
    <2>5. CASE Verify(e)
      <3>1. pc[e] = "verify" /\ ex'[e].todo = ex[e].todo /\ ex'[e].at = ex[e].at
        BY <2>5 DEF Verify, Export
      <3>2. CASE pc'[e] = "write"
        BY <2>1, <2>2, <3>1, <3>2
      <3>3. ASSUME pc'[e] = "shard", ShardOf[id] = ex[e].at PROVE Settled(ex[e], id)'
        <4>1. CASE ex' = [ex EXCEPT ![e].tampered = @ \cup {ex[e].at}]
          <5>1. ex[e].at \in ex'[e].tampered
            BY <4>1 DEF Export
          <5>. QED
            BY <3>3, <5>1 DEF Settled, Reported
        <4>2. CASE /\ ToAdd(ex[e]) = {} /\ store' = store
                   /\ ex' = [ex EXCEPT ![e].conflicts = @ \cup Conflicts(ex[e])]
          <5>1. /\ Conflicts(ex[e]) \subseteq ex'[e].conflicts
                /\ ex'[e].records = ex[e].records
            BY <4>2 DEF Export
          <5>2. id \in Stored(ex[e].records) \cap InShard(ex[e].at)
            BY <2>1, <3>3 DEF InShard
          <5>3. store[id] = <<ex[e].records[id]>> \/ id \in Conflicts(ex[e])
            BY <4>2, <5>2 DEF ToAdd, Conflicts
          <5>. QED
            BY <4>2, <5>1, <5>3 DEF Settled, Reported, StoredFor
        <4>. QED
          BY <2>5, <3>3, <4>1, <4>2 DEF Verify
      <3>4. pc'[e] \in {"write", "shard"}
        BY <2>5 DEF Verify
      <3>. QED
        BY <2>1, <2>2, <3>1, <3>2, <3>3, <3>4
    <2>6. CASE WriteTemp(e)
      <3>1. ex'[e].todo = ex[e].todo /\ ex'[e].at = ex[e].at
        BY <2>6, WriteKeeps
      <3>2. pc[e] = "write" /\ pc'[e] = "rename"
        BY <2>6 DEF WriteTemp
      <3>. QED
        BY <2>1, <2>2, <3>1, <3>2
    <2>7. CASE RenameTemp(e)
      <3>1. /\ pc[e] = "rename" /\ pc'[e] = "check" /\ cut' = cut
            /\ ex'[e].todo = ex[e].todo /\ ex'[e].records = ex[e].records
            /\ ex'[e].conflicts = ex[e].conflicts
        BY <2>7 DEF RenameTemp, Export
      <3>2. ASSUME ShardOf[id] = ex[e].at, ShardOf[id] \notin cut
            PROVE  Settled(ex[e], id)'
        <4>1. Planned(ex[e]) /\ id \in InShard(ex[e].at)
          BY <2>1, <3>1, <3>2 DEF PlanInv, InShard
        <4>2. \/ ex[e].old[id] = <<>> /\ ex[e].new[id] = <<ex[e].records[id]>>
              \/ ex[e].old[id] = <<ex[e].records[id]>>
              \/ id \in ex[e].conflicts
          BY <2>1, <4>1 DEF Planned
        <4>3. store'[id] = <<ex[e].records[id]>> \/ id \in ex[e].conflicts
          <5>1. ex[e].at \notin cut /\ <<ex[e].records[id]>> # <<>>
            BY <3>2
          <5>. QED
            BY <2>1, <2>7, <3>2, <4>2, <5>1, RenameRow
        <4>. QED
          BY <3>1, <4>3 DEF Settled, StoredFor, Reported
      <3>3. ShardOf[id] \in cut => Settled(ex[e], id)'
        BY <3>1 DEF Settled, Damaged
      <3>. QED
        BY <2>1, <2>2, <3>1, <3>2, <3>3
    <2>8. CASE CheckPrefix(e)
      BY <2>1, <2>2, <2>8 DEF CheckPrefix, Export
    <2>. QED
      BY <1>4, <2>3, <2>4, <2>5, <2>6, <2>7, <2>8 DEF ExportStep, Throw, Finish
  <1>5. ASSUME NEW e \in Exporters, Begin(e) \/ ExportStep(e) \/ Crash(e),
               NEW f \in Exporters, pc'[f] \in Active,
               NEW id \in Stored(ex'[f].records)
        PROVE  Open(f, id)'
    <2>1. CASE f # e
      BY <1>1, <1>5, <2>1, OthersStay
    <2>2. CASE f = e
      <3>1. Crash(e) => pc'[e] \notin Active
        BY DEF Crash
      <3>. QED
        BY <1>2, <1>4, <1>5, <2>2, <3>1
    <2>. QED
      BY <2>1, <2>2
  <1>6. ASSUME UNCHANGED <<pc, ex>>, NEW f \in Exporters, pc'[f] \in Active,
               NEW id \in Stored(ex'[f].records)
        PROVE  Open(f, id)'
    BY <1>1, <1>6
  <1>7. \/ \E e \in Exporters : Begin(e) \/ ExportStep(e) \/ Crash(e)
        \/ UNCHANGED <<pc, ex>>
    BY DEF Next, Edit, ChangeCapture, vars
  <1>. QED
    BY <1>5, <1>6, <1>7 DEF ProgressInv

LEMMA DoneStep ==
    ASSUME TypeOK, PlanInv, ProgressInv, DoneInv, [Next]_vars
    PROVE  DoneInv'
  <1>. USE DEF TypeOK, Goto
  <1>. DEFINE Done(f) ==
                /\ ex[f].status \in {"OK", "PARTIAL_EVIDENCE_DEGRADED"} =>
                       \A id \in Stored(ex[f].records) : Settled(ex[f], id)
                /\ ex[f].status = "OK" =>
                       /\ ex[f].rows = Stored(ex[f].records)
                       /\ \A id \in RowIds : ~Reported(ex[f], id)
  <1>1. ASSUME NEW f \in Exporters, pc[f] = "done", ex'[f] = ex[f]
        PROVE  Done(f)'
    <2>1. Done(f)
      BY <1>1 DEF DoneInv
    <2>2. \A id \in RowIds : Settled(ex[f], id) => Settled(ex[f], id)'
      BY <1>1, SettledStays
    <2>3. \A id \in RowIds : ~Reported(ex[f], id) => ~Reported(ex[f], id)'
      BY <1>1 DEF Reported
    <2>. QED
      BY <1>1, <2>1, <2>2, <2>3 DEF Stored
  <1>2. ASSUME NEW e \in Exporters, Finish(e) PROVE Done(e)'
    <2>1. /\ ex'[e].records = ex[e].records /\ ex'[e].rows = ex[e].rows
          /\ ex'[e].locked = ex[e].locked /\ ex'[e].tampered = ex[e].tampered
          /\ ex'[e].conflicts = ex[e].conflicts
          /\ ex'[e].status = ExportStatus(ex[e])
      BY <1>2 DEF Finish, Export
    <2>2. \A id \in Stored(ex[e].records) : Settled(ex[e], id)
      BY <1>2 DEF Finish, ProgressInv
    <2>3. \A id \in RowIds : Settled(ex[e], id) => Settled(ex[e], id)'
      BY <2>1, SettledStays
    <2>4. ExportStatus(ex[e]) = "OK" =>
              /\ ex[e].rows = Stored(ex[e].records)
              /\ ex[e].conflicts = {} /\ ex[e].tampered = {} /\ ex[e].locked = {}
      BY DEF ExportStatus
    <2>. QED
      BY <2>1, <2>2, <2>3, <2>4 DEF Stored, Reported
  <1>3. ASSUME NEW e \in Exporters, Throw(e) PROVE Done(e)'
    <2>1. ex'[e].status = "ERROR_NO_EFFECT_ON_HISTORY"
      BY <1>3 DEF Throw, Export
    <2>. QED
      BY <2>1
  <1>4. ASSUME NEW e \in Exporters, Begin(e) \/ ExportStep(e) \/ Crash(e),
               pc'[e] = "done"
        PROVE  Finish(e) \/ Throw(e)
    BY <1>4 DEF ExportStep, Begin, OpenShard, SkipLocked, Verify, WriteTemp,
       RenameTemp, CheckPrefix, Crash
  <1>5. ASSUME NEW e \in Exporters, Begin(e) \/ ExportStep(e) \/ Crash(e),
               NEW f \in Exporters, pc'[f] = "done"
        PROVE  Done(f)'
    <2>1. CASE f # e
      BY <1>1, <1>5, <2>1, OthersStay
    <2>2. CASE f = e
      BY <1>2, <1>3, <1>4, <1>5, <2>2
    <2>. QED
      BY <2>1, <2>2
  <1>6. \/ \E e \in Exporters : Begin(e) \/ ExportStep(e) \/ Crash(e)
        \/ UNCHANGED <<pc, ex>>
    BY DEF Next, Edit, ChangeCapture, vars
  <1>7. ASSUME UNCHANGED <<pc, ex>>, NEW f \in Exporters, pc'[f] = "done"
        PROVE  Done(f)'
    BY <1>1, <1>7
  <1>. QED
    BY <1>5, <1>6, <1>7 DEF DoneInv

-----------------------------------------------------------------------------
(* The theorems.                                                             *)

LEMMA Invariant == Spec => []IInv
  <1>1. Init => IInv
    <2>1. Init => TypeOK
      BY RecordTypes, TableTypes, SidecarAssumption, TableAssumption
      DEF Init, TypeOK, Pc, NoExport, Export, Database, Statuses
    <2>2. Init => /\ LockInv /\ RecordInv /\ PlanInv /\ StoreInv /\ LostInv
                  /\ ProgressInv /\ DoneInv
      BY DEF Init, LockInv, RecordInv, PlanInv, StoreInv, LostInv, ProgressInv, DoneInv,
             NoExport, Stored, Clean, EmptyTable, InShard
    <2>. QED
      BY <2>1, <2>2 DEF IInv
  <1>2. IInv /\ [Next]_vars => IInv'
    BY TypeStep, LockStep, RecordStep, PlanStep, StoreStep, LostStep, ProgressStep,
       DoneStep
    DEF IInv
  <1>. QED
    BY <1>1, <1>2, PTL DEF Spec

\* Whatever overlaps with an export, dies or is edited: what it reports is
\* what the store says, now and later.
THEOREM ReportsHold == Spec => []ReportIsComplete
  <1>1. IInv => ReportIsComplete
    <2>. SUFFICES ASSUME IInv, NEW e \in Exporters, pc[e] = "done"
                  PROVE
             /\ ex[e].status = "OK" =>
                    \A id \in ex[e].rows : StoredFor(ex[e], id) \/ Damaged(id)
             /\ ex[e].status = "PARTIAL_EVIDENCE_DEGRADED" =>
                    \A id \in Stored(ex[e].records) :
                        StoredFor(ex[e], id) \/ Damaged(id) \/ Reported(ex[e], id)
             /\ ex[e].lost => ex[e].status = "ERROR_NO_EFFECT_ON_HISTORY"
      BY DEF ReportIsComplete
    <2>1. DoneInv /\ LostInv
      BY DEF IInv
    <2>. QED
      BY <2>1 DEF DoneInv, LostInv, Settled, Stored
  <1>. QED
    BY <1>1, Invariant, PTL

\* A record in an undamaged shard has the price its history row states, so it
\* is trusted exactly while its capture is still there.
THEOREM TrustTheorem == Spec => []TrustIsEarned
  <1>1. IInv => TrustIsEarned
    <2>. SUFFICES ASSUME IInv, NEW id \in RowIds, ~Damaged(id), store[id] # <<>>
                  PROVE  FullTrust(id, store[id][1])
                            <=> capture[id] = store[id][1].artifact
      BY DEF TrustIsEarned
    <2>. DEFINE line == store[id][1]
    <2>1. line \in Line /\ Buildable(RowData[id], line.artifact)
      BY TableAssumption DEF IInv, StoreInv, Clean, InShard, Damaged
    <2>2. line # Garbled
      BY <2>1, SidecarAssumption
    <2>3. RowData[id].source \in {"booking", "jalan"}
      BY <2>1 DEF Buildable
    <2>4. PriceBound(RowData[id], line.artifact)
      BY <2>1 DEF Buildable, PriceBound, AcceptedPriceAgrees
    <2>. QED
      BY <2>2, <2>3, <2>4 DEF FullTrust
  <1>. QED
    BY <1>1, Invariant, PTL

\* The property on steps: in every interleaving of exports, crashes and edits
\* a shard changes by renames only, and a rename whose two writes were whole
\* loses and changes no line and leaves a file that verifies.
THEOREM AppendTheorem == Spec => ExportsOnlyAppend
  <1>. DEFINE Grows(s) ==
                /\ ~Tampered(store', s)
                /\ s \notin edited => \A id \in InShard(s) :
                       store[id] # <<>> => store'[id] = store[id]
              Step == edited' = edited => \A s \in Shards :
                  (\E id \in InShard(s) : store'[id] # store[id]) =>
                      \E e \in Exporters :
                          /\ pc[e] = "rename" /\ pc'[e] = "check" /\ ex[e].at = s
                          /\ WrittenWhole(e) => Grows(s)
  <1>1. ASSUME IInv, [Next]_vars, edited' = edited, NEW s \in Shards,
               \E id \in InShard(s) : store'[id] # store[id]
        PROVE  \E e \in Exporters :
                   /\ pc[e] = "rename" /\ pc'[e] = "check" /\ ex[e].at = s
                   /\ WrittenWhole(e) => Grows(s)
    <2>0. TypeOK /\ PlanInv /\ RecordInv
      BY <1>1 DEF IInv
    <2>1. PICK e \in Exporters : RenameTemp(e)
      BY <1>1, StoreChanges DEF Edit, InShard
    <2>. DEFINE x == ex[e]
    <2>2. x.at = s
      BY <1>1, <2>0, <2>1, RenameRow DEF InShard
    <2>3. ~Tampered(x.old, s) /\ Planned(x)
      BY <2>0, <2>1, <2>2 DEF PlanInv, RenameTemp
    <2>4. ASSUME WrittenWhole(e), NEW id \in InShard(s)
          PROVE  /\ x.old[id] # <<>> => store'[id] = x.old[id]
                 /\ x.old[id] = <<>> => store'[id] = x.new[id]
      <3>1. store'[id] = x.image[id]
        BY <2>0, <2>1, <2>2, <2>4, RenameRow DEF InShard
      <3>2. x.image[id] = Whole(x)[id]
        BY <2>2, <2>4 DEF WrittenWhole
      <3>. QED
        BY <2>0, <2>1, <2>2, <2>4, <3>1, <3>2, WholeRow DEF RenameTemp
    <2>5. ASSUME WrittenWhole(e), s \notin edited, NEW id \in InShard(s),
                 store[id] # <<>>
          PROVE  store'[id] = store[id]
      BY <2>0, <2>1, <2>2, <2>4, <2>5 DEF PlanInv, RenameTemp
    <2>6. ASSUME WrittenWhole(e), NEW id \in InShard(s)
          PROVE  /\ ~(Len(store'[id]) > 1)
                 /\ \A i \in DOMAIN store'[id] : store'[id][i] # Garbled
      <3>1. CASE x.old[id] # <<>>
        <4>1. store'[id] = x.old[id]
          BY <2>4, <2>6, <3>1
        <4>. QED
          BY <2>3, <2>6, <4>1 DEF Tampered
      <3>2. CASE x.old[id] = <<>>
        <4>1. store'[id] = x.new[id]
          BY <2>4, <2>6, <3>2
        <4>2. \/ x.new[id] = <<>>
              \/ id \in Stored(x.records) /\ x.new[id] = <<x.records[id]>>
          BY <2>2, <2>3, <2>6 DEF Planned
        <4>3. id \in Stored(x.records) => x.records[id] # Garbled
          BY <2>0, SidecarAssumption DEF RecordInv
        <4>4. \A h : Len(<<h>>) = 1 /\ DOMAIN <<h>> = {1} /\ <<h>>[1] = h
          OBVIOUS
        <4>5. Len(<<>>) = 0 /\ DOMAIN <<>> = {}
          OBVIOUS
        <4>6. CASE x.new[id] = <<>>
          BY <4>1, <4>5, <4>6
        <4>7. CASE id \in Stored(x.records) /\ x.new[id] = <<x.records[id]>>
          BY <4>1, <4>3, <4>4, <4>7
        <4>. QED
          BY <4>2, <4>6, <4>7
      <3>. QED
        BY <3>1, <3>2
    <2>7. WrittenWhole(e) => Grows(s)
      BY <2>5, <2>6 DEF Tampered
    <2>8. pc[e] = "rename" /\ pc'[e] = "check"
      BY <2>0, <2>1 DEF RenameTemp, Goto, TypeOK
    <2>. QED
      BY <2>2, <2>7, <2>8
  <1>2. IInv /\ [Next]_vars => [Step]_store
    BY <1>1
  <1>. QED
    BY <1>2, Invariant, PTL DEF Spec, ExportsOnlyAppend
=============================================================================
