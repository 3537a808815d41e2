-------------------------- MODULE RealAppendTypes ---------------------------
(* Types of runRealAppend's steps, for every set of rows, shards and         *)
(* processes: what the type correctness of the modules that use them rests   *)
(* on.                                                                       *)
EXTENDS RealAppend, HistoryTableFacts

-----------------------------------------------------------------------------
(* runRealAppend keeps its types.                                            *)

LEMMA RaIdleType == RaIdle \in RaState
  BY TableTypes DEF RaIdle, RaState, RaPc, Decisions

LEMMA MergedType ==
    ASSUME hist \in Table, NEW rows \in Table
    PROVE  Merged(rows) \in Table
  <1>1. ASSUME NEW id \in RowIds, ~(hist[id] = <<>> /\ rows[id] = <<>>)
        PROVE  FirstLine(rows, id) \in Hashes
    <2>1. hist[id] \in Seq(Hashes) /\ rows[id] \in Seq(Hashes)
      BY DEF Table
    <2>. QED
      BY <1>1, <2>1 DEF FirstLine
  <1>. QED
    BY <1>1 DEF Merged, Table

LEMMA RaReturnType ==
    ASSUME RaTypeOK, NEW p \in Procs, NEW decision \in Decisions,
           RaReturn(p, decision)
    PROVE  ra' \in [Procs -> RaState]
  BY RaIdleType DEF RaTypeOK, RaReturn, RaState, RaPc

LEMMA RaStartType ==
    ASSUME RaTypeOK, NEW p \in Procs, NEW rows \in Table, RaStart(p, rows)
    PROVE  RaTypeOK'
  BY RaIdleType DEF RaTypeOK, RaStart, RaState, RaPc

LEMMA RaStepType ==
    ASSUME RaTypeOK, NEW p \in Procs, RaStep(p)
    PROVE  RaTypeOK'
  <1>. USE DEF RaTypeOK, RemoveLockFile
  <1>0. ra[p] \in RaState
    OBVIOUS
  <1>1. CASE RaCheckLock(p)
    BY <1>1, RaReturnType DEF RaCheckLock, RaState, RaPc, Decisions
  <1>2. CASE RaReclaim(p)
    BY <1>2 DEF RaReclaim, RaState, RaPc
  <1>3. CASE RaTakeLock(p)
    BY <1>3 DEF RaTakeLock, RaState, RaPc
  <1>4. CASE RaRead(p)
    <2>. DEFINE rows == ra[p].rows
                r == [ra[p] EXCEPT !.pc = "write", !.merged = Merged(rows),
                                   !.existed = ShardsOf(hist),
                                   !.todo = ShardsOf(rows)]
    <2>1. rows \in Table
      BY <1>0 DEF RaState
    <2>2. Merged(rows) \in Table /\ ShardsOf(hist) \in SUBSET Shards
          /\ ShardsOf(rows) \in SUBSET Shards
      BY <2>1, MergedType, TableTypes
    <2>3. r \in RaState
      BY <1>0, <2>2 DEF RaState, RaPc
    <2>4. CASE RaReturn(p, "failed_write")
      BY <1>4, <2>4, RaReturnType DEF RaRead, Decisions
    <2>5. CASE ra' = [ra EXCEPT ![p] = r]
      BY <1>4, <2>3, <2>5 DEF RaRead
    <2>. QED
      BY <1>4, <2>4, <2>5 DEF RaRead
  <1>5. CASE RaWriteShard(p)
    <2>. PICK s \in ra[p].todo :
            /\ hist' = PutShards(hist, ra[p].merged, {s})
            /\ ra' = [ra EXCEPT
                        ![p].todo = @ \ {s},
                        ![p].undo = @ \cup {s},
                        ![p].backup = IF s \in ra[p].existed
                                        THEN PutShards(@, hist, {s}) ELSE @]
            /\ UNCHANGED <<alock, alockOld>>
      BY <1>5 DEF RaWriteShard
    <2>1. s \in Shards /\ ra[p].merged \in Table /\ ra[p].backup \in Table
      BY <1>0 DEF RaState
    <2>2. /\ PutShards(hist, ra[p].merged, {s}) \in Table
          /\ PutShards(ra[p].backup, hist, {s}) \in Table
      BY <2>1, TableTypes
    <2>3. ra' \in [Procs -> RaState]
      BY <1>0, <2>1, <2>2 DEF RaState
    <2>. QED
      BY <2>2, <2>3
  <1>6. CASE RaRollback(p)
    <2>1. ra' \in [Procs -> RaState]
      BY <1>6, RaReturnType DEF RaRollback, Decisions
    <2>2. ra[p].backup \in Table
      BY <1>0 DEF RaState
    <2>3. hist' \in Table
      BY <1>6, <2>2, TableTypes DEF RaRollback
    <2>4. alock' \in Procs \cup {NoProc} /\ alockOld' \in BOOLEAN
      BY <1>6 DEF RaRollback
    <2>. QED
      BY <2>1, <2>3, <2>4
  <1>7. CASE RaThrow(p)
    BY <1>7, RaReturnType DEF RaThrow, Decisions
  <1>8. CASE RaFinish(p)
    BY <1>8, RaReturnType DEF RaFinish, Decisions
  <1>. QED
    BY <1>1, <1>2, <1>3, <1>4, <1>5, <1>6, <1>7, <1>8 DEF RaStep
=============================================================================
