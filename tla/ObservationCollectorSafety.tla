--------------------- MODULE ObservationCollectorSafety ---------------------
(* For every set of firings, run ids and observations, and every timing that *)
(* CollectorAssumption admits: until a call hangs or the machine sleeps the   *)
(* run lock and the budget keep firings apart, the store only gains rows and *)
(* holds those of a successful firing, and the lock files of dead firings    *)
(* turn nobody away for long.                                                *)
EXTENDS ObservationCollectorProps, HistoryTableFacts

-----------------------------------------------------------------------------
(* Types.                                                                    *)

LEMMA NewRunType == NewRun \in RunState
  BY TableTypes, TableAssumption, CollectorAssumption
  DEF NewRun, RunState, Outcomes

LEMMA EndType ==
    ASSUME TypeOK, NEW r \in Runs, NEW outcome \in Outcomes, NEW label \in Pc,
           End(r, outcome, label)
    PROVE  /\ pc' \in [Runs -> Pc] /\ run' \in [Runs -> RunState]
           /\ pc' = [pc EXCEPT ![r] = label]
           /\ run' = [run EXCEPT ![r] = Ended(r, outcome)]
  <1>1. run[r].id \in RunIds /\ run[r].fired \in Nat /\ run[r].rows \in Table
    BY DEF TypeOK, RunState
  <1>2. Ended(r, outcome) \in RunState
    BY <1>1, NewRunType, TableTypes DEF Ended, RunState
  <1>. QED
    BY <1>2 DEF TypeOK, End, Goto

LEMMA ImageType ==
    ASSUME TypeOK, NEW r \in Runs
    PROVE  NewImage(r) \in Table
  <1>1. obs \in Table /\ run[r].rows \in Table
    BY DEF TypeOK, RunState
  <1>. DEFINE base == OnlyIds(obs, IF run[r].existed THEN InMonth(run[r].shard)
                                                     ELSE {})
              new == OnlyIds(run[r].rows, run[r].fresh)
  <1>2. base \in Table /\ new \in Table
    BY <1>1, TableTypes
  <1>. QED
    BY <1>2, TableTypes DEF NewImage

\* What a look at a shard changes.
LEMMA LookEffect ==
    ASSUME TypeOK, NEW r \in Runs, NEW s \in run[r].left
    PROVE  /\ Scanned(r, s) \in RunState /\ Indexed(r, s) \in RunState
           /\ Scanned(r, s).fired = run[r].fired
           /\ Indexed(r, s).fired = run[r].fired
           /\ Scanned(r, s).id = run[r].id /\ Indexed(r, s).id = run[r].id
           /\ Scanned(r, s).rows = run[r].rows /\ Indexed(r, s).rows = run[r].rows
           /\ Scanned(r, s).outcome = run[r].outcome
           /\ Indexed(r, s).outcome = run[r].outcome
           /\ Indexed(r, s).left = run[r].left \ {s}
           /\ Indexed(r, s).shard = s
           /\ Indexed(r, s).fresh = Collected(r, s) \ Ids(obs)
           /\ Indexed(r, s).existed = (Ids(obs) \cap InMonth(s) # {})
  <1>1. run[r] \in RunState /\ s \in Shards /\ Collected(r, s) \in SUBSET RowIds
    BY DEF TypeOK, RunState, Collected, Ids
  <1>. QED
    BY <1>1 DEF RunState, Scanned, Indexed

LEMMA CollectorRunType ==
    ASSUME TypeOK, NEW r \in Runs, RunStep(r) \/ Fail(r) \/ Crash(r)
    PROVE  TypeOK'
  <1>. USE DEF Goto
  <1>0. /\ pc \in [Runs -> Pc] /\ run \in [Runs -> RunState]
        /\ run[r] \in RunState /\ now \in Nat /\ late \in BOOLEAN
        /\ obs \in Table /\ clock \in LockFile /\ alock \in LockFile
    BY DEF TypeOK
  <1>1. NoLock \in LockFile /\ [owner |-> r, at |-> now] \in LockFile
    BY <1>0 DEF NoLock, LockFile
  <1>2. CASE Fire(r)
    <2>1. PICK id \in RunIds : run' = [run EXCEPT ![r].id = id, ![r].fired = now]
      BY <1>2 DEF Fire
    <2>2. run' \in [Runs -> RunState]
      BY <1>0, <2>1 DEF RunState
    <2>. QED
      BY <1>0, <1>2, <2>2 DEF Fire, TypeOK, Pc
  <1>3. CASE Lock(r)
    BY <1>0, <1>3, EndType DEF Lock, TypeOK, Pc, Outcomes
  <1>4. CASE Reclaim(r)
    BY <1>0, <1>1, <1>4 DEF Reclaim, TypeOK, Pc
  <1>5. CASE Take(r)
    <2>1. Cells[run[r].id] \in SUBSET RowIds
      BY <1>0, CollectorAssumption DEF RunState
    <2>. QED
      BY <1>0, <1>1, <1>5, <2>1 DEF Take, TypeOK, RunState, Pc
  <1>6. CASE Collect(r)
    BY <1>0, <1>6 DEF Collect, TypeOK, RunState, Pc
  <1>7. CASE Fetch(r)
    <2>1. PICK id \in run[r].todo, hash \in Hashes, skipped \in SUBSET run[r].todo :
              run' = [run EXCEPT ![r].rows[id] = <<hash>>,
                                 ![r].todo = @ \ (skipped \cup {id})]
      BY <1>7 DEF Fetch
    <2>2. [run[r].rows EXCEPT ![id] = <<hash>>] \in Table
      BY <1>0 DEF RunState, Table
    <2>3. run' \in [Runs -> RunState]
      BY <1>0, <2>1, <2>2 DEF RunState
    <2>. QED
      BY <1>0, <1>7, <2>3 DEF Fetch, TypeOK, Pc
  <1>8. CASE Report(r)
    BY <1>0, <1>8, EndType DEF Report, TypeOK, Pc, Outcomes
  <1>9. CASE AppendLock(r)
    BY <1>0, <1>9, EndType DEF AppendLock, TypeOK, Pc, Outcomes
  <1>10. CASE AppendReclaim(r)
    BY <1>0, <1>1, <1>10 DEF AppendReclaim, TypeOK, Pc
  <1>11. Months(r) \in SUBSET Shards
    BY <1>0, TableTypes DEF Months, RunState
  <1>12. CASE AppendTake(r)
    BY <1>0, <1>1, <1>11, <1>12 DEF AppendTake, TypeOK, RunState, Pc
  <1>13. CASE Scan(r)
    <2>1. CASE End(r, "blocked_conflict", "unlock")
      BY <1>0, <1>13, <2>1, EndType DEF Scan, TypeOK, Pc, Outcomes
    <2>2. CASE /\ run' = [run EXCEPT ![r].left = Months(r)]
               /\ pc' = [pc EXCEPT ![r] = "index"]
      BY <1>0, <1>11, <1>13, <2>2 DEF Scan, TypeOK, RunState, Pc
    <2>3. ASSUME NEW s \in run[r].left, run' = [run EXCEPT ![r] = Scanned(r, s)],
                 UNCHANGED pc
          PROVE  TypeOK'
      BY <1>0, <1>13, <2>3, LookEffect DEF Scan, TypeOK
    <2>. QED
      BY <1>13, <2>1, <2>2, <2>3 DEF Scan
  <1>14. CASE Index(r)
    <2>1. CASE End(r, "success", "unlock")
      BY <1>0, <1>14, <2>1, EndType DEF Index, TypeOK, Pc, Outcomes
    <2>2. ASSUME NEW s \in run[r].left, NEW label \in {"index", "copy"},
                 run' = [run EXCEPT ![r] = Indexed(r, s)],
                 pc' = [pc EXCEPT ![r] = label]
          PROVE  TypeOK'
      BY <1>0, <1>14, <2>2, LookEffect DEF Index, TypeOK, Pc
    <2>. QED
      BY <1>14, <2>1, <2>2 DEF Index
  <1>15. CASE Copy(r)
    BY <1>0, <1>15, ImageType DEF Copy, TypeOK, RunState, Pc
  <1>16. CASE Rename(r)
    <2>1. obs' \in Table
      BY <1>0, <1>16, TableTypes DEF Rename, RunState
    <2>2. run' \in [Runs -> RunState]
      <3>1. run' = [run EXCEPT ![r] = [run[r] EXCEPT !.image = EmptyTable,
                                                     !.fresh = {}]]
        BY <1>0, <1>16 DEF Rename
      <3>. QED
        BY <1>0, <3>1, TableTypes DEF RunState
    <2>. QED
      BY <1>0, <1>16, <2>1, <2>2 DEF Rename, TypeOK, Pc
  <1>17. CASE Unlock(r)
    BY <1>0, <1>1, <1>17 DEF Unlock, TypeOK, Pc
  <1>18. CASE Release(r)
    BY <1>0, <1>1, <1>18 DEF Release, TypeOK, Pc
  <1>19. CASE Fail(r)
    BY <1>0, <1>19, EndType DEF Fail, TypeOK, Pc, Outcomes
  <1>20. CASE Crash(r)
    BY <1>0, <1>20, EndType DEF Crash, TypeOK, Pc, Outcomes
  <1>. QED
    BY <1>2, <1>3, <1>4, <1>5, <1>6, <1>7, <1>8, <1>9, <1>10, <1>12, <1>13,
       <1>14, <1>15, <1>16, <1>17, <1>18, <1>19, <1>20 DEF RunStep

LEMMA CollectorTypeStep == TypeOK /\ [Next]_vars => TypeOK'
  <1>. SUFFICES ASSUME TypeOK, [Next]_vars PROVE TypeOK'
    OBVIOUS
  <1>1. CASE Tick
    BY <1>1 DEF Tick, TypeOK, Prompt
  <1>2. CASE UNCHANGED vars
    BY <1>2 DEF vars, TypeOK
  <1>. QED
    BY <1>1, <1>2, CollectorRunType DEF Next

LEMMA CollectorTypeInit == Init => TypeOK
  <1>1. NoLock \in LockFile /\ FirstObs \in Table
    BY CollectorAssumption DEF NoLock, LockFile
  <1>2. ASSUME Init
        PROVE  pc \in [Runs -> Pc] /\ run \in [Runs -> RunState]
    BY <1>2, NewRunType DEF Init, Pc
  <1>3. ASSUME Init PROVE now \in Nat /\ late \in BOOLEAN
    BY <1>3 DEF Init
  <1>4. ASSUME Init PROVE obs \in Table /\ clock \in LockFile /\ alock \in LockFile
    BY <1>1, <1>4 DEF Init
  <1>. QED
    BY <1>2, <1>3, <1>4 DEF TypeOK

\* The collector, its locks and its store keep their types.
THEOREM CollectorTypeCorrect == Spec => []TypeOK
  BY CollectorTypeInit, CollectorTypeStep, PTL DEF Spec
-----------------------------------------------------------------------------
(* Firings do not meet.                                                      *)

LEMMA EndEffect ==
    ASSUME TypeOK, NEW r \in Runs, NEW outcome, NEW label, End(r, outcome, label)
    PROVE  /\ \A q \in Runs : q # r => pc'[q] = pc[q] /\ run'[q] = run[q]
           /\ pc'[r] = label /\ run'[r].outcome = outcome
           /\ run'[r].fired = run[r].fired /\ run'[r].id = run[r].id
           /\ run'[r].rows = IF outcome = "success" THEN run[r].rows ELSE EmptyTable
  <1>1. /\ Ended(r, outcome).outcome = outcome
        /\ Ended(r, outcome).fired = run[r].fired
        /\ Ended(r, outcome).id = run[r].id
        /\ Ended(r, outcome).rows =
               IF outcome = "success" THEN run[r].rows ELSE EmptyTable
    BY DEF Ended, NewRun
  <1>. QED
    BY <1>1 DEF End, Goto, TypeOK

\* Once only the runs' own steps are looked at, their firing times stay.
LEMMA FiredKept ==
    ASSUME TypeOK, NEW r \in Runs, RunStep(r) \/ Fail(r) \/ Crash(r)
    PROVE  /\ \A q \in Runs : q # r => pc'[q] = pc[q] /\ run'[q] = run[q]
           /\ UNCHANGED <<now, late>>
           /\ \/ Fire(r) /\ run'[r].fired = now /\ pc[r] = "new" /\ pc'[r] = "lock"
              \/ /\ run'[r].fired = run[r].fired
                 /\ pc[r] # "new" /\ pc'[r] # "new"
  <1>. USE DEF TypeOK, RunState, Goto
  <1>1. CASE Fire(r)
    <2>1. PICK id \in RunIds : run' = [run EXCEPT ![r].id = id, ![r].fired = now]
      BY <1>1 DEF Fire
    <2>2. /\ \A q \in Runs : q # r => run'[q] = run[q]
          /\ run'[r].fired = now
      BY <2>1
    <2>3. /\ \A q \in Runs : q # r => pc'[q] = pc[q]
          /\ pc[r] = "new" /\ pc'[r] = "lock" /\ UNCHANGED <<now, late>>
      BY <1>1 DEF Fire
    <2>. QED
      BY <1>1, <2>2, <2>3
  <1>2. CASE Lock(r)
    BY <1>2, EndEffect DEF Lock
  <1>3. CASE Reclaim(r)
    BY <1>3 DEF Reclaim
  <1>4. CASE Take(r)
    BY <1>4 DEF Take
  <1>5. CASE Collect(r)
    BY <1>5 DEF Collect
  <1>6. CASE Fetch(r)
    BY <1>6 DEF Fetch
  <1>7. CASE Report(r)
    BY <1>7, EndEffect DEF Report
  <1>8. CASE AppendLock(r)
    BY <1>8, EndEffect DEF AppendLock
  <1>9. CASE AppendReclaim(r)
    BY <1>9 DEF AppendReclaim
  <1>10. CASE AppendTake(r)
    BY <1>10 DEF AppendTake
  <1>11. CASE Scan(r)
    BY <1>11, EndEffect, LookEffect DEF Scan
  <1>12. CASE Index(r)
    <2>1. CASE End(r, "success", "unlock")
      BY <1>12, <2>1, EndEffect DEF Index
    <2>2. CASE ~End(r, "success", "unlock")
      BY <1>12, <2>2, LookEffect DEF Index
    <2>. QED
      BY <2>1, <2>2
  <1>13. CASE Copy(r)
    BY <1>13 DEF Copy
  <1>14. CASE Rename(r)
    BY <1>14 DEF Rename
  <1>15. CASE Unlock(r)
    BY <1>15 DEF Unlock
  <1>16. CASE Release(r)
    BY <1>16 DEF Release
  <1>17. CASE Fail(r)
    BY <1>17, EndEffect DEF Fail
  <1>18. CASE Crash(r)
    BY <1>18, EndEffect DEF Crash
  <1>. QED
    BY <1>1, <1>2, <1>3, <1>4, <1>5, <1>6, <1>7, <1>8, <1>9, <1>10, <1>11,
       <1>12, <1>13, <1>14, <1>15, <1>16, <1>17, <1>18 DEF RunStep

\* What was not orderly stays so.
LEMMA OrderlyBefore ==
    ASSUME TypeOK, [Next]_vars, Orderly'
    PROVE  Orderly
  <1>. USE DEF Orderly, Fired
  <1>1. CASE Tick
    BY <1>1 DEF Tick
  <1>2. CASE UNCHANGED vars
    BY <1>2 DEF vars
  <1>3. ASSUME NEW r \in Runs, RunStep(r) \/ Fail(r) \/ Crash(r)
        PROVE  Orderly
    <2>1. ~late
      BY <1>3, FiredKept
    <2>2. \A q \in Fired : q \in Fired' /\ run'[q].fired = run[q].fired
      BY <1>3, FiredKept
    <2>. QED
      BY <2>1, <2>2
  <1>. QED
    BY <1>1, <1>2, <1>3 DEF Next

\* The lock file is that of the firing inside, and is not old yet, unless a
\* call has hung: the budget and the requests' time limits end the firing before.  A firing that found no
\* fresh lock has looked at this very moment, and finds nobody inside.
LockInvOf(r) ==
    /\ pc[r] \in {"lock", "reclaim", "take"} => run[r].fired = now
    /\ pc[r] \in {"reclaim", "take"} => \A q \in Runs : ~Inside(q)
    /\ Inside(r) => clock.owner = r /\ now < clock.at + Timeout + MaxRequest
    /\ pc[r] \in {"collect", "fetch"} => run[r].start = clock.at
    /\ pc[r] = "fetch" => /\ run[r].since < clock.at + Timeout
                          /\ now <= run[r].since + MaxRequest
LockInv == Orderly => \A r \in Runs : LockInvOf(r)

LEMMA TickKeepsLockInv ==
    ASSUME TypeOK, LockInv, Tick
    PROVE  LockInv'
  <1>. SUFFICES ASSUME Orderly', NEW r \in Runs PROVE LockInvOf(r)'
    BY DEF LockInv
  <1>1. Orderly /\ Prompt
    BY OrderlyBefore DEF Next, Tick, Orderly
  <1>2. LockInvOf(r) /\ \A q \in Runs : LockInvOf(q)
    BY <1>1 DEF LockInv
  <1>3. \/ pc[r] \in {"new", "done", "dead"}
        \/ pc[r] = "fetch" /\ now < run[r].since + MaxRequest
    BY <1>1 DEF Prompt
  <1>4. /\ now' = now + 1 /\ UNCHANGED <<pc, run, clock>>
        /\ now \in Nat /\ clock.at \in Nat /\ run[r].since \in Nat
        /\ Timeout \in Nat /\ MaxRequest \in Nat
    BY CollectorAssumption DEF Tick, TypeOK, RunState, LockFile
  <1>. QED
    BY <1>2, <1>3, <1>4 DEF LockInvOf, Inside, Pc

LEMMA RunKeepsLockInv ==
    ASSUME TypeOK, LockInv, NEW r \in Runs, RunStep(r) \/ Fail(r) \/ Crash(r)
    PROVE  LockInv'
  <1>. SUFFICES ASSUME Orderly', NEW q \in Runs PROVE LockInvOf(q)'
    BY DEF LockInv
  <1>. USE DEF Goto
  <1>0. /\ pc \in [Runs -> Pc] /\ run \in [Runs -> RunState]
        /\ now \in Nat /\ clock.at \in Nat /\ clock.owner \in Runs \cup {NoRun}
        /\ Timeout \in Nat \ {0} /\ MaxRequest \in Nat /\ Stale \in Nat
        /\ Timeout + MaxRequest <= Stale /\ NoRun \notin Runs
    BY CollectorAssumption DEF TypeOK, LockFile
  <1>1. Orderly /\ (\A p \in Runs : LockInvOf(p))
    BY OrderlyBefore DEF Next, LockInv
  <1>2. /\ \A p \in Runs : p # r => pc'[p] = pc[p] /\ run'[p] = run[p]
        /\ now' = now
    BY FiredKept
  \* A step that moves an execution on, or out, and leaves the lock alone.
  <1>3. ASSUME UNCHANGED clock, Inside(r),
               \/ pc'[r] \notin {"lock", "reclaim", "take", "collect", "fetch"}
               \/ /\ pc[r] = "fetch" /\ pc'[r] = "collect"
                  /\ run'[r].start = run[r].start
        PROVE  LockInvOf(q)'
    <2>1. CASE q # r
      <3>1. pc[q] \notin {"reclaim", "take"}
        BY <1>1, <1>3 DEF LockInvOf
      <3>. QED
        BY <1>1, <1>2, <1>3, <2>1, <3>1 DEF LockInvOf, Inside
    <2>2. CASE q = r /\ pc'[r] # "collect"
      BY <1>1, <1>2, <1>3, <2>2 DEF LockInvOf, Inside
    <2>3. CASE q = r /\ pc'[r] = "collect"
      BY <1>1, <1>2, <1>3, <2>3 DEF LockInvOf, Inside
    <2>. QED
      BY <2>1, <2>2, <2>3
  <1>4. ASSUME UNCHANGED clock, pc'[r] \in {"done", "dead"}
        PROVE  LockInvOf(q)'
    BY <1>0, <1>1, <1>2, <1>4 DEF LockInvOf, Inside, Pc
  <1>5. CASE Fire(r)
    <2>1. run'[r].fired = now /\ pc'[r] = "lock" /\ pc[r] = "new" /\ clock' = clock
      BY <1>5, FiredKept DEF Fire
    <2>. QED
      BY <1>0, <1>1, <1>2, <2>1 DEF LockInvOf, Inside, Pc
  <1>6. CASE Lock(r)
    <2>1. CASE pc'[r] = "done"
      BY <1>4, <1>6, <2>1 DEF Lock
    <2>2. CASE pc'[r] # "done"
      <3>1. /\ pc[r] = "lock" /\ pc'[r] \in {"reclaim", "take"}
            /\ UNCHANGED <<clock, run>> /\ (clock = NoLock \/ IsStale)
        BY <1>0, <1>6, <2>2, EndEffect DEF Lock
      <3>2. ASSUME NEW p \in Runs, Inside(p) PROVE FALSE
        <4>1. clock.owner = p /\ now < clock.at + Timeout + MaxRequest
          BY <1>1, <3>2 DEF LockInvOf
        <4>2. clock # NoLock /\ ~IsStale
          BY <1>0, <4>1 DEF NoLock, IsStale
        <4>. QED
          BY <3>1, <4>2
      <3>. QED
        BY <1>0, <1>1, <1>2, <3>1, <3>2 DEF LockInvOf, Inside, Pc
    <2>. QED
      BY <2>1, <2>2
  <1>7. CASE Reclaim(r)
    <2>1. /\ pc[r] = "reclaim" /\ pc'[r] = "take" /\ UNCHANGED run
      BY <1>0, <1>7 DEF Reclaim
    <2>2. \A p \in Runs : ~Inside(p)
      BY <1>1, <2>1 DEF LockInvOf
    <2>. QED
      BY <1>0, <1>1, <1>2, <2>1, <2>2 DEF LockInvOf, Inside, Pc
  <1>8. CASE Take(r)
    <2>1. /\ pc[r] = "take" /\ pc'[r] = "collect" /\ run'[r].start = now
          /\ clock' = [owner |-> r, at |-> now] /\ run[r].fired = now
      BY <1>0, <1>1, <1>8 DEF Take, RunState, LockInvOf
    <2>2. \A p \in Runs : ~Inside(p)
      BY <1>1, <2>1 DEF LockInvOf
    <2>3. ASSUME NEW p \in Runs, p # r PROVE pc[p] \notin {"lock", "reclaim", "take"}
      BY <1>1, <2>1, <2>3 DEF LockInvOf, Orderly, Fired
    <2>. QED
      BY <1>0, <1>1, <1>2, <2>1, <2>2, <2>3 DEF LockInvOf, Inside, Pc
  <1>9. CASE Collect(r)
    <2>1. CASE pc'[r] = "report"
      BY <1>3, <1>9, <2>1 DEF Collect, Inside, Pc
    <2>2. CASE pc'[r] # "report"
      <3>1. /\ pc[r] = "collect" /\ pc'[r] = "fetch" /\ UNCHANGED clock
            /\ run'[r].since = now /\ run'[r].start = run[r].start /\ ~Exceeded(r)
        BY <1>0, <1>9, <2>2 DEF Collect, RunState
      <3>2. run[r].start = clock.at
        BY <1>1, <3>1 DEF LockInvOf
      <3>3. now < clock.at + Timeout
        BY <1>0, <3>1, <3>2 DEF Exceeded
      <3>. QED
        BY <1>0, <1>1, <1>2, <3>1, <3>2, <3>3 DEF LockInvOf, Inside, Pc
    <2>. QED
      BY <2>1, <2>2
  <1>10. CASE Fetch(r)
    <2>1. /\ pc[r] = "fetch" /\ pc'[r] = "collect" /\ UNCHANGED clock
          /\ run'[r].start = run[r].start
      BY <1>0, <1>10 DEF Fetch, RunState
    <2>. QED
      BY <1>3, <2>1 DEF Inside, Pc
  <1>11. CASE Report(r) \/ AppendLock(r) \/ AppendReclaim(r) \/ AppendTake(r)
    BY <1>0, <1>3, <1>11, EndEffect
    DEF Report, AppendLock, AppendReclaim, AppendTake, Inside, Pc
  <1>12. CASE Scan(r) \/ Index(r)
    BY <1>0, <1>3, <1>12, EndEffect DEF Scan, Index, Inside, Pc
  <1>13. CASE Copy(r) \/ Rename(r) \/ Unlock(r)
    BY <1>0, <1>3, <1>13 DEF Copy, Rename, Unlock, Inside, Pc
  <1>14. CASE Release(r)
    <2>1. pc[r] = "release" /\ pc'[r] = "done" /\ UNCHANGED run
      BY <1>0, <1>14 DEF Release
    <2>2. \A p \in Runs : Inside(p) => p = r
      BY <1>1, <2>1 DEF LockInvOf, Inside, Pc
    <2>. QED
      BY <1>0, <1>1, <1>2, <2>1, <2>2 DEF LockInvOf, Inside, Pc
  <1>15. CASE Fail(r)
    <2>1. CASE pc'[r] = "done"
      BY <1>4, <1>15, <2>1 DEF Fail
    <2>2. CASE pc'[r] # "done"
      <3>1. Inside(r) /\ pc'[r] \in {"release", "unlock"} /\ UNCHANGED clock
        BY <1>0, <1>15, <2>2, EndEffect DEF Fail, Inside, Pc
      <3>. QED
        BY <1>3, <3>1
    <2>. QED
      BY <2>1, <2>2
  <1>16. CASE Crash(r)
    BY <1>4, <1>16, EndEffect DEF Crash
  <1>. QED
    BY <1>5, <1>6, <1>7, <1>8, <1>9, <1>10, <1>11, <1>12, <1>13, <1>14,
       <1>15, <1>16 DEF RunStep

LEMMA LockInvariant == Spec => [](TypeOK /\ LockInv)
  <1>1. Init => LockInv
    BY DEF Init, LockInv, LockInvOf, Inside
  <1>2. TypeOK /\ LockInv /\ [Next]_vars => LockInv'
    <2>1. CASE UNCHANGED vars
      BY <2>1 DEF vars, LockInv, LockInvOf, Inside, Orderly, Fired
    <2>. QED
      BY <2>1, TickKeepsLockInv, RunKeepsLockInv DEF Next
  <1>. QED
    BY <1>1, <1>2, CollectorTypeCorrect, PTL DEF Spec

\* Two firings that began apart overlap only after one of them has hung in a
\* call without a time limit, or has slept: as long as none has, the budget,
\* checked between requests, runs out before the lock file counts as abandoned,
\* whatever firings die or fail.
THEOREM JoinedOnlyAfterHangs == Spec => []JoinedOnlyAfterAHang
  <1>1. LockInv => JoinedOnlyAfterAHang
    BY DEF LockInv, LockInvOf, JoinedOnlyAfterAHang
  <1>. QED
    BY <1>1, LockInvariant, PTL

-----------------------------------------------------------------------------
(* The store.  Orderly firings have run ids of their own, and so rows of     *)
(* their own; only one of them is inside, so that what it read of the store  *)
(* is still so when it renames.                                              *)

\* Firings with one run id began together.
IdInv == \A r, q \in Fired : run[r].id = run[q].id => run[r].fired = run[q].fired

Own(r) == Cells[run[r].id]
Before == {"lock", "reclaim", "take", "collect", "fetch", "report", "appendLock",
           "appendReclaim", "appendTake", "scan"}
Writing == {"index", "copy", "rename"}

\* What a firing knows of the store and of its own rows in it: none before it
\* writes, those of the months it is done with while it does, and all it kept
\* when it reports success.
StoreInvOf(r) ==
    /\ pc[r] = "new" => run[r].todo = {} /\ Ids(run[r].rows) = {}
    /\ run[r].todo \subseteq Own(r) /\ Ids(run[r].rows) \subseteq Own(r)
    /\ pc[r] \in Before => \A id \in Own(r) : obs[id] = <<>>
    /\ pc[r] \in Writing => \A id \in Own(r) :
           /\ obs[id] \in {<<>>, run[r].rows[id]}
           /\ \/ obs[id] = run[r].rows[id]
              \/ ShardOf[id] \in run[r].left
              \/ pc[r] # "index" /\ ShardOf[id] = run[r].shard
    /\ pc[r] \in {"copy", "rename"} =>
           run[r].fresh = Collected(r, run[r].shard) \ Ids(obs)
    /\ pc[r] = "copy" =>
           run[r].existed = (Ids(obs) \cap InMonth(run[r].shard) # {})
    /\ pc[r] = "rename" => \A id \in InMonth(run[r].shard) :
           run[r].image[id] = IF id \in run[r].fresh THEN run[r].rows[id]
                                                     ELSE obs[id]
    /\ run[r].outcome = "success" =>
           /\ pc[r] \in {"unlock", "release", "done"}
           /\ \A id \in Ids(run[r].rows) : obs[id] = run[r].rows[id]

\* No row of a run id is in the store before a firing has it.
Unused == RunIds \ {run[r].id : r \in Fired}
StoreInv ==
    Orderly => /\ \A r \in Runs : StoreInvOf(r)
               /\ \A i \in Unused : \A id \in Cells[i] : obs[id] = <<>>

LEMMA IdKept ==
    ASSUME TypeOK, NEW r \in Runs, RunStep(r) \/ Fail(r) \/ Crash(r)
    PROVE  Fire(r) \/ run'[r].id = run[r].id
  <1>. USE DEF TypeOK, RunState
  <1>2. CASE Lock(r)
    BY <1>2, EndEffect DEF Lock
  <1>3. CASE Reclaim(r)
    BY <1>3 DEF Reclaim
  <1>4. CASE Take(r)
    BY <1>4 DEF Take
  <1>5. CASE Collect(r)
    BY <1>5 DEF Collect
  <1>6. CASE Fetch(r)
    BY <1>6 DEF Fetch
  <1>7. CASE Report(r)
    BY <1>7, EndEffect DEF Report
  <1>8. CASE AppendLock(r)
    BY <1>8, EndEffect DEF AppendLock
  <1>9. CASE AppendReclaim(r)
    BY <1>9 DEF AppendReclaim
  <1>10. CASE AppendTake(r)
    BY <1>10 DEF AppendTake
  <1>11. CASE Scan(r)
    BY <1>11, EndEffect, LookEffect DEF Scan
  <1>12. CASE Index(r)
    BY <1>12, EndEffect, LookEffect DEF Index
  <1>13. CASE Copy(r)
    BY <1>13 DEF Copy
  <1>14. CASE Rename(r)
    BY <1>14 DEF Rename
  <1>15. CASE Unlock(r)
    BY <1>15 DEF Unlock
  <1>16. CASE Release(r)
    BY <1>16 DEF Release
  <1>17. CASE Fail(r)
    BY <1>17, EndEffect DEF Fail
  <1>18. CASE Crash(r)
    BY <1>18, EndEffect DEF Crash
  <1>. QED
    BY <1>2, <1>3, <1>4, <1>5, <1>6, <1>7, <1>8, <1>9, <1>10, <1>11,
       <1>12, <1>13, <1>14, <1>15, <1>16, <1>17, <1>18 DEF RunStep

LEMMA FireEffect ==
    ASSUME TypeOK, NEW r \in Runs, Fire(r)
    PROVE  /\ run'[r].id \in RunIds /\ run'[r].fired = now
           /\ \A q \in Fired : run[q].id = run'[r].id => run[q].fired = now
           /\ run'[r].todo = run[r].todo /\ run'[r].rows = run[r].rows
           /\ run'[r].outcome = run[r].outcome
  <1>1. PICK id \in RunIds :
            /\ \A q \in Runs : pc[q] # "new" /\ run[q].id = id => run[q].fired = now
            /\ run' = [run EXCEPT ![r].id = id, ![r].fired = now]
    BY DEF Fire
  <1>. QED
    BY <1>1 DEF Fired, TypeOK, RunState

LEMMA IdStep == TypeOK /\ IdInv /\ [Next]_vars => IdInv'
  <1>. SUFFICES ASSUME TypeOK, IdInv, [Next]_vars PROVE IdInv'
    OBVIOUS
  <1>1. CASE Tick \/ UNCHANGED vars
    BY <1>1 DEF Tick, vars, IdInv, Fired
  <1>2. ASSUME NEW r \in Runs, RunStep(r) \/ Fail(r) \/ Crash(r)
        PROVE  IdInv'
    <2>1. \A q \in Runs : q # r => pc'[q] = pc[q] /\ run'[q] = run[q]
      BY <1>2, FiredKept
    <2>2. CASE Fire(r)
      BY <2>1, <2>2, FireEffect DEF IdInv, Fired
    <2>3. CASE ~Fire(r)
      <3>1. /\ run'[r].fired = run[r].fired /\ run'[r].id = run[r].id
            /\ pc[r] # "new" /\ pc'[r] # "new"
        BY <1>2, <2>3, FiredKept, IdKept
      <3>. QED
        BY <2>1, <3>1 DEF IdInv, Fired
    <2>. QED
      BY <2>2, <2>3
  <1>. QED
    BY <1>1, <1>2 DEF Next

LEMMA OwnApart ==
    ASSUME TypeOK, IdInv, Orderly, NEW r \in Fired, NEW q \in Fired, r # q
    PROVE  Own(r) \cap Own(q) = {}
  <1>1. run[r].id # run[q].id
    BY DEF IdInv, Orderly
  <1>2. run[r].id \in RunIds /\ run[q].id \in RunIds
    BY DEF TypeOK, RunState, Fired
  <1>. QED
    BY <1>1, <1>2, CollectorAssumption DEF Own

\* A rename adds the rows that were not there, and they are the firing's own.
LEMMA RenameAdds ==
    ASSUME TypeOK, NEW r \in Runs, StoreInvOf(r), Rename(r), NEW id \in RowIds
    PROVE  /\ obs'[id] = IF id \in run[r].fresh THEN run[r].rows[id] ELSE obs[id]
           /\ id \in run[r].fresh => id \in Own(r) /\ obs[id] = <<>>
           /\ id \in run[r].fresh => ShardOf[id] = run[r].shard
           /\ ShardOf[id] = run[r].shard /\ id \notin run[r].fresh =>
                  run[r].rows[id] = <<>> \/ obs[id] # <<>>
  <1>1. /\ run[r].fresh = Collected(r, run[r].shard) \ Ids(obs)
        /\ \A i \in InMonth(run[r].shard) :
               run[r].image[i] = IF i \in run[r].fresh THEN run[r].rows[i]
                                                       ELSE obs[i]
        /\ Ids(run[r].rows) \subseteq Own(r)
    BY DEF Rename, StoreInvOf
  <1>2. obs'[id] = IF ShardOf[id] = run[r].shard THEN run[r].image[id] ELSE obs[id]
    BY DEF Rename, PutShards
  <1>. QED
    BY <1>1, <1>2 DEF Collected, InMonth, Ids

LEMMA StoreChanges ==
    ASSUME NEW r \in Runs, RunStep(r) \/ Fail(r) \/ Crash(r)
    PROVE  UNCHANGED obs \/ Rename(r)
  BY DEF RunStep, Fire, Lock, Reclaim, Take, Collect, Fetch, Report, AppendLock,
     AppendReclaim, AppendTake, Scan, Index, Copy, Unlock, Release, Fail, Crash

\* What is left of a firing that ends without success claims nothing.
LEMMA EndStore ==
    ASSUME TypeOK, NEW r \in Runs, StoreInvOf(r), NEW outcome, NEW label,
           End(r, outcome, label), outcome # "success",
           label \in {"unlock", "release", "done", "dead"}
    PROVE  StoreInvOf(r)'
  <1>1. /\ Ended(r, outcome).todo = {} /\ Ended(r, outcome).rows = EmptyTable
        /\ Ended(r, outcome).outcome = outcome
    BY DEF Ended, NewRun
  <1>2. /\ run'[r].todo = {} /\ run'[r].rows = EmptyTable
        /\ run'[r].outcome = outcome /\ pc'[r] = label
    BY <1>1 DEF End, Goto, TypeOK
  <1>3. Ids(run'[r].rows) = {}
    BY <1>2 DEF Ids, EmptyTable
  <1>. QED
    BY <1>2, <1>3 DEF StoreInvOf, Before, Writing, Ids

\* The steps before a firing writes.
LEMMA CollectKeepsStore ==
    ASSUME TypeOK, NEW r \in Runs, StoreInvOf(r), pc[r] \in Before,
           UNCHANGED obs, pc'[r] \in Before, run'[r].id = run[r].id,
           run'[r].todo \subseteq Own(r), Ids(run'[r].rows) \subseteq Own(r),
           run'[r].outcome = run[r].outcome
    PROVE  StoreInvOf(r)'
  <1>1. Own(r)' = Own(r) /\ Ids(run[r].rows)' = Ids(run'[r].rows)
    BY DEF Own, Ids
  <1>2. run[r].outcome # "success"
    BY DEF StoreInvOf, Before
  <1>. QED
    BY <1>1, <1>2 DEF StoreInvOf, Before, Writing

LEMMA BeforeKeepsStore ==
    ASSUME TypeOK, NEW r \in Runs, StoreInvOf(r),
           \/ Lock(r) \/ Reclaim(r) \/ Take(r) \/ Collect(r) \/ Fetch(r)
           \/ Report(r) \/ AppendLock(r) \/ AppendReclaim(r) \/ AppendTake(r)
    PROVE  StoreInvOf(r)'
  <1>. USE DEF Goto
  <1>0. /\ pc \in [Runs -> Pc] /\ run \in [Runs -> RunState]
        /\ run[r].todo \subseteq Own(r) /\ Ids(run[r].rows) \subseteq Own(r)
    BY DEF TypeOK, StoreInvOf
  <1>1. CASE \E outcome \in {"aborted_lock_held", "preview", "blocked_lock"},
               label \in {"done", "release"} : End(r, outcome, label)
    BY <1>1, EndStore
  <1>2. CASE /\ UNCHANGED <<obs, run>> /\ pc[r] \in Before
             /\ \E label \in Before : pc' = [pc EXCEPT ![r] = label]
    BY <1>0, <1>2, CollectKeepsStore
  <1>3. CASE Lock(r) \/ Reclaim(r) \/ Report(r) \/ AppendLock(r) \/ AppendReclaim(r)
    BY <1>1, <1>2, <1>3
    DEF Lock, Reclaim, Report, AppendLock, AppendReclaim, Before
  <1>4. CASE Take(r)
    <2>1. /\ run'[r].todo = Own(r) /\ run'[r].rows = run[r].rows
          /\ run'[r].outcome = run[r].outcome /\ run'[r].id = run[r].id
          /\ pc[r] = "take" /\ pc'[r] = "collect" /\ UNCHANGED obs
      BY <1>0, <1>4 DEF Take, RunState, Own
    <2>. QED
      BY <1>0, <2>1, CollectKeepsStore DEF Before
  <1>5. CASE Collect(r)
    <2>1. /\ run'[r].todo = run[r].todo /\ run'[r].rows = run[r].rows
          /\ run'[r].outcome = run[r].outcome /\ run'[r].id = run[r].id
          /\ pc[r] = "collect" /\ pc'[r] \in {"fetch", "report"} /\ UNCHANGED obs
      BY <1>0, <1>5 DEF Collect, RunState
    <2>. QED
      BY <1>0, <2>1, CollectKeepsStore DEF Before
  <1>6. CASE Fetch(r)
    <2>1. PICK id \in run[r].todo, hash \in Hashes, skipped \in SUBSET run[r].todo :
              run' = [run EXCEPT ![r].rows[id] = <<hash>>,
                                 ![r].todo = @ \ (skipped \cup {id})]
      BY <1>6 DEF Fetch
    <2>2. /\ run'[r].todo \subseteq run[r].todo
          /\ run'[r].rows = [run[r].rows EXCEPT ![id] = <<hash>>]
          /\ run'[r].outcome = run[r].outcome /\ run'[r].id = run[r].id
      BY <1>0, <2>1 DEF RunState
    <2>3. Ids(run'[r].rows) \subseteq Ids(run[r].rows) \cup {id}
      BY <1>0, <2>2 DEF Ids, RunState, Table
    <2>4. pc[r] = "fetch" /\ pc'[r] = "collect" /\ UNCHANGED obs
      BY <1>0, <1>6 DEF Fetch
    <2>. QED
      BY <1>0, <2>2, <2>3, <2>4, CollectKeepsStore DEF Before
  <1>7. CASE AppendTake(r)
    <2>1. /\ run'[r].todo = run[r].todo /\ run'[r].rows = run[r].rows
          /\ run'[r].outcome = run[r].outcome /\ run'[r].id = run[r].id
          /\ pc[r] = "appendTake" /\ pc'[r] = "scan" /\ UNCHANGED obs
      BY <1>0, <1>7 DEF AppendTake, RunState
    <2>. QED
      BY <1>0, <2>1, CollectKeepsStore DEF Before
  <1>. QED
    BY <1>3, <1>4, <1>5, <1>6, <1>7

LEMMA ScanKeepsStore ==
    ASSUME TypeOK, NEW r \in Runs, StoreInvOf(r), Scan(r)
    PROVE  StoreInvOf(r)'
  <1>. USE DEF Goto
  <1>0. /\ pc \in [Runs -> Pc] /\ run \in [Runs -> RunState]
        /\ run[r].todo \subseteq Own(r) /\ Ids(run[r].rows) \subseteq Own(r)
        /\ pc[r] = "scan" /\ UNCHANGED obs
    BY DEF TypeOK, StoreInvOf, Scan
  <1>1. CASE End(r, "blocked_conflict", "unlock")
    BY <1>1, EndStore
  <1>2. ASSUME NEW s \in run[r].left, run' = [run EXCEPT ![r] = Scanned(r, s)],
               UNCHANGED pc
        PROVE  StoreInvOf(r)'
    <2>1. Scanned(r, s).todo = run[r].todo
      BY <1>0 DEF Scanned, RunState
    <2>2. /\ run'[r].todo = run[r].todo /\ run'[r].rows = run[r].rows
          /\ run'[r].outcome = run[r].outcome /\ run'[r].id = run[r].id
      BY <1>0, <1>2, <2>1, LookEffect
    <2>. QED
      BY <1>0, <1>2, <2>2, CollectKeepsStore DEF Before
  <1>3. CASE /\ run' = [run EXCEPT ![r].left = Months(r)]
             /\ pc' = [pc EXCEPT ![r] = "index"]
    <2>1. /\ run'[r].todo = run[r].todo /\ run'[r].rows = run[r].rows
          /\ run'[r].outcome = run[r].outcome /\ run'[r].id = run[r].id
          /\ run'[r].left = Months(r) /\ pc'[r] = "index"
      BY <1>0, <1>3 DEF RunState
    <2>2. run[r].outcome # "success"
      BY <1>0 DEF StoreInvOf
    <2>3. \A id \in Own(r) : obs[id] = <<>>
      BY <1>0 DEF StoreInvOf, Before
    <2>4. Own(r) \subseteq RowIds
      BY <1>0, CollectorAssumption DEF Own, RunState
    <2>5. \A id \in Own(r) : obs[id] = run[r].rows[id] \/ ShardOf[id] \in Months(r)
      BY <2>3, <2>4 DEF Months, ShardsOf, Ids
    <2>6. Own(r)' = Own(r) /\ Ids(run[r].rows)' = Ids(run[r].rows)
      BY <2>1 DEF Own, Ids
    <2>. QED
      BY <1>0, <2>1, <2>2, <2>3, <2>5, <2>6 DEF StoreInvOf, Before, Writing
  <1>. QED
    BY <1>1, <1>2, <1>3 DEF Scan

LEMMA IndexKeepsStore ==
    ASSUME TypeOK, NEW r \in Runs, StoreInvOf(r), Index(r)
    PROVE  StoreInvOf(r)'
  <1>. USE DEF Goto
  <1>0. /\ pc \in [Runs -> Pc] /\ run \in [Runs -> RunState]
        /\ run[r].todo \subseteq Own(r) /\ Ids(run[r].rows) \subseteq Own(r)
        /\ pc[r] = "index" /\ UNCHANGED obs /\ run[r].outcome # "success"
    BY DEF TypeOK, StoreInvOf, Index
  <1>1. ASSUME NEW id \in Own(r)
        PROVE  /\ obs[id] \in {<<>>, run[r].rows[id]}
               /\ obs[id] = run[r].rows[id] \/ ShardOf[id] \in run[r].left
    BY <1>0 DEF StoreInvOf, Writing
  <1>2. Own(r) \subseteq RowIds
    BY <1>0, CollectorAssumption DEF Own, RunState
  <1>3. CASE run[r].left = {} /\ End(r, "success", "unlock")
    <2>1. Ended(r, "success").todo = {}
      BY DEF Ended, NewRun
    <2>2. /\ run'[r].todo = {} /\ run'[r].rows = run[r].rows
          /\ run'[r].id = run[r].id /\ pc'[r] = "unlock"
      BY <1>0, <1>3, <2>1, EndEffect DEF End
    <2>3. Own(r)' = Own(r) /\ Ids(run[r].rows)' = Ids(run[r].rows)
      BY <2>2 DEF Own, Ids
    <2>4. \A id \in Ids(run[r].rows) : obs[id] = run[r].rows[id]
      BY <1>0, <1>1, <1>3
    <2>. QED
      BY <1>0, <2>2, <2>3, <2>4 DEF StoreInvOf, Before, Writing
  <1>4. ASSUME NEW s \in run[r].left, run' = [run EXCEPT ![r] = Indexed(r, s)],
               pc' = [pc EXCEPT ![r] = IF Indexed(r, s).fresh = {} THEN "index"
                                                                   ELSE "copy"]
        PROVE  StoreInvOf(r)'
    <2>1. Indexed(r, s).todo = run[r].todo
      BY <1>0 DEF Indexed, RunState
    <2>2. /\ run'[r].todo = run[r].todo /\ run'[r].rows = run[r].rows
          /\ run'[r].outcome = run[r].outcome /\ run'[r].id = run[r].id
          /\ run'[r].left = run[r].left \ {s} /\ run'[r].shard = s
          /\ run'[r].fresh = Collected(r, s) \ Ids(obs)
          /\ run'[r].existed = (Ids(obs) \cap InMonth(s) # {})
          /\ pc'[r] = IF run'[r].fresh = {} THEN "index" ELSE "copy"
      BY <1>0, <1>4, <2>1, LookEffect
    <2>3. /\ Own(r)' = Own(r) /\ Ids(run[r].rows)' = Ids(run[r].rows)
          /\ Collected(r, run[r].shard)' = Collected(r, s)
          /\ Ids(obs)' = Ids(obs) /\ InMonth(run[r].shard)' = InMonth(s)
      BY <1>0, <2>2 DEF Own, Ids, Collected, InMonth
    <2>4. ASSUME NEW id \in Own(r), run'[r].fresh = {}, ShardOf[id] = s
          PROVE  obs[id] = run[r].rows[id]
      BY <1>1, <1>2, <2>2, <2>4 DEF Collected, InMonth, Ids
    <2>5. \A id \in Own(r) :
              \/ obs[id] = run'[r].rows[id] \/ ShardOf[id] \in run'[r].left
              \/ pc'[r] # "index" /\ ShardOf[id] = run'[r].shard
      BY <1>1, <2>2, <2>4
    <2>. QED
      BY <1>0, <1>1, <2>2, <2>3, <2>5 DEF StoreInvOf, Before, Writing
  <1>. QED
    BY <1>3, <1>4 DEF Index

LEMMA CopyKeepsStore ==
    ASSUME TypeOK, NEW r \in Runs, StoreInvOf(r), Copy(r)
    PROVE  StoreInvOf(r)'
  <1>0. /\ pc \in [Runs -> Pc] /\ run \in [Runs -> RunState] /\ obs \in Table
        /\ run[r].todo \subseteq Own(r) /\ Ids(run[r].rows) \subseteq Own(r)
        /\ pc[r] = "copy" /\ UNCHANGED obs /\ run[r].outcome # "success"
    BY DEF TypeOK, StoreInvOf, Copy
  <1>1. /\ run'[r].todo = run[r].todo /\ run'[r].rows = run[r].rows
        /\ run'[r].outcome = run[r].outcome /\ run'[r].id = run[r].id
        /\ run'[r].left = run[r].left /\ run'[r].shard = run[r].shard
        /\ run'[r].fresh = run[r].fresh
        /\ run'[r].image = NewImage(r) /\ pc'[r] = "rename"
    BY <1>0 DEF Copy, Goto, RunState
  <1>2. /\ run[r].fresh = Collected(r, run[r].shard) \ Ids(obs)
        /\ run[r].existed = (Ids(obs) \cap InMonth(run[r].shard) # {})
    BY <1>0 DEF StoreInvOf
  <1>3. ASSUME NEW id \in InMonth(run[r].shard)
        PROVE  NewImage(r)[id] = IF id \in run[r].fresh THEN run[r].rows[id]
                                                        ELSE obs[id]
    <2>1. id \in RowIds /\ obs[id] \in Seq(Hashes) /\ run[r].rows[id] \in Seq(Hashes)
      BY <1>0 DEF InMonth, RunState, Table
    <2>2. ~run[r].existed => obs[id] = <<>>
      BY <1>2, <2>1 DEF Ids
    <2>3. id \in run[r].fresh => obs[id] = <<>>
      BY <1>2, <2>1 DEF Ids
    <2>4. NewImage(r)[id] =
              (IF run[r].existed THEN obs[id] ELSE <<>>)
              \o (IF id \in run[r].fresh THEN run[r].rows[id] ELSE <<>>)
      BY <2>1 DEF NewImage, AppendLines, OnlyIds
    <2>5. ASSUME NEW lines \in Seq(Hashes)
          PROVE  lines \o <<>> = lines /\ <<>> \o lines = lines
      OBVIOUS
    <2>6. CASE id \in run[r].fresh
      <3>1. NewImage(r)[id] = <<>> \o run[r].rows[id]
        BY <2>3, <2>4, <2>6
      <3>. QED
        BY <2>1, <2>5, <2>6, <3>1
    <2>7. CASE id \notin run[r].fresh
      <3>1. NewImage(r)[id] = obs[id] \o <<>>
        BY <2>2, <2>4, <2>7
      <3>. QED
        BY <2>1, <2>5, <2>7, <3>1
    <2>. QED
      BY <2>6, <2>7
  <1>4. /\ Own(r)' = Own(r) /\ Ids(run[r].rows)' = Ids(run[r].rows)
        /\ Collected(r, run[r].shard)' = Collected(r, run[r].shard)
        /\ Ids(obs)' = Ids(obs) /\ InMonth(run[r].shard)' = InMonth(run[r].shard)
    BY <1>0, <1>1 DEF Own, Ids, Collected, InMonth
  <1>5. \A id \in Own(r) :
            /\ obs[id] \in {<<>>, run[r].rows[id]}
            /\ \/ obs[id] = run[r].rows[id] \/ ShardOf[id] \in run[r].left
               \/ ShardOf[id] = run[r].shard
    BY <1>0 DEF StoreInvOf, Writing
  <1>. QED
    BY <1>0, <1>1, <1>2, <1>3, <1>4, <1>5 DEF StoreInvOf, Before, Writing

LEMMA RenameKeepsStore ==
    ASSUME TypeOK, NEW r \in Runs, StoreInvOf(r), Rename(r)
    PROVE  StoreInvOf(r)'
  <1>0. /\ pc \in [Runs -> Pc] /\ run \in [Runs -> RunState]
        /\ run[r].todo \subseteq Own(r) /\ Ids(run[r].rows) \subseteq Own(r)
        /\ pc[r] = "rename" /\ run[r].outcome # "success"
    BY DEF TypeOK, StoreInvOf, Rename
  <1>1. /\ run'[r].todo = run[r].todo /\ run'[r].rows = run[r].rows
        /\ run'[r].outcome = run[r].outcome /\ run'[r].id = run[r].id
        /\ run'[r].left = run[r].left /\ pc'[r] = "index"
    BY <1>0 DEF Rename, Goto, RunState
  <1>2. Own(r) \subseteq RowIds
    BY <1>0, CollectorAssumption DEF Own, RunState
  <1>3. ASSUME NEW id \in Own(r)
        PROVE  /\ obs'[id] \in {<<>>, run[r].rows[id]}
               /\ obs'[id] = run[r].rows[id] \/ ShardOf[id] \in run[r].left
    <2>1. /\ obs[id] \in {<<>>, run[r].rows[id]}
          /\ \/ obs[id] = run[r].rows[id] \/ ShardOf[id] \in run[r].left
             \/ ShardOf[id] = run[r].shard
      BY <1>0 DEF StoreInvOf, Writing
    <2>. QED
      BY <1>2, <2>1, RenameAdds
  <1>4. Own(r)' = Own(r) /\ Ids(run[r].rows)' = Ids(run[r].rows)
    BY <1>1 DEF Own, Ids
  <1>. QED
    BY <1>0, <1>1, <1>3, <1>4 DEF StoreInvOf, Before, Writing

LEMMA AfterKeepsStore ==
    ASSUME TypeOK, NEW r \in Runs, StoreInvOf(r),
           Unlock(r) \/ Release(r) \/ Fail(r) \/ Crash(r)
    PROVE  StoreInvOf(r)'
  <1>1. CASE Unlock(r) \/ Release(r)
    <2>1. /\ UNCHANGED <<obs, run>> /\ pc'[r] \in {"release", "done"}
      BY <1>1 DEF Unlock, Release, Goto, TypeOK
    <2>2. Own(r)' = Own(r) /\ Ids(run[r].rows)' = Ids(run[r].rows)
      BY <2>1 DEF Own, Ids
    <2>. QED
      BY <2>1, <2>2 DEF StoreInvOf, Before, Writing
  <1>2. CASE Fail(r)
    BY <1>2, EndStore DEF Fail
  <1>3. CASE Crash(r)
    BY <1>3, EndStore DEF Crash
  <1>. QED
    BY <1>1, <1>2, <1>3

\* A firing that begins finds its run id unused, for no other began with it.
LEMMA FireKeepsStore ==
    ASSUME TypeOK, StoreInv, Orderly, Orderly', NEW r \in Runs, Fire(r)
    PROVE  StoreInvOf(r)'
  <1>1. /\ run'[r].id \in RunIds /\ run'[r].fired = now
        /\ \A q \in Fired : run[q].id = run'[r].id => run[q].fired = now
        /\ run'[r].todo = run[r].todo /\ run'[r].rows = run[r].rows
        /\ run'[r].outcome = run[r].outcome
    BY FireEffect
  <1>2. /\ pc[r] = "new" /\ pc'[r] = "lock" /\ UNCHANGED obs
        /\ \A q \in Runs : q # r => pc'[q] = pc[q] /\ run'[q] = run[q]
    BY FiredKept DEF Fire, RunStep, Goto, TypeOK
  <1>3. ASSUME NEW q \in Fired PROVE run[q].id # run'[r].id
    <2>1. q \in Fired' /\ r \in Fired' /\ q # r /\ run'[q] = run[q]
      BY <1>2 DEF Fired
    <2>2. run[q].fired # now
      BY <1>1, <2>1 DEF Orderly
    <2>. QED
      BY <1>1, <2>2
  <1>4. run'[r].id \in Unused
    BY <1>1, <1>3 DEF Unused
  <1>5. \A id \in Own(r)' : obs'[id] = <<>>
    BY <1>2, <1>4 DEF StoreInv, Own
  <1>6. run'[r].todo = {} /\ Ids(run[r].rows)' = {} /\ run'[r].outcome # "success"
    <2>1. run[r].todo = {} /\ Ids(run[r].rows) = {} /\ run[r].outcome # "success"
      BY <1>2 DEF StoreInv, StoreInvOf
    <2>. QED
      BY <1>1, <2>1 DEF Ids
  <1>. QED
    BY <1>2, <1>5, <1>6 DEF StoreInvOf, Before, Writing

LEMMA OwnKeepsStore ==
    ASSUME TypeOK, StoreInv, Orderly, Orderly', NEW r \in Runs,
           RunStep(r) \/ Fail(r) \/ Crash(r)
    PROVE  StoreInvOf(r)'
  <1>1. StoreInvOf(r)
    BY DEF StoreInv
  <1>. QED
    BY <1>1, FireKeepsStore, BeforeKeepsStore, ScanKeepsStore, IndexKeepsStore,
       CopyKeepsStore, RenameKeepsStore, AfterKeepsStore DEF RunStep

\* What another firing renames is no row of this one, which does not write.
LEMMA OthersKeepStore ==
    ASSUME TypeOK, IdInv, LockInv, Orderly, NEW r \in Runs,
           RunStep(r) \/ Fail(r) \/ Crash(r), StoreInvOf(r),
           NEW q \in Runs, q # r, StoreInvOf(q)
    PROVE  StoreInvOf(q)'
  <1>1. pc'[q] = pc[q] /\ run'[q] = run[q]
    BY FiredKept
  <1>2. CASE UNCHANGED obs
    BY <1>1, <1>2 DEF StoreInvOf, Own, Ids, Collected, InMonth
  <1>3. CASE Rename(r)
    <2>1. pc[r] = "rename"
      BY <1>3 DEF Rename
    <2>2. pc[q] \notin Writing
      BY <2>1 DEF LockInv, LockInvOf, Inside, Writing, Pc
    <2>3. pc[q] = "new" \/ \A id \in Own(q) : obs'[id] = obs[id]
      <3>1. SUFFICES ASSUME pc[q] # "new", NEW id \in Own(q)
                     PROVE  obs'[id] = obs[id]
        OBVIOUS
      <3>2. r \in Fired /\ q \in Fired
        BY <2>1, <3>1 DEF Fired
      <3>3. id \in RowIds /\ id \notin Own(r)
        BY <3>2, OwnApart, CollectorAssumption DEF Own, TypeOK, RunState
      <3>. QED
        BY <1>3, <3>3, RenameAdds
    <2>4. Own(q)' = Own(q) /\ Ids(run[q].rows)' = Ids(run[q].rows)
      BY <1>1 DEF Own, Ids
    <2>5. run[q].outcome = "success" =>
              /\ pc[q] \in {"unlock", "release", "done"}
              /\ \A id \in Ids(run[q].rows) : obs'[id] = run[q].rows[id]
      BY <2>3 DEF StoreInvOf
    <2>6. /\ pc[q] = "new" => run[q].todo = {} /\ Ids(run[q].rows) = {}
          /\ run[q].todo \subseteq Own(q) /\ Ids(run[q].rows) \subseteq Own(q)
          /\ pc[q] \in Before => \A id \in Own(q) : obs'[id] = <<>>
      BY <2>3 DEF StoreInvOf, Before
    <2>. QED
      BY <1>1, <2>2, <2>4, <2>5, <2>6 DEF StoreInvOf, Writing
  <1>. QED
    BY <1>2, <1>3, StoreChanges

LEMMA UnusedKept ==
    ASSUME TypeOK, StoreInv, Orderly, NEW r \in Runs,
           RunStep(r) \/ Fail(r) \/ Crash(r)
    PROVE  \A i \in Unused' : \A id \in Cells[i] : obs'[id] = <<>>
  <1>. SUFFICES ASSUME NEW i \in Unused', NEW id \in Cells[i]
                PROVE  obs'[id] = <<>>
    OBVIOUS
  <1>1. \A q \in Fired : q \in Fired' /\ run'[q].id = run[q].id
    BY FiredKept, IdKept DEF Fired, Fire
  <1>2. i \in Unused
    BY <1>1 DEF Unused
  <1>3. obs[id] = <<>>
    BY <1>2 DEF StoreInv
  <1>4. CASE Rename(r)
    <2>1. r \in Fired
      BY <1>4 DEF Rename, Fired
    <2>2. i # run[r].id /\ i \in RunIds /\ run[r].id \in RunIds
      BY <1>2, <2>1 DEF Unused, TypeOK, RunState
    <2>3. id \in RowIds /\ id \notin Own(r)
      BY <2>2, CollectorAssumption DEF Own
    <2>. QED
      BY <1>3, <1>4, <2>3, RenameAdds DEF StoreInv
  <1>. QED
    BY <1>3, <1>4, StoreChanges

StoredInv == TypeOK /\ LockInv /\ IdInv /\ StoreInv

LEMMA StoreStep == StoredInv /\ [Next]_vars => StoreInv'
  <1>. SUFFICES ASSUME StoredInv, [Next]_vars, Orderly'
                PROVE  /\ \A q \in Runs : StoreInvOf(q)'
                       /\ \A i \in Unused' : \A id \in Cells[i] : obs'[id] = <<>>
    BY DEF StoreInv
  <1>. USE DEF StoredInv
  <1>1. Orderly
    BY OrderlyBefore
  <1>2. /\ \A q \in Runs : StoreInvOf(q)
        /\ \A i \in Unused : \A id \in Cells[i] : obs[id] = <<>>
    BY <1>1 DEF StoreInv
  <1>3. CASE Tick \/ UNCHANGED vars
    <2>1. UNCHANGED <<obs, pc, run>>
      BY <1>3 DEF Tick, vars
    <2>2. Unused' = Unused
      BY <2>1 DEF Unused, Fired
    <2>3. ASSUME NEW q \in Runs PROVE StoreInvOf(q)'
      BY <1>2, <2>1 DEF StoreInvOf, Own, Ids, Collected, InMonth
    <2>. QED
      BY <1>2, <2>1, <2>2, <2>3
  <1>4. ASSUME NEW r \in Runs, RunStep(r) \/ Fail(r) \/ Crash(r)
        PROVE  /\ \A q \in Runs : StoreInvOf(q)'
               /\ \A i \in Unused' : \A id \in Cells[i] : obs'[id] = <<>>
    <2>1. StoreInvOf(r)'
      BY <1>1, <1>4, OwnKeepsStore
    <2>2. ASSUME NEW q \in Runs, q # r PROVE StoreInvOf(q)'
      BY <1>1, <1>2, <1>4, <2>2, OthersKeepStore
    <2>3. \A q \in Runs : StoreInvOf(q)'
      <3>. SUFFICES ASSUME NEW q \in Runs PROVE StoreInvOf(q)'
        OBVIOUS
      <3>1. CASE q = r
        BY <2>1, <3>1
      <3>. QED
        BY <2>2, <3>1
    <2>. QED
      BY <1>1, <1>4, <2>3, UnusedKept
  <1>. QED
    BY <1>3, <1>4 DEF Next

LEMMA StoreInit == Init => IdInv /\ StoreInv
  <1>. SUFFICES ASSUME Init PROVE IdInv /\ StoreInv
    OBVIOUS
  <1>1. Fired = {} /\ \A r \in Runs : pc[r] = "new" /\ run[r] = NewRun
    BY DEF Init, Fired
  <1>2. NewRun.todo = {} /\ NewRun.rows = EmptyTable /\ NewRun.outcome = "none"
    BY DEF NewRun
  <1>3. Ids(EmptyTable) = {}
    BY DEF Ids, EmptyTable
  <1>4. ASSUME NEW r \in Runs PROVE StoreInvOf(r)
    BY <1>1, <1>2, <1>3 DEF StoreInvOf, Before, Writing
  <1>5. \A i \in Unused : \A id \in Cells[i] : obs[id] = <<>>
    BY CollectorAssumption DEF Init, Unused, Ids
  <1>. QED
    BY <1>1, <1>4, <1>5 DEF IdInv, StoreInv

LEMMA StoreInvariant == Spec => []StoredInv
  <1>1. TypeOK /\ LockInv /\ IdInv /\ StoreInv /\ [Next]_vars => StoreInv'
    BY StoreStep DEF StoredInv
  <1>2. Spec => [](TypeOK /\ LockInv /\ IdInv /\ StoreInv)
    BY <1>1, LockInvariant, StoreInit, IdStep, PTL DEF Spec
  <1>. QED
    BY <1>2, PTL DEF StoredInv

\* A firing that reports success has every row it kept in the store, and no
\* later firing changes or loses one of them, whatever firings fail or die.
THEOREM SuccessIsStored == Spec => []SuccessMeansStored
  <1>1. StoredInv => SuccessMeansStored
    BY DEF StoredInv, StoreInv, StoreInvOf, SuccessMeansStored
  <1>. QED
    BY <1>1, StoreInvariant, PTL

GainedObs ==
    Orderly => \A id \in RowIds : obs'[id] # obs[id] =>
        /\ obs[id] = <<>>
        /\ \E r \in Runs : Inside(r) /\ obs'[id] = run[r].rows[id]

LEMMA StoreGains == StoredInv /\ [Next]_vars => GainedObs
  <1>. SUFFICES ASSUME StoredInv, [Next]_vars, Orderly,
                       NEW id \in RowIds, obs'[id] # obs[id]
                PROVE  /\ obs[id] = <<>>
                       /\ \E r \in Runs : Inside(r) /\ obs'[id] = run[r].rows[id]
    BY DEF GainedObs
  <1>1. PICK r \in Runs : RunStep(r) \/ Fail(r) \/ Crash(r)
    BY DEF Next, Tick, vars
  <1>2. Rename(r) /\ StoreInvOf(r) /\ TypeOK
    BY <1>1, StoreChanges DEF StoredInv, StoreInv
  <1>3. Inside(r)
    BY <1>2 DEF Rename, Inside, Pc
  <1>. QED
    BY <1>2, <1>3, RenameAdds

\* The store never loses or changes an observation, and what it gains are the
\* rows of the one firing that is inside, even when that firing dies between
\* two months.
THEOREM StoreGainsOnly == Spec => StoreOnlyGains
  <1>1. StoredInv /\ [Next]_vars => [GainedObs]_obs
    BY StoreGains
  <1>2. Spec => [][GainedObs]_obs
    BY <1>1, StoreInvariant, PTL DEF Spec
  <1>. QED
    BY <1>2 DEF StoreOnlyGains, GainedObs

-----------------------------------------------------------------------------
(* The locks of dead firings.                                                *)

\* When the locks there are were taken, and by a firing that is past taking
\* them; a firing inside began after the one whose append lock it finds.
AgeInv ==
    Orderly =>
        /\ \A r \in Fired : run[r].fired <= now
        /\ clock # NoLock =>
               /\ clock.owner \in Fired
               /\ clock.at = run[clock.owner].fired
               /\ pc[clock.owner] \notin {"lock", "reclaim", "take"}
        /\ alock # NoLock =>
               /\ alock.owner \in Fired
               /\ pc[alock.owner] \notin Before \ {"scan"}
               /\ alock.at < run[alock.owner].fired + Timeout + MaxRequest
               /\ \A r \in Runs : Inside(r) /\ r # alock.owner =>
                      run[alock.owner].fired < run[r].fired

\* Every two firings begin so far apart that the locks of the first are old.
Spaced ==
    \A r, q \in Fired : run[r].fired < run[q].fired =>
        run[q].fired - run[r].fired >= Timeout + MaxRequest + AppendStale

BlockInv ==
    Orderly /\ Spaced =>
        \A r \in Runs : run[r].outcome \notin {"aborted_lock_held", "blocked_lock"}

\* A firing moves towards its end: it comes inside by taking the lock alone,
\* and never returns to where it has yet to take one.
LEMMA Onward ==
    ASSUME TypeOK, NEW r \in Runs, RunStep(r) \/ Fail(r) \/ Crash(r), ~Fire(r)
    PROVE  /\ pc'[r] \in {"lock", "reclaim", "take"} =>
                  pc[r] \in {"lock", "reclaim", "take"}
           /\ pc'[r] \in Before \ {"scan"} => pc[r] \in Before \ {"scan"}
           /\ Inside(r)' => Inside(r) \/ Take(r)
           /\ UNCHANGED clock \/ clock' = NoLock \/ Take(r)
           /\ UNCHANGED alock \/ alock' = NoLock \/ AppendTake(r)
  <1>. USE DEF TypeOK, Goto, Inside, Before, Pc
  <1>2. CASE Lock(r)
    BY <1>2, EndEffect DEF Lock
  <1>3. CASE Reclaim(r)
    BY <1>3 DEF Reclaim
  <1>4. CASE Take(r)
    BY <1>4 DEF Take
  <1>5. CASE Collect(r)
    BY <1>5 DEF Collect
  <1>6. CASE Fetch(r)
    BY <1>6 DEF Fetch
  <1>7. CASE Report(r)
    BY <1>7, EndEffect DEF Report
  <1>8. CASE AppendLock(r)
    BY <1>8, EndEffect DEF AppendLock
  <1>9. CASE AppendReclaim(r)
    BY <1>9 DEF AppendReclaim
  <1>10. CASE AppendTake(r)
    BY <1>10 DEF AppendTake
  <1>11. CASE Scan(r)
    BY <1>11, EndEffect DEF Scan
  <1>12. CASE Index(r)
    BY <1>12, EndEffect DEF Index
  <1>13. CASE Copy(r)
    BY <1>13 DEF Copy
  <1>14. CASE Rename(r)
    BY <1>14 DEF Rename
  <1>15. CASE Unlock(r)
    BY <1>15 DEF Unlock
  <1>16. CASE Release(r)
    BY <1>16 DEF Release
  <1>17. CASE Fail(r)
    BY <1>17, EndEffect DEF Fail
  <1>18. CASE Crash(r)
    BY <1>18, EndEffect DEF Crash
  <1>. QED
    BY <1>2, <1>3, <1>4, <1>5, <1>6, <1>7, <1>8, <1>9, <1>10, <1>11,
       <1>12, <1>13, <1>14, <1>15, <1>16, <1>17, <1>18 DEF RunStep

LEMMA AgeStep == TypeOK /\ LockInv /\ AgeInv /\ [Next]_vars => AgeInv'
  <1>. SUFFICES ASSUME TypeOK, LockInv, AgeInv, [Next]_vars, Orderly'
                PROVE  AgeInv'
    BY DEF AgeInv
  <1>0. /\ Orderly /\ pc \in [Runs -> Pc] /\ now \in Nat
        /\ \A r \in Runs : run[r].fired \in Nat
        /\ clock.at \in Nat /\ alock.at \in Nat
        /\ Timeout \in Nat /\ MaxRequest \in Nat
    BY OrderlyBefore, CollectorAssumption DEF TypeOK, RunState, LockFile
  <1>1. /\ \A r \in Fired : run[r].fired <= now
        /\ clock # NoLock =>
               /\ clock.owner \in Fired
               /\ clock.at = run[clock.owner].fired
               /\ pc[clock.owner] \notin {"lock", "reclaim", "take"}
        /\ alock # NoLock =>
               /\ alock.owner \in Fired
               /\ pc[alock.owner] \notin Before \ {"scan"}
               /\ alock.at < run[alock.owner].fired + Timeout + MaxRequest
               /\ \A r \in Runs : Inside(r) /\ r # alock.owner =>
                      run[alock.owner].fired < run[r].fired
        /\ \A r \in Runs : LockInvOf(r)
    BY <1>0 DEF AgeInv, LockInv
  <1>2. CASE Tick \/ UNCHANGED vars
    <2>1. UNCHANGED <<clock, alock, pc, run>> /\ now <= now'
      BY <1>0, <1>2 DEF Tick, vars
    <2>2. Fired' = Fired /\ \A r : Inside(r)' = Inside(r)
      BY <2>1 DEF Fired, Inside
    <2>3. \A r \in Fired' : run'[r].fired <= now'
      BY <1>0, <1>1, <2>1, <2>2, CollectorTypeStep DEF TypeOK, Fired
    <2>. QED
      BY <1>1, <2>1, <2>2, <2>3 DEF AgeInv
  <1>3. ASSUME NEW r \in Runs, RunStep(r) \/ Fail(r) \/ Crash(r)
        PROVE  AgeInv'
    <2>0. /\ \A q \in Runs : q # r => pc'[q] = pc[q] /\ run'[q] = run[q]
          /\ now' = now
      BY <1>3, FiredKept
    <2>1. CASE Fire(r)
      <3>1. /\ run'[r].fired = now /\ pc[r] = "new" /\ pc'[r] = "lock"
            /\ UNCHANGED <<clock, alock>>
        BY <2>1, FireEffect, <1>0 DEF Fire, Goto
      <3>2. Fired' = Fired \cup {r} /\ r \notin Fired
        BY <2>0, <3>1 DEF Fired
      <3>3. ~Inside(r)' /\ ~Inside(r)
        BY <3>1 DEF Inside
      <3>4. \A q \in Runs : q # r => Inside(q)' = Inside(q)
        BY <2>0 DEF Inside
      <3>5. \A q \in Fired : q \in Runs /\ q # r
        BY <3>2 DEF Fired
      <3>6. \A q \in Fired' : run'[q].fired <= now'
        BY <1>0, <1>1, <2>0, <3>1, <3>2, <3>5
      <3>7. clock' # NoLock =>
               /\ clock'.owner \in Fired'
               /\ clock'.at = run'[clock'.owner].fired
               /\ pc'[clock'.owner] \notin {"lock", "reclaim", "take"}
        BY <1>1, <2>0, <3>1, <3>2, <3>5
      <3>8. alock' # NoLock =>
               /\ alock'.owner \in Fired'
               /\ pc'[alock'.owner] \notin Before \ {"scan"}
               /\ alock'.at < run'[alock'.owner].fired + Timeout + MaxRequest
               /\ \A q \in Runs : Inside(q)' /\ q # alock'.owner =>
                      run'[alock'.owner].fired < run'[q].fired
        BY <1>1, <2>0, <3>1, <3>2, <3>3, <3>4, <3>5
      <3>. QED
        BY <3>6, <3>7, <3>8 DEF AgeInv
    <2>2. CASE ~Fire(r)
      <3>1. /\ \A q \in Runs : run'[q].fired = run[q].fired
            /\ Fired' = Fired /\ r \in Fired
        BY <1>3, <2>0, <2>2, FiredKept DEF Fired
      <3>2. /\ pc'[r] \in {"lock", "reclaim", "take"} =>
                  pc[r] \in {"lock", "reclaim", "take"}
            /\ pc'[r] \in Before \ {"scan"} => pc[r] \in Before \ {"scan"}
            /\ Inside(r)' => Inside(r) \/ Take(r)
            /\ UNCHANGED clock \/ clock' = NoLock \/ Take(r)
            /\ UNCHANGED alock \/ alock' = NoLock \/ AppendTake(r)
        BY <1>3, <2>2, Onward
      <3>3. \A q \in Fired : q \in Runs
        BY DEF Fired
      <3>4. \A q \in Runs : q # r => Inside(q)' = Inside(q)
        BY <2>0 DEF Inside
      <3>5. \A q \in Fired' : run'[q].fired <= now'
        BY <1>1, <2>0, <3>1, <3>3
      <3>6. clock' # NoLock =>
               /\ clock'.owner \in Fired'
               /\ clock'.at = run'[clock'.owner].fired
               /\ pc'[clock'.owner] \notin {"lock", "reclaim", "take"}
        <4>1. CASE Take(r)
          <5>1. clock' = [owner |-> r, at |-> now] /\ pc'[r] = "collect"
                /\ run[r].fired = now
            BY <1>0, <1>1, <4>1 DEF Take, Goto, LockInvOf
          <5>. QED
            BY <3>1, <5>1
        <4>2. CASE UNCHANGED clock
          BY <1>1, <2>0, <3>1, <3>2, <3>3, <4>2
        <4>. QED
          BY <3>2, <4>1, <4>2
      <3>7. alock' # NoLock =>
               /\ alock'.owner \in Fired'
               /\ pc'[alock'.owner] \notin Before \ {"scan"}
               /\ alock'.at < run'[alock'.owner].fired + Timeout + MaxRequest
        <4>1. CASE AppendTake(r)
          <5>1. /\ alock' = [owner |-> r, at |-> now] /\ pc'[r] = "scan"
                /\ clock.owner = r /\ now < clock.at + Timeout + MaxRequest
            BY <1>0, <1>1, <4>1 DEF AppendTake, Goto, LockInvOf, Inside, Pc
          <5>2. clock # NoLock
            BY <5>1, CollectorAssumption DEF NoLock
          <5>. QED
            BY <1>1, <3>1, <5>1, <5>2
        <4>2. CASE UNCHANGED alock
          BY <1>1, <2>0, <3>1, <3>2, <3>3, <4>2
        <4>. QED
          BY <3>2, <4>1, <4>2
      <3>8. ASSUME alock' # NoLock, NEW q \in Runs, Inside(q)', q # alock'.owner
            PROVE  run'[alock'.owner].fired < run'[q].fired
        <4>1. CASE AppendTake(r)
          <5>1. /\ alock'.owner = r /\ Inside(r)
            BY <1>0, <4>1 DEF AppendTake, Goto, Inside, Pc
          <5>2. Inside(q) /\ q # r
            BY <3>4, <3>8, <5>1
          <5>. QED
            BY <1>1, <5>1, <5>2 DEF LockInvOf
        <4>2. CASE UNCHANGED alock /\ Inside(q)
          BY <1>1, <3>1, <3>3, <3>8, <4>2
        <4>3. CASE UNCHANGED alock /\ ~Inside(q)
          <5>1. q = r /\ Take(r)
            BY <3>2, <3>4, <3>8, <4>3
          <5>2. run[r].fired = now /\ alock.owner \in Fired /\ alock.owner # r
            BY <1>1, <3>8, <4>3, <5>1 DEF Take, LockInvOf
          <5>3. run[alock.owner].fired <= now /\ run[alock.owner].fired # now
            BY <1>0, <1>1, <3>1, <5>2 DEF Orderly
          <5>4. run[alock.owner].fired < run[r].fired
            BY <1>0, <3>3, <5>2, <5>3
          <5>. QED
            BY <3>1, <3>3, <4>3, <5>1, <5>2, <5>4
        <4>. QED
          BY <3>2, <3>8, <4>1, <4>2, <4>3
      <3>. QED
        BY <3>5, <3>6, <3>7, <3>8 DEF AgeInv
    <2>. QED
      BY <2>1, <2>2
  <1>. QED
    BY <1>2, <1>3 DEF Next

\* A firing ends at a lock only when it finds a young one.
LEMMA BlockedByYoung ==
    ASSUME TypeOK, NEW r \in Runs, RunStep(r) \/ Fail(r) \/ Crash(r),
           run'[r].outcome \in {"aborted_lock_held", "blocked_lock"}
    PROVE  \/ run[r].outcome \in {"aborted_lock_held", "blocked_lock"}
           \/ pc[r] = "lock" /\ clock # NoLock /\ ~IsStale
           \/ pc[r] = "appendLock" /\ alock # NoLock /\ ~AppendLockIsStale
  <1>. USE DEF TypeOK, RunState
  <1>1. CASE Fire(r)
    BY <1>1, FireEffect
  <1>2. CASE Lock(r)
    BY <1>2 DEF Lock
  <1>3. CASE Reclaim(r)
    BY <1>3 DEF Reclaim
  <1>4. CASE Take(r)
    BY <1>4 DEF Take
  <1>5. CASE Collect(r)
    BY <1>5 DEF Collect
  <1>6. CASE Fetch(r)
    BY <1>6 DEF Fetch
  <1>7. CASE Report(r)
    BY <1>7, EndEffect DEF Report
  <1>8. CASE AppendLock(r)
    BY <1>8 DEF AppendLock
  <1>9. CASE AppendReclaim(r)
    BY <1>9 DEF AppendReclaim
  <1>10. CASE AppendTake(r)
    BY <1>10 DEF AppendTake
  <1>11. CASE Scan(r)
    BY <1>11, EndEffect, LookEffect DEF Scan
  <1>12. CASE Index(r)
    BY <1>12, EndEffect, LookEffect DEF Index
  <1>13. CASE Copy(r)
    BY <1>13 DEF Copy
  <1>14. CASE Rename(r)
    BY <1>14 DEF Rename
  <1>15. CASE Unlock(r)
    BY <1>15 DEF Unlock
  <1>16. CASE Release(r)
    BY <1>16 DEF Release
  <1>17. CASE Fail(r)
    BY <1>17, EndEffect DEF Fail
  <1>18. CASE Crash(r)
    BY <1>18, EndEffect DEF Crash
  <1>. QED
    BY <1>1, <1>2, <1>3, <1>4, <1>5, <1>6, <1>7, <1>8, <1>9, <1>10, <1>11,
       <1>12, <1>13, <1>14, <1>15, <1>16, <1>17, <1>18 DEF RunStep

\* Both locks are old by the time a firing that is spaced from theirs looks.
LEMMA LocksAreOld ==
    ASSUME TypeOK, LockInv, AgeInv, Orderly, Spaced, NEW r \in Runs
    PROVE  /\ pc[r] = "lock" /\ clock # NoLock => IsStale
           /\ pc[r] = "appendLock" /\ alock # NoLock => AppendLockIsStale
  <1>0. /\ now \in Nat /\ \A q \in Fired : q \in Runs /\ run[q].fired \in Nat
        /\ clock.at \in Nat /\ alock.at \in Nat
        /\ Timeout \in Nat /\ MaxRequest \in Nat /\ AppendStale \in Nat
        /\ Stale \in Nat /\ Stale <= Timeout + MaxRequest + AppendStale
    BY CollectorAssumption DEF TypeOK, RunState, LockFile, Fired
  <1>1. ASSUME pc[r] = "lock", clock # NoLock
        PROVE  IsStale
    <2>1. /\ r \in Fired /\ run[r].fired = now
          /\ clock.owner \in Fired /\ clock.at = run[clock.owner].fired
          /\ clock.owner # r /\ run[clock.owner].fired <= now
      BY <1>1 DEF Fired, LockInv, LockInvOf, AgeInv
    <2>2. run[clock.owner].fired < run[r].fired
      BY <1>0, <2>1 DEF Orderly
    <2>3. now - clock.at >= Timeout + MaxRequest + AppendStale
      BY <2>1, <2>2 DEF Spaced
    <2>. QED
      BY <1>0, <2>3 DEF IsStale
  <1>2. ASSUME pc[r] = "appendLock", alock # NoLock
        PROVE  AppendLockIsStale
    <2>1. /\ r \in Fired /\ run[r].fired <= now /\ Inside(r)
          /\ alock.owner \in Fired /\ alock.owner # r
          /\ alock.at < run[alock.owner].fired + Timeout + MaxRequest
      BY <1>2 DEF Fired, AgeInv, Inside, Before, Pc
    <2>2. run[alock.owner].fired < run[r].fired
      BY <1>2, <2>1 DEF AgeInv
    <2>3. run[r].fired - run[alock.owner].fired
              >= Timeout + MaxRequest + AppendStale
      BY <2>1, <2>2 DEF Spaced
    <2>. QED
      BY <1>0, <2>1, <2>3 DEF AppendLockIsStale
  <1>. QED
    BY <1>1, <1>2

LEMMA BlockStep ==
    TypeOK /\ LockInv /\ AgeInv /\ BlockInv /\ [Next]_vars => BlockInv'
  <1>. SUFFICES ASSUME TypeOK, LockInv, AgeInv, BlockInv, [Next]_vars,
                       Orderly', Spaced', NEW q \in Runs
                PROVE  run'[q].outcome \notin {"aborted_lock_held", "blocked_lock"}
    BY DEF BlockInv
  <1>1. Orderly
    BY OrderlyBefore
  <1>2. CASE Tick \/ UNCHANGED vars
    <2>1. UNCHANGED <<pc, run>>
      BY <1>2 DEF Tick, vars
    <2>2. Spaced
      BY <2>1 DEF Spaced, Fired
    <2>. QED
      BY <1>1, <2>1, <2>2 DEF BlockInv
  <1>3. ASSUME NEW r \in Runs, RunStep(r) \/ Fail(r) \/ Crash(r)
        PROVE  run'[q].outcome \notin {"aborted_lock_held", "blocked_lock"}
    <2>1. \A p \in Fired : p \in Fired' /\ run'[p].fired = run[p].fired
      BY <1>3, FiredKept DEF Fired, Fire
    <2>2. Spaced
      BY <2>1 DEF Spaced
    <2>3. \A p \in Runs : run[p].outcome \notin {"aborted_lock_held", "blocked_lock"}
      BY <1>1, <2>2 DEF BlockInv
    <2>4. CASE q = r
      BY <1>1, <1>3, <2>2, <2>3, <2>4, BlockedByYoung, LocksAreOld
    <2>5. CASE q # r
      BY <1>3, <2>3, <2>5, FiredKept
    <2>. QED
      BY <2>4, <2>5
  <1>. QED
    BY <1>2, <1>3 DEF Next

LEMMA BlockInit == Init => AgeInv /\ BlockInv
  <1>. SUFFICES ASSUME Init PROVE AgeInv /\ BlockInv
    OBVIOUS
  <1>1. Fired = {} /\ clock = NoLock /\ alock = NoLock
    BY DEF Init, Fired
  <1>2. \A r \in Runs : run[r].outcome = "none"
    BY DEF Init, NewRun
  <1>. QED
    BY <1>1, <1>2 DEF AgeInv, BlockInv

\* Firings far enough apart never end at a lock, for the locks that firings
\* before them died with, wherever in the append, are old when they look.
THEOREM DeadFiringsNeverBlock == Spec => []DeadFiringsBlockNobody
  <1>1. BlockInv => DeadFiringsBlockNobody
    BY DEF BlockInv, DeadFiringsBlockNobody, Spaced
  <1>2. Spec => [](TypeOK /\ LockInv /\ AgeInv)
    BY LockInvariant, BlockInit, AgeStep, PTL DEF Spec
  <1>3. Spec => []BlockInv
    BY <1>2, BlockInit, BlockStep, PTL DEF Spec
  <1>. QED
    BY <1>1, <1>3, PTL
=============================================================================
