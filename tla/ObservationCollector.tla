------------------------ MODULE ObservationCollector ------------------------
(* The repeated-observation collector                                        *)
(* (src/src/scripts/runCoreCompetitorRepeatedObservation.ts): its run lock    *)
(* and wall-clock budget (src/src/services/collectorRunLock.ts) and the      *)
(* observation store it appends to                                           *)
(* (src/src/services/marketObservationAppend.ts).  Each element of Runs is   *)
(* one firing; its run id is the second it began in, and is part of the id   *)
(* of every observation it makes.  Both locks go by age, so there is a clock. *)
EXTENDS HistoryTable, Integers

CONSTANTS Runs,         \* firings of the collector
          NoRun,        \* owner of a lock file that does not exist
          RunIds,       \* run ids
          Cells,        \* the observations a firing of a run id asks for
          Timeout,      \* RUN_TIMEOUT_MS
          Stale,        \* DEFAULT_LOCK_STALE_MS
          AppendStale,  \* STALE_LOCK_THRESHOLD_MINUTES
          MaxRequest,   \* the longest a request takes if each of its calls
                        \* that has no time limit returns at once
          MayHang,      \* whether those calls may take any time instead
          MaySleep,     \* whether the machine may sleep during a firing
          MaxTime,      \* bound on the clock
          FirstObs      \* contents of the store at the start

ASSUME CollectorAssumption ==
    /\ NoRun \notin Runs
    /\ Cells \in [RunIds -> SUBSET RowIds]
    /\ \A i, j \in RunIds : i # j => Cells[i] \cap Cells[j] = {}
    /\ RunIds # {}
    /\ Timeout \in Nat \ {0} /\ Stale \in Nat /\ AppendStale \in Nat
    /\ MaxRequest \in Nat /\ MaxTime \in Nat
    /\ Timeout + MaxRequest <= Stale
    /\ Stale <= Timeout + MaxRequest + AppendStale
    /\ MayHang \in BOOLEAN /\ MaySleep \in BOOLEAN
    /\ FirstObs \in Table /\ \A i \in RunIds : Cells[i] \cap Ids(FirstObs) = {}

VARIABLES now,    \* wall-clock time
          late,   \* a firing has hung or been asleep: its requests and its
                  \* other steps no longer keep to MaxRequest
          obs,    \* the observation shards
          clock,  \* .data/locks/core_competitor_observation.lock
          alock,  \* .data/market-observations/.append.lock
          pc, run

vars == <<now, late, obs, clock, alock, pc, run>>

Pc == {"new", "lock", "reclaim", "take", "collect", "fetch", "report",
       "appendLock", "appendReclaim", "appendTake", "scan", "index", "copy",
       "rename", "unlock", "release", "done", "dead"}
Outcomes == {"none", "aborted_lock_held", "preview", "success", "blocked_lock",
             "blocked_conflict", "failed"}
LockFile == [owner: Runs \cup {NoRun}, at: Nat]
NoLock == [owner |-> NoRun, at |-> 0]

RunState ==
    [id: RunIds, fired: Nat, start: Nat, since: Nat, todo: SUBSET RowIds, rows: Table,
     left: SUBSET Shards, conflict: BOOLEAN, shard: Shards, existed: BOOLEAN,
     fresh: SUBSET RowIds, image: Table, outcome: Outcomes]
NewRun ==
    [id |-> CHOOSE i \in RunIds : TRUE, fired |-> 0, start |-> 0, since |-> 0,
     todo |-> {}, rows |-> EmptyTable, left |-> {}, conflict |-> FALSE,
     shard |-> CHOOSE s \in Shards : TRUE, existed |-> FALSE, fresh |-> {},
     image |-> EmptyTable, outcome |-> "none"]

TypeOK ==
    /\ now \in Nat /\ late \in BOOLEAN /\ obs \in Table
    /\ clock \in LockFile /\ alock \in LockFile
    /\ pc \in [Runs -> Pc] /\ run \in [Runs -> RunState]

Init ==
    /\ now = 0 /\ late = FALSE /\ obs = FirstObs
    /\ clock = NoLock /\ alock = NoLock
    /\ pc = [r \in Runs |-> "new"]
    /\ run = [r \in Runs |-> NewRun]

Goto(r, label) == pc' = [pc EXCEPT ![r] = label]

\* What is left of a firing that ends with this outcome: what it reported.
Ended(r, outcome) ==
    [NewRun EXCEPT !.id = run[r].id, !.fired = run[r].fired, !.outcome = outcome,
                   !.rows = IF outcome = "success" THEN run[r].rows ELSE EmptyTable]
End(r, outcome, label) ==
    /\ run' = [run EXCEPT ![r] = Ended(r, outcome)]
    /\ Goto(r, label)
-----------------------------------------------------------------------------
(* The run lock.                                                             *)

\* Two firings have one run id only if they begin together.
Fire(r) ==
    /\ pc[r] = "new"
    /\ \E id \in RunIds :
           /\ \A q \in Runs : pc[q] # "new" /\ run[q].id = id => run[q].fired = now
           /\ run' = [run EXCEPT ![r].id = id, ![r].fired = now]
    /\ Goto(r, "lock")
    /\ UNCHANGED <<now, late, obs, clock, alock>>

\* isLockStale, inclusive at the boundary.
IsStale == now - clock.at >= Stale

\* acquireCollectorLock: test, removal of an old file, and creation.
Lock(r) ==
    /\ pc[r] = "lock"
    /\ \/ clock = NoLock /\ Goto(r, "take") /\ UNCHANGED run
       \/ clock # NoLock /\ IsStale /\ Goto(r, "reclaim") /\ UNCHANGED run
       \/ clock # NoLock /\ ~IsStale /\ End(r, "aborted_lock_held", "done")
    /\ UNCHANGED <<now, late, obs, clock, alock>>

Reclaim(r) ==
    /\ pc[r] = "reclaim"
    /\ clock' = NoLock
    /\ Goto(r, "take")
    /\ UNCHANGED <<now, late, obs, alock, run>>

Take(r) ==
    /\ pc[r] = "take"
    /\ clock' = [owner |-> r, at |-> now]
    /\ run' = [run EXCEPT ![r].start = now, ![r].todo = Cells[run[r].id]]
    /\ Goto(r, "collect")
    /\ UNCHANGED <<now, late, obs, alock>>

\* finally: removes the lock file, whoever wrote it.
Release(r) ==
    /\ pc[r] = "release"
    /\ clock' = NoLock
    /\ Goto(r, "done")
    /\ UNCHANGED <<now, late, obs, alock, run>>
-----------------------------------------------------------------------------
(* Collection within the budget.                                             *)

\* Mutant of Exceeded: one unit too many.
ExceededAfter(r) == now - run[r].start > Timeout

Exceeded(r) == now - run[r].start >= Timeout

\* The budget is looked at before each request, never during one.
Collect(r) ==
    /\ pc[r] = "collect"
    /\ \/ /\ ~Exceeded(r) /\ run[r].todo # {}
          /\ run' = [run EXCEPT ![r].since = now]
          /\ Goto(r, "fetch")
       \/ /\ Exceeded(r) \/ run[r].todo = {}
          /\ Goto(r, "report")
          /\ UNCHANGED run
    /\ UNCHANGED <<now, late, obs, clock, alock>>

\* A request ends in a row, a failed one too; blocks make the collector leave
\* out the remaining dates of a property.
Fetch(r) ==
    /\ pc[r] = "fetch"
    /\ \E id \in run[r].todo, hash \in Hashes, skipped \in SUBSET run[r].todo :
           run' = [run EXCEPT ![r].rows[id] = <<hash>>,
                              ![r].todo = @ \ (skipped \cup {id})]
    /\ Goto(r, "collect")
    /\ UNCHANGED <<now, late, obs, clock, alock>>

\* The manifest; without --append or its environment gate the run ends here.
Report(r) ==
    /\ pc[r] = "report"
    /\ \/ Goto(r, "appendLock") /\ UNCHANGED run
       \/ End(r, "preview", "release")
    /\ UNCHANGED <<now, late, obs, clock, alock>>
-----------------------------------------------------------------------------
(* appendMarketObservations.                                                 *)

\* Mutant of AppendLockIsStale: an abandoned lock blocks for ever.
AppendLockKept == FALSE

AppendLockIsStale == now - alock.at > AppendStale

AppendLock(r) ==
    /\ pc[r] = "appendLock"
    /\ \/ alock = NoLock /\ Goto(r, "appendTake") /\ UNCHANGED run
       \/ /\ alock # NoLock /\ AppendLockIsStale
          /\ Goto(r, "appendReclaim") /\ UNCHANGED run
       \/ /\ alock # NoLock /\ ~AppendLockIsStale
          /\ End(r, "blocked_lock", "release")
    /\ UNCHANGED <<now, late, obs, clock, alock>>

AppendReclaim(r) ==
    /\ pc[r] = "appendReclaim"
    /\ alock' = NoLock
    /\ Goto(r, "appendTake")
    /\ UNCHANGED <<now, late, obs, clock, run>>

\* Mutant of Months: all rows go by the month of one of them.
MonthsOfOne(r) == {s \in ShardsOf(run[r].rows) :
                       \A t \in ShardsOf(run[r].rows) : s <= t}

Months(r) == ShardsOf(run[r].rows)

AppendTake(r) ==
    /\ pc[r] = "appendTake"
    /\ alock' = [owner |-> r, at |-> now]
    /\ run' = [run EXCEPT ![r].left = Months(r)]
    /\ Goto(r, "scan")
    /\ UNCHANGED <<now, late, obs, clock>>

\* The rows of month s.
InMonth(s) == {id \in RowIds : ShardOf[id] = s}
Collected(r, s) == Ids(run[r].rows) \cap InMonth(s)

\* Pass 1 looks for conflicts in every shard before anything is written.
Scanned(r, s) ==
    [run[r] EXCEPT
        !.left = @ \ {s},
        !.conflict = @ \/ \E id \in Collected(r, s) \cap Ids(obs) :
                              RowOf(obs, id) # RowOf(run[r].rows, id)]

Scan(r) ==
    /\ pc[r] = "scan"
    /\ \/ \E s \in run[r].left :
             run' = [run EXCEPT ![r] = Scanned(r, s)] /\ UNCHANGED pc
       \/ /\ run[r].left = {} /\ run[r].conflict
          /\ End(r, "blocked_conflict", "unlock")
       \/ /\ run[r].left = {} /\ ~run[r].conflict
          /\ run' = [run EXCEPT ![r].left = Months(r)]
          /\ Goto(r, "index")
    /\ UNCHANGED <<now, late, obs, clock, alock>>

\* Pass 2, per shard: read the ids it has, ...
Indexed(r, s) ==
    [run[r] EXCEPT !.left = @ \ {s}, !.shard = s,
                   !.fresh = Collected(r, s) \ Ids(obs),
                   !.existed = Ids(obs) \cap InMonth(s) # {}]

Index(r) ==
    /\ pc[r] = "index"
    /\ \/ \E s \in run[r].left :
             /\ run' = [run EXCEPT ![r] = Indexed(r, s)]
             /\ Goto(r, IF Indexed(r, s).fresh = {} THEN "index" ELSE "copy")
       \/ run[r].left = {} /\ End(r, "success", "unlock")
    /\ UNCHANGED <<now, late, obs, clock, alock>>

\* Mutant of NewImage: writes the new rows over the old shard.
NewImageAlone(r) == OnlyIds(run[r].rows, run[r].fresh)

\* Mutant of NewImage: pads the shard with an empty line per other row.
NewImagePadded(r) ==
    [id \in RowIds |-> IF id \in run[r].fresh THEN run[r].rows[id] ELSE <<NoRow>>]

\* ... its lines, if there was a file, to which the new rows are added, ...
NewImage(r) ==
    AppendLines(OnlyIds(obs, IF run[r].existed THEN InMonth(run[r].shard) ELSE {}),
                OnlyIds(run[r].rows, run[r].fresh))

Copy(r) ==
    /\ pc[r] = "copy"
    /\ run' = [run EXCEPT ![r].image = NewImage(r)]
    /\ Goto(r, "rename")
    /\ UNCHANGED <<now, late, obs, clock, alock>>

\* ... and rename the result over it.
Rename(r) ==
    /\ pc[r] = "rename"
    /\ obs' = PutShards(obs, run[r].image, {run[r].shard})
    /\ run' = [run EXCEPT ![r].image = EmptyTable, ![r].fresh = {}]
    /\ Goto(r, "index")
    /\ UNCHANGED <<now, late, clock, alock>>

Unlock(r) ==
    /\ pc[r] = "unlock"
    /\ alock' = NoLock
    /\ Goto(r, "release")
    /\ UNCHANGED <<now, late, obs, clock, run>>

\* A file or network call throws; the finally blocks entered so far run.
Fail(r) ==
    /\ \/ /\ pc[r] \in {"lock", "reclaim", "take"}
          /\ End(r, "failed", "done")
       \/ /\ pc[r] \in {"collect", "fetch", "report", "appendLock",
                        "appendReclaim", "appendTake"}
          /\ End(r, "failed", "release")
       \/ /\ pc[r] \in {"scan", "index", "copy", "rename"}
          /\ End(r, "failed", "unlock")
    /\ UNCHANGED <<now, late, obs, clock, alock>>
-----------------------------------------------------------------------------
(* The environment.                                                          *)

Crash(r) ==
    /\ pc[r] \notin {"new", "done", "dead"}
    /\ End(r, "none", "dead")
    /\ UNCHANGED <<now, late, obs, clock, alock>>

\* Page loads, waits and the reading of the body have a time limit, which
\* bounds a request by MaxRequest; what a firing does besides takes no time in
\* units of the clock.
Prompt ==
    \A r \in Runs : \/ pc[r] \in {"new", "done", "dead"}
                    \/ pc[r] = "fetch" /\ now < run[r].since + MaxRequest

\* Reading the title or the content of a page and closing it, inside a request,
\* and closing the browser, before the report, have none.
Hanging == \A r \in Runs : pc[r] \in {"new", "done", "dead", "fetch", "report"}

Tick ==
    /\ now < MaxTime
    /\ Prompt \/ (MayHang /\ Hanging) \/ MaySleep
    /\ now' = now + 1
    /\ late' = (late \/ ~Prompt)
    /\ UNCHANGED <<obs, clock, alock, pc, run>>

RunStep(r) ==
    \/ Fire(r) \/ Lock(r) \/ Reclaim(r) \/ Take(r) \/ Collect(r) \/ Fetch(r)
    \/ Report(r) \/ AppendLock(r) \/ AppendReclaim(r) \/ AppendTake(r)
    \/ Scan(r) \/ Index(r) \/ Copy(r) \/ Rename(r) \/ Unlock(r) \/ Release(r)

Next == Tick \/ \E r \in Runs : RunStep(r) \/ Fail(r) \/ Crash(r)

Spec == Init /\ [][Next]_vars
=============================================================================
