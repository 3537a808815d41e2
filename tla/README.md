# Verification of the market-intelligence stores

TLA+ modules, TLC runs and TLAPS proofs for the part of zao-market-intelligence
that must not lose or invent data: the append-only history of collected prices
(monthly CSV shards under `.data/history`), its mirror in SQLite
(`market_signal_history`), the locks that keep scheduled jobs, manual scripts
and other programs apart, the operator's repair of a diverged pair, the
separate store of repeated market observations with its collector, the evidence
records kept beside the history, the guard that decides whether prices read
from a Booking page may be used at all, and the planner that decides which
pages are visited next.

1. [Inventory](#inventory)
2. [Modules and the code they model](#modules-and-the-code-they-model)
3. [Runs](#runs)
4. [Proofs](#proofs)
5. [Where the code and its documents disagree](#where-the-code-and-its-documents-disagree)
6. [What is abstracted, and what is not modelled](#what-is-abstracted-and-what-is-not-modelled)
7. [Plan](#plan)

## Inventory

Several launchd jobs on one Mac collect prices. They share no memory; they meet
in files and in one SQLite database, and each can be killed at any time.

| component | state | operations | hard behaviour |
|---|---|---|---|
| **Trusted append and mirror**, `trustedAppendAndMirror` in `src/src/services/freshHistoryToDbSync.ts`, with `appendHistoryRowsAtomic` of `autoRunnerMarketRefresh.ts` | history shards, database, `history_writer.lock.sqlite`, `.append.lock`, capture file | lock, classify, plan, append, derive, mirror, commit, recheck, capture, release | overlap of jobs, crash between any two steps, failed capture, stale verdicts |
| **Local history real append**, `runRealAppend` in `localHistoryRealAppend.ts` | shards, `.append.lock`, backups | lock or reclaim, conflict check, per-shard backup and rename, rollback | lock test and creation are two steps; rollback can fail; manual and scheduled callers |
| **Mirror database sync**, `applyRealSync` in `historyToDbSyncRealRun.ts` | database | insert or fail in the caller's transaction | all or nothing |
| **Mirror recovery**, `marketMirrorRecoveryPlan.ts`, `reconcileMarketMirror.ts` | both stores and locks, manifest, lock receipt, backups, publication receipts, journal tables | prepare or resume, persist, publish shard by shard, apply, rollback | resume after a crash anywhere, replay, third-state files, rollback after other writers |
| **Observation store and collector lock**, `marketObservationAppend.ts`, `collectorRunLock.ts` | observation shards, two lock files | append under a lock, acquire and release by age | test-then-write locks, release of a lock one no longer owns |
| **Evidence sidecar**, `marketEvidenceSidecar.ts` | evidence shards, one lock file and temporary files each, the captures records are derived from | build, lock, verify, rewrite and check a shard, report completeness, verify in full | leftover locks, tampered shards, short writes, captures that change |
| **Automatic history append**, `autoHistoryAppendRealRun.ts` | reads and calls runRealAppend | preflight, decide, append, post-check | decision from a read before the lock |
| **Rotating scope**, `rotatingCollectionScopePlanner.ts`, `winterSalesLanePlanner.ts`, `kirakuWinterSalesScope.ts`, `runAutoRunnerMarketRefreshRotating.ts` | none but the stamps in history, the sales manifest it is given and the ledger `winter_transition_overrides.json` | plan a winter lane, plan a run, record overrides, visit | starvation, quotas that interact, failed visits, a manifest that comes and goes, midnight |
| **Quote refresh and lane planners**, `usefulQuoteRefreshPlanner.ts`, ... | none | choose which quotes to refresh | outside |
| **Booking UI block guard**, `bookingUiBlockGuard.ts`, `bookingInitialLoadBarrier.ts`, `bookingOwnedBrowser.ts`, `collectBookingLive` in `runAutoRunnerMarketRefreshRotating.ts` | per target: requests seen, aborted and under way, the guard's verdict, the load observer, a browser process | prepare routes, load, wait for quiet, switch to DENY, read, drain, kill, judge | browser events arrive late and in any order, timeouts race answers, the process dies at any time |
| **Collectors, read-only consumers, database client** | none of their own that other parts read back | network I/O, HTML parsing, reports | outside: they call the components above or only read |

How they interact: a collector ends in one call of `trustedAppendAndMirror` with
the rows it collected. The function takes the history writer's lock (an
EXCLUSIVE SQLite transaction on a file of its own), then either takes
`.append.lock` around `appendHistoryRowsAtomic` ("hold" jobs) or calls
`runRealAppend`, which takes that file itself. Manual scripts call
`runRealAppend` without the history lock. Mirroring is one transaction of the
market database, which other programs write too. The recovery takes the history
lock and `.append.lock`, and the database only for its last phase.

What makes each part correct: the append pipeline never duplicates, replaces or
loses a row, reports truthfully where each row went, and extends the database
only with rows that history holds; two processes never rewrite shards together;
no wait is unbounded. The recovery touches only the rows of its plan, can be
repeated after any crash, inserts once, and ends in an exact mirror. The
observation store never changes a stored observation and says which rows it
wrote. The sidecar never reports completeness it does not have and never changes
a stored record, as long as its writes are whole. The guard lets no price from
the rate cells of a page through that may still have talked to the network, keeps
to one browser process, and stops the collection at the first refusal of the
site. The planner wastes no page, visits no cell again within 24 hours of its last
row but where it may, and with pages enough lets no daily candidate starve. `PROJECT.json`
lists every hazard with its line and the properties aimed at it.

## Modules and the code they model

    HistoryTable                  the two stores as values
      RealAppend                  runRealAppend, per process
        TrustedAppend             jobs, scripts, foreign writers, crashes
          TrustedAppendProps      its properties
            MCTrustedAppend       instances
        MirrorRecovery            executions of an accepted plan
          MirrorRecoveryProps     its properties
            MCMirrorRecovery      instances
      AppendOnlyMirror            abstract specification of the two stores
      ObservationCollector        firings of the observation collector
        ObservationCollectorProps its properties
          MCObservationCollector  instance
      EvidenceSidecar             exports of sealed records
        EvidenceSidecarProps      its properties
          MCEvidenceSidecar       instance
    BookingGuard                  a guarded collection of Booking pages
      BookingGuardProps           its properties
        MCBookingGuard            instance
    RotatingScope                 the plans of what to visit, and their runs
      RotatingScopeProps          its properties
        MCRotatingScope           instance
    HistoryTableFacts             lemmas about tables
      RealAppendTypes, TrustedAppendSafety,
      MirrorRecoverySafety, ObservationCollectorSafety,
      EvidenceSidecarSafety, BookingGuardSafety,
      RotatingScopeSafety
                                  theorems and proofs

**HistoryTable.** A *table* maps a `row_id` to the `row_hash`es of its lines in
file order: `<<>>` absent, one entry normal, more a duplicated `row_id`. A
row's shard month is a function of its `row_id` (`ShardOf`), so a table stands
for all shard files. A *database* maps a `row_id` to a hash or `NoRow`.
`MirrorExactMatch` is `mirrorExactMatch`: a count and a lookup per line.

**RealAppend.** `ra[p]` is the local state of a call of `runRealAppend` by
process `p`. The test for the lock file (`RaCheckLock`), its removal when older
than 30 minutes (`RaReclaim`) and its creation (`RaTakeLock`) are three actions,
as in the code. `RaRead` is the dry-run simulation with its conflict check,
`RaWriteShard` backup and rename of one shard, `RaRollback` the restoration of
the shards done so far, which may fail and then leaves the lock file,
`RaThrow` what leaves the function as an exception.

**TrustedAppend.** `run[w]` is the local state and result of a job's call,
`pc[w]` its next step: one action per access to something shared.

| code (`freshHistoryToDbSync.ts`) | action |
|---|---|
| empty batch, cap (843-877) | `Begin` |
| `BEGIN EXCLUSIVE` (879-893) | `AcquireHistoryLock` |
| `loadHistoryRows` (896-911) | `ReadHistory` |
| database digest, classification, plan (900-931) | `ReadDb` |
| leftover `.append.lock` (932-942) | `LegacyCheck` |
| `BEGIN IMMEDIATE`, database changed (941-955) | `DbLock` |
| lock file, append per shard, unlock (957-976) | `LegacyTake`, `AppendRead`, `AppendRename`, `AppendReturn`, `LegacyUnlock` (comparison), `LegacyRemove`; or `PrimitiveStep`, `PrimitiveReturn` |
| rows that landed, problems, capture (978-1027) | `Derive` |
| insert, digest check, exact match (1029-1051) | `Mirror` |
| `COMMIT`; report (1052-1060) | `Commit`; `Recheck` |
| calls outside the handlers | `Throw` |
| finally (1061-1071) | `Release` |

Environment: `Crash` (SQLite frees its locks, `.append.lock` stays),
`ManualStart/Step/Crash`, `AgeLock`, `OperatorRemovesLock`, and another program
that holds the database and may insert or delete a row (`OtherDbBegin/End`).

**AppendOnlyMirror.** What readers may rely on, without locks, files or
crashes: a batch is accepted, recorded in the log, possibly undone, and either
published to the mirror as a whole when that makes an exact copy, or settled.
`TrustedAppendProps!Abstract` maps log to history, mirror to the database and
the pending batch to the rows of runs between plan and commit.

**MirrorRecovery.** Each element of `Runs` is one execution of
`reconcileMarketMirror` (those in `Rollbacks` with `--mode=rollback`), so a lock
body is never used twice. `plan` is the accepted pair of states; `manifest`,
`lockReceipt`, `backups` and `receipts` are the files of the backup directory;
`journal` is the record in the reconciliation tables.

| code (`marketMirrorRecoveryPlan.ts`) | action |
|---|---|
| `withMirrorRecoveryLock` (62-123) | `LockHistory`, `CheckAppendLock`, `TakeAppendLock`, `Release` |
| `prepareMirrorRecovery` / `resumeMirrorRecovery` (180-314, 426-501) | `Open` with `Prepared`, `ShardProven`, `DatabaseProven` |
| `persistMirrorRecoveryPlan` (383-412) | `SaveManifest`, `SaveLockReceipt` |
| `publishRecoveredLegacyHistory` (506-599) | `BeginPublish`, then per shard `NextShard`, `SaveBackup`, `SaveReceipt`, `CheckShard`, `RenameShard`, `Readback` |
| `applyMirrorDatabaseRecovery` (603-675) | `BeginApply`, `Validate`, `Commit` |
| `rollbackMirrorDatabaseRecovery` (677-699) | `Rollback` |
| any throw | `Fail`, and `Refuse` for the checks that fail |

Environment: `Crash`, a scheduled job that appends and may mirror
(`JobAppends`, only while no lock is held), any edit of the database outside a
transaction (`OtherDbEdit`), manual scripts, lock ageing, the operator.

**ObservationCollector.** Each element of `Runs` is one firing of
`runCoreCompetitorRepeatedObservation.ts` in append mode; `obs` is the
observation store as a table of `observation_id`s, `clock` the collector's lock
file and `alock` the store's, each with the time it was written. An
`observation_id` contains the run id, so `Cells` gives each run id its own
rows. Both locks go by age, so there is a clock `now`, and `Tick` lets time
pass. A request whose calls all return lasts up to `MaxRequest` and everything else
takes no time that matters at this scale (`Prompt`). But within a request
`page.title()`, `page.content()` and `page.close()` have no time limit, nor has
`browser.close()` after the last: with `MayHang` a firing may stay in such a call
for any time (`Hanging`), and `late` records that one has.

| code | action |
|---|---|
| run id, start (`run`, 390-415) | `Fire` |
| `acquireCollectorLock`: test, removal, creation (`collectorRunLock.ts` 41-68) | `Lock`, `Reclaim`, `Take` |
| budget before each request, early stop (`run...ts` 129-241) | `Collect`, `Fetch` |
| manifest, `--append` and its environment gate (435-513) | `Report` |
| the store's lock (`marketObservationAppend.ts` 113-128) | `AppendLock`, `AppendReclaim`, `AppendTake` |
| pass 1, conflicts in all months (147-167) | `Scan` |
| pass 2, per month: index, image, rename (169-197) | `Index`, `Copy`, `Rename` |
| the two `finally` blocks (207-209, 516-518) | `Unlock`, `Release` |
| any throw | `Fail` |

Reading a month for its index and reading it again for the new file are two
steps (`Index`, `Copy`), as in the code. Environment: `Crash` and `Tick`; with
`MaySleep` the machine may sleep in the middle of anything.

**EvidenceSidecar.** `ex[e]` is the local state and result of one export by the
process `e`, begun after its rows are in history. The records are a table: a
line is what its seal covers (the run id and the bytes of the capture; the
row's own values are those of its history line, `RowData`), or `Garbled`, a
line whose schema, seal or JSON does not verify. What a capture proves is a
function of its content, `PriceIn`.

| code (`marketEvidenceSidecar.ts`) | action |
|---|---|
| `buildEvidenceForAcceptedRows` over the captures as they are | `Begin` with `Built`, `Buildable` |
| exclusive creation of a shard's lock file, or none | `OpenShard`, `SkipLocked` |
| orphans removed, lines verified, records sorted | `Verify` |
| old bytes and new lines into a temporary file, two unchecked writes (493) | `WriteTemp` with `Whole`, `CutShort` |
| rename; the old bytes are a prefix of the new | `RenameTemp`; `CheckPrefix` |
| `finally` and the caller's `catch` | `Throw` |
| `evidenceExportStatus` | `Finish` |
| `verifyEvidenceRecordFullTrust` | `FullTrust` |

Environment: `Crash`, an edit of a line by hand (`Edit`), a capture pruned or
replaced (`ChangeCapture`), and writes that come back short (`CutShort`), whose
result the code does not look at: of the new lines, and of the old bytes, which are
renamed into place as well before the prefix check throws (493-497). `lost` notes
that a rename took a stored line away.

**BookingGuard.** One target is visited after the other, each with a page, a
guard and a browser process of its own. The collector's steps (`Visit`), the
event handlers (`Hear`) and what the browser, the page and the site do
(`Outside`) interleave: Node runs a handler between any two awaits of the
collector, and what the browser did is heard later and in any order. A target's
row may be priced in two ways (`Record`). If the panel fixes exactly one product for
it, `selectFixedTwoPersonSignals` takes the rate cells, and only of a page whose
guard was clear to the end (287-288, `Usable`). In every other case the row is
priced from the text that was read after navigation and before the guard is armed
(239), and is pushed whatever the guard says (299-301): what the guard promises is
no promise about those rows.

| code | action |
|---|---|
| `launchOwnedBookingBrowser`; connection, page and guard (`runAutoRunnerMarketRefreshRotating.ts`) | `OpenTarget`, `LaunchFails`, `SkipTarget`; `SetUp` |
| `prepareInformationRoutesBeforeNavigation` | `Prepare`, `PrepareFails` |
| navigation; title, text and document proof; checkpoint | `Load`, `LoadFails`; `Look`, `DocumentChanges`; `Check` |
| `waitForFreshQuiet`, `finishQuietHandoff` (`bookingInitialLoadBarrier.ts`) | `Quiet`, `NotQuiet`, `QuietHandoff` |
| `armReadOnlyInformation` | `Arm` |
| `captureBookingRateCells` under checkpoints | `Read`, `FinalCheckpoint` |
| `closeReadOnlyInformationPage` | `Close`, `Drained`, `DrainTimesOut` |
| `terminateOwnedBookingBrowser` (`bookingOwnedBrowser.ts`) | `Killed`, `KillFails` |
| `finishReadOnlyInformation`; the record; the outer `finally` | `Finish`; `Record`; `Throws`, `Abandon` |
| `informationRequestSeen`, the barrier's `start` | `HearRequest` |
| `onResponse`, the barrier's `finish` | `HearEnd` |
| `informationRoute` and its answers | `RouteFallback`, `RouteAbort`, `FallbackSettles`, `FallbackFails`, `AbortSettles`, `AbortFails` |
| `unexpectedPage`, `unexpectedDisconnect` | `UnexpectedPage`, `ProcessExits`, `Disconnect` |
| a call without a time limit that is not answered | `CallHangs` |

**RotatingScope.** A cell is a property and a lead day: stay dates are counted
from today, so that at midnight (`NextDay`) what is known of a date moves one
lead closer and the farthest is new. `age` is what the planner reads from
history, the slots since a cell's last row; `winter` is the lane planned,
`queue` the order in which the passes go through the candidates, `lane` and
`chosen` what they selected. The planner is deterministic, and so is the model
of it: what it depends on is the history, the manifest, the ledger and the
calendar, and these are what others change.

| code | action |
|---|---|
| `planWinterLane`: due cells, quotas, transitions, order (138-244) | `PlanWinterLane` with `DueInLane`, `Scaled`, `Quota`, `PickedOf` |
| `buildRotatingPlan`: candidates, score, bands, backpressure, interleaving (412-685) | `BeginPlan` with `Candidates`, `Band`, `Interleaved`, `LaneKept`, `Queue` |
| its four passes (693-733) | `Select` with `Eligible`, `Relax` |
| the plan, and the ledger before anything is visited (`run...Rotating.ts` 409-424); a run that dies in that write, whose file then reads as empty (118, 136-145) | `EndPlan`; `LedgerTorn` |
| visits; rows appended to history are the next plan's stamps | `Collect` |
| no run in a slot, or one that dies | `Missed` |
| slots of the day, midnight | `NextSlot`, `NextDay` |
| the manifest (`kirakuWinterSalesScope.ts`): found on sale, listed again, gone or unreadable | `Detect`, `Restore`, `Withdraw` |

The definitions named `...` with a suffix and the comment "Mutant of" are
plausible bugs of the operator they are named after. No specification uses
them; each is swapped in to show that a property notices it.

## Runs

All deadlock checks are off: the runs are bounded (`MaxRuns`, `MaxEdits`,
`MaxTime`, each execution or firing once), so a finished system has nothing left to do.

| run | instance | shows |
|---|---|---|
| `scheduled` | two jobs, one of each append mode, 3 calls, an exact start and two diverged ones | `NoDuplicateRows`, `RowsAccountedFor`, `CollectedMeansInHistory`, `VerifiedMeansExact`, `ExistingRowsKept`, `AppendExclusive`, `MirrorFollowsHistory`, `LeftoverLockBlocks`, `DegradedFreezesMirror`, and the refinement `ImplementsAppendOnlyMirror` |
| `liveness` | two jobs, a manual script and a foreign database writer, `FairSpec` | every call ends (`EveryRunEnds`); `AppendsFromExactMirror`, `MirrorGainsOnlyOwnRows` |
| `lock_race` | a job and a script | disagreement, see below |
| `recovery` | two applications and a rollback of a plan, two edits by others, three diverged starts | `CrashIsResumable`, `InsertedOnce`, `AppliedMakesExactMirror`, `RecoveryTouchesOnlyItsRows`, `HistoryOnlyGains`, `PublishesOnlyPlannedHistory` |
| `recovery_completes` | two applications and a manual script, `FairSpec` | `RecoveryCompletes` |
| `recovery_window` | an application and a script | disagreement, see below |
| `collector` | two firings that may hang, two months, budget 1, request 2, lock age 3, store lock 1 | `JoinedOnlyAfterAHang`, `SuccessMeansStored`, `StoreOnlyGains`, `DeadFiringsBlockNobody` |
| `joined` | the same | disagreement, see below |
| `evidence` | two processes that export, three rows in two months | `ReportIsComplete`, `TrustIsEarned`, `ExportsOnlyAppend` |
| `short_write` | the same with short writes anywhere | disagreement, see below |
| `booking_guard` | two targets, two requests per page, `FairSpec` | `ReadingsAreCutOff`, `OneBrowserAtATime`, `RefusalEndsCollection`, `CollectionEnds` |
| `rotation` | five properties, five lead days, four histories, two runs a day for weeks, `FairSpec` | `FullPlans`, `OverridesOnce`, `NobodyStarves` |

*Bounds.* The table operators treat rows independently, except for the shard
they share and the count in `MirrorExactMatch`. Two shards give "one renamed,
one not"; three rows (four for the recovery, where a shard needs a row history
has and one only the database has) give a shard with an old and a new row;
two hashes give the conflict and the silent change. The batches are: two
shards at once, a known and a new row, a conflicting hash, a `row_id` twice,
more than `Cap` rows, nothing, and a lone new row. Two jobs give every
pairwise interleaving of lock holders, the third call is the rerun after a
crash of either. The diverged starts of `scheduled` are a database-only row and
equal counts with other rows. `liveness` has the script and the foreign writer
as well, and there a batch is a single row. In the recovery two applications give crash and resume, or overlap; the
rollback gives apply, rollback, apply; two edits give a change undone, or one in
each store. The starts have recovered rows in two shards, in one, and none.
Applications are interchangeable, so the `recovery` run uses symmetry on
them; it checks no liveness.

The collector's durations keep the order of the real ones rather than
their ratio: the budget is 45 minutes, its lock expires after an hour
(inclusive), the store's after 30 minutes (exclusive), and a request whose calls
without a time limit return at once ends well within 15 minutes by the timeouts
of the others (45 s navigation, 8 s text, back-off). In the instance budget plus
request is exactly the lock's age limit, the tightest case the assumption allows,
one request is enough to use the budget up, and the store's lock expires in a
third of the time. `MaxTime` is 4, the least at which a second firing can begin
after both locks of the first have expired; a firing that hangs outlives its lock
well before. The first run id has rows in two
months, one of which has a row from before.

The collector's properties are about *orderly* firings: none so far has hung in a
call without a time limit, the machine has not slept in the middle of one, and no
two began in the same unit of time. The code's exclusion by age can hold only
then: a firing that hangs or sleeps for an hour loses its lock, and two that test for
the lock file together both create it. Hanging is in the run, and `joined` shows
what it does; sleeping (`MaySleep`) has the same effect on the clock and is left to
the theorems, which cover both.
The firings are scheduled twice a day (`collectorRunLock.ts` 9-15), so the
assumption excludes manual starts at that moment, not the overlap the
lock is for.

In `evidence` one month has two rows, so that a shard can have a record and
gain another, or be cut between two lines; the other month shows that a locked
shard costs the rest nothing. Hand edits happen in both months, short writes in
the one with two rows, and one row's capture may change: each damage is there and
each property has an undamaged shard to speak about. The three rows are the three
cases of the price binding (a priced row, an audit row without a price, a row
excluded from pricing); the second initial set of captures lacks one and denies
another row's blank price. Two exports with two run ids give the overlap, the
rerun after a crash and the conflict of two seals. Exporters are interchangeable,
and the run uses symmetry on them.

In `booking_guard` `Budget = 1` stands for the 1000 requests tracked, so that two
requests exceed it; two requests are also the least that can race each other
and the least a redirect needs. The second target shows what the first leaves
behind. With three requests and `Budget = 2` one target alone has several million
states; as far as those were explored, nothing else came up.

In `rotation` two slots a day stand for twelve, and the deadline of 84 hours is
two days (`Deadline = 4`): it must be longer than the cooldown of a day and
within what the pages can serve. Seven pages a run for at most 25 cells make all
four passes, both caps and the backpressure matter; a lane budget of two pages
for two lane properties makes the quotas scale. `Week = 12` is the period of
the calendar: a multiple of the properties in any pool (1 to 4), because the
rotation turns by day and slot modulo that number. As in the code the dates
that are candidates every day (`Dense = 3`, 30 days there) end before the critical
ones do (`Lead = 4`, `OwnLead = 5`), and farther ones come up one day in three.
Cells older than `Oldest` are alike: overdue by the deadline and by each of the
lane's targets. There are four histories to start from: a skewed one, an empty
one, one overdue throughout and one of a single morning. One change of the
manifest and one failed run may come at any time, in any order.

`NobodyStarves` is the narrowest claim of the project, and it depends on the
capacity. It counts a cell's waiting time from when its date is a candidate on
every day, not from when it is critical: between day 30 and the end of the
critical window a cell is passed over on two days of three
(`rotatingCollectionScopePlanner.ts` 393), deadline or not. And it needs pages
enough: with three instead of four Booking pages a run the same instance violates it.
What it shows is that the order of the bands, and the passes with their limits, do
not make a cell wait which the pages could serve; ordered by score alone (the mutant
`BandUnranked`) cells do wait for ever with the same pages. It does not
say that production meets its deadline: `docs/winter-sales-coverage-simulation.md`,
with every visit successful, reports 175.9 starved cells and 155.5 beyond 96 hours in steady
state at the setting that was adopted, which is a universe larger than the pages.

*Fairness.* `FairSpec` is weak fairness of each call's own steps
(`RunStep`): the operating system schedules a live process. There is no
fairness for crashes, throws, scripts, the operator or other programs; a
crashed call has ended, by definition of `Running`. In `TrustedAppend` weak
fairness is enough because no step waits: every lock attempt has a busy
timeout, so its refusal is always possible. In `MirrorRecovery` only
`BeginApply` and `Rollback` wait for the database, and the only holder of
`dblock` there is an execution, which holds the history lock, so it is the
waiting one itself or has died. `RecoveryCompletes` exempts executions that
die, fail or find a lock; it says that the others finish the plan. In
`BookingGuard` only the collector's own steps (`Visit`) are fair: routes,
navigation, quiet, drain and kill are races with a deadline, and the deadline's step
is enabled whenever the awaited one is not. Some calls have no deadline: connecting
and opening the page, `page.title()` in the runner (239) and in each checkpoint
(`bookingUiBlockGuard.ts` 275), and the capture's `count()` and `evaluate()`
(`setDefaultTimeout(35_000)` covers actions and the screenshot, not these). `CallHangs` lets
any of them stay unanswered, no step of the collector is then enabled unless the
browser disconnects, and `CollectionEnds` says that this is the only way a
collection does not end. No answer of the browser, of the site or of
an abort is assumed to come. In `RotatingScope` the runs and time are fair: the
job is scheduled every two hours. The two steps that compute a plan have one
outcome each, so their fairness is stated on `pc` alone, which is all TLC has to
evaluate. Failures and changes of the manifest are bounded, as `NobodyStarves`
says what holds from some time after the last of them.

## Proofs

All theorems hold for every value of the constants that satisfies the named
assumptions (`TableAssumption`, `ProcAssumption`, `WriterAssumption`,
`RecoveryAssumption`, `CollectorAssumption`, `SidecarAssumption`,
`GuardAssumption`, `ScopeAssumption`); TLC evaluates those on every run.

| theorem | module | additional hypothesis |
|---|---|---|
| `TypeCorrect`: `Spec => []TypeOK` | TrustedAppendSafety | |
| `GainsOnlyOwnRows`: `Spec => MirrorGainsOnlyOwnRows` | TrustedAppendSafety | |
| `ScheduledAppendsExclusive`: `Spec => []AppendExclusive` | TrustedAppendSafety | `Manual = {}` |
| `VerifiedMirrorIsExact`: `Spec => []VerifiedMeansExact` | TrustedAppendSafety | `Manual = {}`, no foreign database writer |
| `ScheduledMirrorFollowsHistory`: `Spec => MirrorFollowsHistory` | TrustedAppendSafety | the same |
| `ExistingRowsStay`: `Spec => []ExistingRowsKept` | TrustedAppendSafety | `Manual = {}` |
| `RowsNeverDuplicated`: `Spec => []NoDuplicateRows` | TrustedAppendSafety | `Manual = {}`, `SingleLined` |
| `EveryRowAccountedFor`: `Spec => []RowsAccountedFor` | TrustedAppendSafety | the same |
| `CollectedRowsAreInHistory`: `Spec => []CollectedMeansInHistory` | TrustedAppendSafety | the same |
| `DegradedMirrorFrozen`: `Spec => DegradedFreezesMirror` | TrustedAppendSafety | `Manual = {}` |
| `JobsImplementAppendOnlyMirror`: `Spec => ImplementsAppendOnlyMirror` | TrustedAppendSafety | `Manual = {}`, `SingleLined`, no foreign database writer |
| `AppendsUnderVerdict`: `Spec => []AppendsFromExactMirror` | TrustedAppendSafety | |
| `LeftoverLockStops`: `Spec => LeftoverLockBlocks` | TrustedAppendSafety | `Manual = {}` |
| `RecoveryTypeCorrect`: `Spec => []TypeOK` | MirrorRecoverySafety | |
| `RowsInsertedOnce`: `Spec => []InsertedOnce` | MirrorRecoverySafety | |
| `RecoveryScope`: `Spec => RecoveryTouchesOnlyItsRows` | MirrorRecoverySafety | |
| `PublicationOnlyAdds`: `Spec => HistoryOnlyGains` | MirrorRecoverySafety | `Scripts = {}` |
| `PublicationIsPlanned`: `Spec => PublishesOnlyPlannedHistory` | MirrorRecoverySafety | `Scripts = {}` |
| `AppliedIsExact`: `Spec => AppliedMakesExactMirror` | MirrorRecoverySafety | `Scripts = {}` |
| `RecoveryResumes`: `Spec => []CrashIsResumable` | MirrorRecoverySafety | |
| `CollectorTypeCorrect`: `Spec => []TypeOK` | ObservationCollectorSafety | |
| `JoinedOnlyAfterHangs`: `Spec => []JoinedOnlyAfterAHang` | ObservationCollectorSafety | |
| `SuccessIsStored`: `Spec => []SuccessMeansStored` | ObservationCollectorSafety | |
| `StoreGainsOnly`: `Spec => StoreOnlyGains` | ObservationCollectorSafety | |
| `DeadFiringsNeverBlock`: `Spec => []DeadFiringsBlockNobody` | ObservationCollectorSafety | |
| `SidecarTypes`: `Spec => []TypeOK` | EvidenceSidecarSafety | |
| `ReportsHold`: `Spec => []ReportIsComplete` | EvidenceSidecarSafety | |
| `TrustTheorem`: `Spec => []TrustIsEarned` | EvidenceSidecarSafety | |
| `AppendTheorem`: `Spec => ExportsOnlyAppend` | EvidenceSidecarSafety | |
| `GuardTypes`: `Spec => []TypeOK` | BookingGuardSafety | |
| `PagesAreCutOff`: `Spec => []ReadingsAreCutOff` | BookingGuardSafety | |
| `BrowsersDoNotOverlap`: `Spec => []OneBrowserAtATime` | BookingGuardSafety | |
| `RefusalsEndCollection`: `Spec => []RefusalEndsCollection` | BookingGuardSafety | |
| `ScopeTypes`: `Spec => []TypeOK` | RotatingScopeSafety | |
| `OverridesTheorem`: `Spec => []OverridesOnce` | RotatingScopeSafety | |
| `PlansAreFull`: `Spec => []FullPlans` | RotatingScopeSafety | |

The hypotheses are needed: the runs `lock_race` and `recovery_window` are
counterexamples without them, and with a manual script `VerifiedMeansExact`
fails too: a manual append after `Recheck`'s database read leaves history with more
rows than line 1058, which compares with rows read before, looks at.
`SingleLined` says that no initial history has a duplicated `row_id`. The code
does not repair one it finds, and with lines of two hashes `runRealAppend`
compares with the first while the plan compared with the last; no run without
scripts ever makes one, which is what `RowsNeverDuplicated` says.

*The append pipeline.* None of the properties is inductive. `HistoryLockInv`
says that a call between lock and release holds the history lock; with
`PrimitiveInv` (the primitive only runs inside its caller's step) it gives
`AppendExclusive`. `DbLockInv` says that a call that may mirror holds the
database from `DbLock` to `Commit`, and that at the commit the rows to insert
are not stored; that gives `MirrorGainsOnlyOwnRows`, foreign writers and scripts
included. `MirrorInv` adds, per program counter, what of the two stores a call
still knows: which of `before`, `seen` and `after` equal the current history
and database. It is kept because the stores change only under the history lock
(`StoresLocked`). Two data lemmas turn the code's test into the promise:
`LinesCount` (without duplicates there are as many lines as rows) and
`ExactMatchIsMirror` (equal counts and a lookup per line make the two equal,
which needs the injection from lines into stored rows to be a surjection).

*The rows.* `DataInv` says, for each step between the plan and the report, what
history is: the table the run read with its new lines added to the shards done
so far (`LegacyData` for the jobs that hold the lock file, `PrimitiveData` for
those that call `runRealAppend`, where the image in memory, the backups and the
shards to undo are related to it as well). When the append returns, in success,
after a failed shard or after a rollback, each row is as it was read or has
been appended, and nothing else changed (`RowResult`). None of this is visible
in `ExistingRowsKept`, which is why that is not inductive. `NoDupInv` adds what
each run in progress has read. `AccountInv` carries a result beyond the release
of the lock: a row that has landed is in history and in what every later run
read (`Landed`), so a later rollback restores it with the rest of its shard.
That the mirror was exact but for the rows in flight when a job changes it
(`DegradedFreezesMirror`) follows from the comparison that ends in the commit
(`CommitFacts`): the rows to insert are not stored, by `DbLockInv`, foreign
writers included, and with them the database is the mirror of history.

*The refinement.* The initial states map to initial states, and under
`RefinementInv` each action is taken to its abstract step: `ReadDb` accepts the
rows to write, a rename or a line of the primitive adds lines, a rollback
undoes them, `Commit` publishes or settles, a crash settles what it leaves; all
others change neither log nor mirror. The pending batch is that of the one run
that holds the history lock (`HistoryLockInv`), so the union over runs in the
mapping has at most one member to follow.

*The lock file.* Among scheduled jobs `.append.lock` follows the history lock:
`AppendLockInv` says that a job past its own check found none there, and that
the file is its own until it unlocks. So `RaReclaim`, which removes a file older
than 30 minutes, never runs in a job; only the operator removes a leftover.
With scripts there is no such invariant: a script past its own test for the file may
overwrite it between a job's comparison and its removal (`LegacyUnlock`,
`LegacyRemove`, line 974), and the job then removes the script's lock.

*The verdict.* `SeenInv` follows a run that mirrors from the second look at the
database (line 951), under the lock the transaction took, to its commit: what it
saw is what is there, and it is the mirror of the history read before. Dropping
that look (`DbLockUnchecked`) lets another program's commit come in between.

*The recovery.* `TxnInv`: from its first look to its commit an execution holds
the database, the database is the plan's, and the journal has no record.
`JournalInv`: the journal's rows are among the plan's missing rows, and some
application implies a record. Most steps are *quiet*: they leave database and
journal alone, enter no transaction and report no application (`StepIsQuiet`,
`QuietKeeps`); the four that are not (the begin of the transaction, its
validation, commit, rollback) are taken one by one.

*The recovery's publication.* `HoldInv`: an execution between lock and release
holds the history lock, so no scheduled job appends and no other execution
renames meanwhile. `PlanInv` follows each shard: once an execution has looked
at the stores, every shard is `Original` (as the plan saw it) or `Restored` (as
the plan leaves it); those no longer to do are restored, except the one being
written, whose image in memory is still the file's; and an execution that calls
its rows published has all of theirs restored. `ImageRestores` makes a rename
lead from either to restored, and `RestoredIsUnion` turns shards restored
everywhere into the equation of history and the union of the two planned
states, using that the plan found no duplicate and no conflict (`Admissible`).

*The recovery's resumption.* An execution refuses by many checks, each against
what is on disk, so `CrashIsResumable` needs all of it. `LeftInv` is what dead
executions leave: every shard is original or restored, the receipts that exist
are those every execution would write (`PlanReceipt`), a published shard has
its receipt and its backup, the journal agrees with the database, and without a
manifest nothing has begun. `ResumeInvOf` is what an execution has made sure
of, step by step, so that its next check passes: its lock file, the history it
expects, the image of the shard it is at, the receipt and backup before the
rename. Both are claimed as long as nobody else has changed a store and no
rollback was made (`Undisturbed`); scripts may exist, and then are quiet.

*The recovery's insertion.* `InsertedOnce` counts the executions that applied the
plan by their `outcome`, which is set at the commit and which a crash does not
erase: one that committed and died before it reported is counted.

*The collector.* `LockInv`: as long as firings are orderly, the lock file is
that of the firing inside and is younger than `Timeout + MaxRequest`, because
the budget counts from the moment the lock was written and a request begun
within it ends in time, as none of its calls hangs. `CollectorAssumption` has `Timeout + MaxRequest <=
Stale`, which the defaults of the code satisfy, so nobody finds that lock old.
A firing between the test for the lock file and its creation began at this very
moment; a second one there would have begun at the same one. `StoreInv` is about
the store: a firing's own rows are not there before it writes (`IdInv`: firings
that begin apart have run ids of their own, and an `observation_id` contains
it), those of the months done are there as collected, and between `Index` and
`Rename` the month is still what was read, which is where `LockInv` is needed.
`AgeInv` says how old the lock files can be and that the owner of a leftover one
began before the firing inside; with firings a lock's age apart (`Spaced`) both
are old when the next one looks, `BlockInv`.

*The sidecar.* `LockInv`: an export inside a shard owns its lock file, so no two
are inside one shard; a lock file left by the dead is never taken, which is what
makes this hold without a clock. With it `PlanInv` says that what an export
read and planned to add (`Planned`: only rows the shard lacks, each with the
line built for it) stays true up to its rename, unless someone edits the shard
by hand; the image to be renamed is the whole of old and new lines, or the shard
counts as cut. `RecordInv` ties each built record to a capture that proves its row's
prices and `StoreInv` carries that to the stored lines, which gives
`TrustIsEarned`. `ProgressInv` accounts for each record of an export under way
(stored, reported, or in a shard still to do), and `DoneInv` is what is left of
it when the export reports.

*The guard.* `PageInv` relates what became of a request to the guard's sets and
to the events on their way; above all, a request that was on the wire is never
among the aborted ones. `BarrierInv`: a quiet barrier that still adds up has
nothing held or on the wire it was not told of, or will be. `HandoffInv`: after a
verified handoff no fallback is under way, and each request that then went out
(a redirect's next hop, a late one) is among those seen or is yet to be told.
`ConnectionInv`: a connection that is gone has delivered everything. So once
the process is known dead a request that leaked was seen and has no abort, and
`Finish` spoils the page; and a 403 or 429 was heard, so the guard is blocked
and `Record` stops: `VerdictInv`. `UsableIsCutOff` puts these together for a page in
good standing, and `RowInv` carries it to the row priced from its cells.

*The planner.* `OverrideInv`: what was asked of a cell within its cooldown since
its date was found on sale is in the ledger; a plan's targets within the
cooldown are comparable properties' transitions that the ledger did not have
when the lane was planned, and nothing but the plan's end writes it. A run that dies in
that write loses ledger and promise together: `asked` starts anew (`LedgerTorn`). The
candidates of the passes are never in cooldown (`Queue` holds only `Candidates`
and the lane), which leaves the lane. For `FullPlans`, `PlanFits` says that
while a plan is made every candidate is queued and no source has more targets
than pages: then a plan that ends full has exactly the pages of both sources,
and one that ends after the fourth pass has met each candidate left over with no
page left. The targets begin with the winter lane, so this rests on `LaneFits`:
the lane never has more cells than Booking has pages. That is a fact about its
quotas. `SharesFit`: amounts scaled down in proportion and rounded down add up to
no more than the budget; `ScaledFits`: nor with one more page for each of the
largest remainders that the rest allows; `LaneOrders`: the lane's order compares
ages as fractions of their targets and has no ties within a property, so that
`FirstOf` takes at most as many cells as it is asked for; `PickedRanked` numbers
a property's cells within its quota. Sums are numbers of pages (`Total`), so
that each of these steps is an injection between finite sets.

*Only model-checked:* liveness (`EveryRunEnds`, `RecoveryCompletes`,
`CollectionEnds`, `NobodyStarves`: fairness and ENABLED are outside the
prover's temporal fragment). Every invariant and action property of the
passing runs is a theorem. No proof needs induction over data: tables are
functions, and counts and sums use the library's cardinality theorems.

## Where the code and its documents disagree

Each is a run that must find a violation; `PROJECT.json` quotes the lines.

* `lock_race`: `runRealAppend` tests for `.append.lock` and then writes it
  without `wx`, so it may run beside a job that created it in between.
* `recovery_window`: a manual append between the recovery's last check of a
  shard and its rename is replaced by the image of the older file.
* `short_write`: `writeSync` may write less than it was given; the export does
  not look at its result, checks only that the old bytes are a prefix, and
  reports OK with a record that is cut in the middle. (Short writes of the old bytes
  lose stored lines and end in an error; `ExportsOnlyAppend` and `ReportIsComplete`
  state what holds with them.)
* `joined`: the comment says that a firing still running must never be joined by
  the next one; one that hangs in a call without a time limit for an hour is.

Two more that the models show and that have no run of their own: an exception from a
call outside the handlers (`Throw`: opening the lock database, reading history
again, ...) leaves the function with rows that are in no capture file and not in
`unsaved_row_ids`; and "Remove only our own lock" (`freshHistoryToDbSync.ts` 973)
does not hold beside a script, see *The lock file* above.

## What is abstracted, and what is not modelled

* Row content is its `row_hash`; formats, reports, logs, acceptance texts and
  size budgets are left out. A file's stamp is its content.
* The collector: a request yields one row (Jalan's may yield several, in one
  step all the same); the early stop and a budget that ran out leave out any
  subset of what is left; duplicates within a run are suppressed before they
  reach the store; without `--append` the run ends after its manifest, and
  without `COLLECT_LIVE` it does nothing. Reading one month's file is one step.
* Reading the history directory (`ReadHistory`, `Derive`, `RaRead`, `Open`) is
  one step, and so is backup plus rename of one shard in `RaWriteShard`.
  A read per shard is planned.
* In the recovery, removing a lock file after comparing it
  (`Release`, the reclaim of `CheckAppendLock`) is one step; creating a lock file includes its
  body, so that an empty one left by a write that fails after the creation does
  not occur (`LegacyTake`, `TakeAppendLock` fail without one).
* A rollback of `runRealAppend` either copies a backup back whole or fails before:
  a `copyFileSync` that is torn by a crash is not modelled.
* The recovery: one accepted plan and one release; `--mode=plan` writes nothing
  and is where the initial `plan` comes from. Encryption is the identity of a
  backup's content, which is compared after decryption. The readback of a published
  shard and its stamp (590-592) are one step. Whether the legacy columns of a
  planned row are unchanged (292-300) is decided in the code by hashes of `raw_json`,
  here by the row's hash. `persist`, repeated
  within `publish`, finds its own files.
* The sidecar: which fields a capture yields, its excerpts and the limits of
  `guardedReader` are in `PriceIn` and `NoCapture`; shards are visited in any
  order; the captures themselves are written by the collectors and are initial.
* The guard: the live path with rate cell evidence, which is the one with an
  owned browser, evidence policy V2 and routes prepared before navigation. Not
  modelled: closing the page instead of killing a process, routes installed late,
  the diagnostics of causes, unreadable UI states (they only make the page
  unverified, as other failures do). Assumed of Playwright: a connection
  delivers what was sent before it reports its end; a redirect's next hop does
  not pass the route handlers. Assumed of the page: its traffic is requests
  (no web sockets or service workers are observed by the code).
* The rotating scope: the attraction of a date and property (`scoreTarget`:
  weekday, holiday, season, prices) is the constant `Score`; the order of slugs
  is that of numbers; launch times are exact, so that a slot's cooldown is a
  whole number of slots (the code's runs are late by minutes, which can move a visit
  to the next run). Not modelled: dates an operator forces, dry runs, the pricing
  quote lane (off by default), rows that other jobs add to history. Two things a
  reader of the comments may expect and the code does not do: the limits per date
  and property of the passes 1 to 3 hold for starved cells too, so one may come
  after fresher ones of another date (it is let in by the fourth pass if pages are left);
  and a cell whose page never yields an acceptable row takes no cooldown, so a
  starved one is selected by every run (a second visit within 24 hours is thus no
  override). `MaxFailures` bounds that here. A torn ledger is an empty one: JSON that is
  cut short does not parse.
* The older planning and direct-sync entry points of `freshHistoryToDbSync.ts`,
  `localHistoryRealAppend.ts`'s preflight reports and the refresh planning of
  `autoRunnerMarketRefresh.ts` are not modelled, nor are the components marked
  so in `PROJECT.json`.

## Plan

1. Done: HistoryTable, RealAppend, TrustedAppend with AppendOnlyMirror;
   MirrorRecovery; their runs and the theorems above.
2. Done: ObservationCollector, hanging calls included. Left: a run with two
   firings at one moment, to show what then becomes of the store.
3. Done: EvidenceSidecar, BookingGuard and their theorems.
4. Automatic append around RealAppend: the verdict of the post-write check
   against what other scripts did.
5. Done: RotatingScope, its liveness and three theorems. Left: the pricing quote
   lane.
6. A read per shard in ReadHistory and Derive.
7. Done: the refinement of AppendOnlyMirror, the properties of the rows and of
   the lock file, resumption of the recovery, the collector's store.
8. Proofs left: those of the properties that the runs of items 2, 4 and 6 will
   check.
