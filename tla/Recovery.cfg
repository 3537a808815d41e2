SPECIFICATION Spec
CONSTANTS
    a = a
    b = b
    c = c
    d = d
    h1 = h1
    h2 = h2
    r1 = r1
    r2 = r2
    r3 = r3
    NoRow = NoRow
    NoProc = NoProc
    RowIds = {a, b, c, d}
    Hashes = {h1, h2}
    Shards = {1, 2}
    ShardOf <- McShardOf
    Procs = {r1, r2, r3}
    Runs = {r1, r2, r3}
    Rollbacks = {r3}
    Scripts = {}
    Batches <- McBatches
    Starts <- McStarts
    MaxEdits = 2
INVARIANTS
    TypeOK
    CrashIsResumable
    InsertedOnce
PROPERTIES
    AppliedMakesExactMirror
    RecoveryTouchesOnlyItsRows
    HistoryOnlyGains
    PublishesOnlyPlannedHistory
SYMMETRY ApplySymmetry
CHECK_DEADLOCK FALSE
