SPECIFICATION Spec
CONSTANTS
    a = a
    b = b
    c = c
    h1 = h1
    h2 = h2
    w1 = w1
    w2 = w2
    NoRow = NoRow
    NoProc = NoProc
    OtherDb = OtherDb
    RowIds = {a, b, c}
    Hashes = {h1, h2}
    Shards = {1, 2}
    ShardOf <- McShardOf
    Procs = {w1, w2}
    Writers = {w1, w2}
    Manual = {}
    HoldsLegacy = {w1}
    MirrorEnabled = {w1, w2}
    Batches <- McBatches
    Cap = 2
    Starts <- AllStarts
    OtherDbActive = FALSE
    MaxRuns = 3
INVARIANTS
    TypeOK
    NoDuplicateRows
    RowsAccountedFor
    CollectedMeansInHistory
    VerifiedMeansExact
    ExistingRowsKept
    AppendExclusive
PROPERTIES
    DegradedFreezesMirror
    MirrorFollowsHistory
    LeftoverLockBlocks
    ImplementsAppendOnlyMirror
CHECK_DEADLOCK FALSE
