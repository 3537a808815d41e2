SPECIFICATION FairSpec
CONSTANTS
    a = a
    b = b
    c = c
    h1 = h1
    h2 = h2
    w1 = w1
    w2 = w2
    m1 = m1
    NoRow = NoRow
    NoProc = NoProc
    OtherDb = OtherDb
    RowIds = {a, b, c}
    Hashes = {h1, h2}
    Shards = {1, 2}
    ShardOf <- McShardOf
    Procs = {w1, w2, m1}
    Writers = {w1, w2}
    Manual = {m1}
    HoldsLegacy = {w1}
    MirrorEnabled = {w1, w2}
    Batches <- SingleRows
    Cap = 2
    Starts <- ExactStart
    OtherDbActive = TRUE
    MaxRuns = 2
INVARIANTS
    AppendsFromExactMirror
PROPERTIES
    MirrorGainsOnlyOwnRows
    EveryRunEnds
CHECK_DEADLOCK FALSE
