SPECIFICATION Spec
CONSTANTS
    a = a
    b = b
    c = c
    h1 = h1
    h2 = h2
    w1 = w1
    m1 = m1
    NoRow = NoRow
    NoProc = NoProc
    OtherDb = OtherDb
    RowIds = {a, b, c}
    Hashes = {h1, h2}
    Shards = {1, 2}
    ShardOf <- McShardOf
    Procs = {w1, m1}
    Writers = {w1}
    Manual = {m1}
    HoldsLegacy = {w1}
    MirrorEnabled = {w1}
    Batches <- FewBatches
    Cap = 2
    Starts <- ExactStart
    OtherDbActive = FALSE
    MaxRuns = 2
INVARIANTS
    ManualBacksOff
CHECK_DEADLOCK FALSE
