SPECIFICATION Spec
CONSTANTS
    a = a
    b = b
    c = c
    d = d
    h1 = h1
    h2 = h2
    r1 = r1
    m1 = m1
    NoRow = NoRow
    NoProc = NoProc
    RowIds = {a, b, c, d}
    Hashes = {h1, h2}
    Shards = {1, 2}
    ShardOf <- McShardOf
    Procs = {r1, m1}
    Runs = {r1}
    Rollbacks = {}
    Scripts = {m1}
    Batches <- McBatches
    Starts <- LegacyStarts
    MaxEdits = 1
PROPERTIES
    ExistingLinesKept
CHECK_DEADLOCK FALSE
