SPECIFICATION Spec
CONSTANTS
    a = a
    b = b
    c = c
    sold = sold
    priced = priced
    p = p
    e1 = e1
    e2 = e2
    NoRow = NoRow
    NoExporter = NoExporter
    NoCapture = NoCapture
    NoPrice = NoPrice
    Garbled = Garbled
    RowIds = {a, b, c}
    Hashes <- McHashes
    Shards = {1, 2}
    ShardOf <- McShardOf
    Exporters = {e1, e2}
    RunIds = {1, 2}
    Captures = {sold, priced}
    Prices = {p}
    RowData <- McRowData
    PriceIn <- McPriceIn
    Accepted <- McAccepted
    FirstCaptures <- McFirstCaptures
    Replaceable = {a}
    Editable = {1, 2}
    Cuttable = {1}
    MaxRuns = 2
INVARIANTS
    TypeOK
    ReportIsComplete
    TrustIsEarned
PROPERTIES
    ExportsOnlyAppend
SYMMETRY ExporterSymmetry
CHECK_DEADLOCK FALSE
