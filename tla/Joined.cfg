SPECIFICATION Spec
CONSTANTS
  a = a
  b = b
  c = c
  old = old
  h1 = h1
  h2 = h2
  r1 = r1
  r2 = r2
  i1 = i1
  i2 = i2
  RowIds = {a, b, c, old}
  Hashes = {h1, h2}
  Shards = {1, 2}
  ShardOf <- McShardOf
  NoRow = NoRow
  Runs = {r1, r2}
  NoRun = NoRun
  RunIds = {i1, i2}
  Cells <- McCells
  Timeout = 1
  Stale = 3
  AppendStale = 1
  MaxRequest = 2
  MayHang = TRUE
  MaySleep = FALSE
  MaxTime = 4
  FirstObs <- McFirstObs
INVARIANT NeverJoined
SYMMETRY Symmetry
CHECK_DEADLOCK FALSE
