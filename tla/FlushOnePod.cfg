CONSTANTS
  Key = {k1, k2}
  Pod = {p1}
  MaxBatch = 2
  Timestamp = {1, 2}
  MaxWrites = 2
  MaxEvictions = 0
  LateWrites = FALSE
  SlowFlush = TRUE
  Misattribution = FALSE
SPECIFICATION Spec
INVARIANT SettledIsLatest
PROPERTY ImplementsBuffer
