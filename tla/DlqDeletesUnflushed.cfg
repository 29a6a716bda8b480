CONSTANTS
  Key = {k1}
  Pod = {p1}
  MaxBatch = 1
  Timestamp = {1}
  MaxWrites = 2
  MaxEvictions = 0
  LateWrites = FALSE
  SlowFlush = FALSE
  Misattribution = FALSE
  Worker = {w1}
  Strategy = {"ignore"}
  MaxDead = 1
  Quiesced = FALSE
SPECIFICATION DlqSpec
INVARIANT UnflushedPersists
