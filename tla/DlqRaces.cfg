CONSTANTS
  Key = {k1}
  Pod = {p1}
  MaxBatch = 1
  Timestamp = {1}
  MaxWrites = 2
  MaxEvictions = 0
  LateWrites = FALSE
  SlowFlush = TRUE
  Misattribution = FALSE
  Worker = {w1}
  Strategy = {"ignore", "upsert", "reinsert"}
  MaxDead = 1
  Quiesced = FALSE
SPECIFICATION DlqFairSpec
PROPERTY LossIsReported
PROPERTY RunEnds
