CONSTANTS
  Key = {k1}
  Pod = {p1}
  MaxBatch = 1
  Timestamp = {1}
  MaxWrites = 2
  MaxEvictions = 0
  LateWrites = FALSE
  SlowFlush = TRUE
  Misattribution = FALSE
  Worker = {w1, w2}
  Strategy = {"upsert", "reinsert", "ignore"}
  MaxDead = 1
  Quiesced = TRUE
SPECIFICATION DlqSpec
SYMMETRY Symmetry
INVARIANT DlqTypeOK
INVARIANT UnflushedPersists
INVARIANT ReplayedIsLatest
