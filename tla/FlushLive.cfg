CONSTANTS
  Key = {k1, k2}
  Pod = {p1}
  MaxBatch = 1
  Timestamp = {1}
  MaxWrites = 2
  MaxEvictions = 1
  LateWrites = FALSE
  SlowFlush = TRUE
  Misattribution = TRUE
SPECIFICATION FairSpec
PROPERTY EventuallySettled
PROPERTY IntactRacingWriteStaysDirty
