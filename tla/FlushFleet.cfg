CONSTANTS
  Key = {k1}
  Pod = {p1, p2}
  MaxBatch = 1
  Timestamp = {1}
  MaxWrites = 3
  MaxEvictions = 1
  LateWrites = TRUE
  SlowFlush = FALSE
  Misattribution = FALSE
SPECIFICATION Spec
SYMMETRY PodSymmetry
INVARIANT TypeOK
INVARIANT CleanMeansStored
INVARIANT CommittedWasApplied
INVARIANT FleetInv
PROPERTY LossIsLoud
