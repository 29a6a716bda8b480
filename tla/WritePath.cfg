CONSTANTS
  Key = {k1}
  Pod = {p1}
  MaxBatch = 1
  Timestamp = {1}
  MaxWrites = 2
  MaxEvictions = 0
  LateWrites = FALSE
  SlowFlush = FALSE
  Misattribution = FALSE
  Caller = {c1, c2}
  Reader = {r1}
  Content = {x, y}
  None = None
  NoMessage = NoMessage
  Message = {m1}
  ContentDedup = TRUE
  DegradedModeDirect = TRUE
SPECIFICATION PathSpec
SYMMETRY Symmetry
INVARIANT PathTypeOK
INVARIANT JournaledPersists
INVARIANT AckedIsKept
PROPERTY OrderPreserved
