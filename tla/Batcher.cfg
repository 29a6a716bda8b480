CONSTANTS
  Key = {k1}
  Writer = {w1, w2}
  BatchSize = 2
  Capacity = 1
  MaxBatch = 1
  MaxWrites = 3
SPECIFICATION FairSpec
INVARIANT TypeOK
INVARIANT AckMeansJournaled
INVARIANT NoEntryStranded
INVARIANT CloseFlushes
PROPERTY JournalOrder
PROPERTY WritesReturn
PROPERTY CloseReturns
