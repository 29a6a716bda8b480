\* A row with a SQLSTATE of class 22 in a batch of Postgres.
SPECIFICATION Spec
CONSTANTS
    Backend = {"postgres"}
    Row <- EncodedRows
    MaxUpserts <- Most
    MaxRows = 2
    BatchSize = 2
    MaxPut = 25
    MaxDirect = 1
    MaxFaults = 0
PROPERTY PoisonNeverStalls
