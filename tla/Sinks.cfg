\* Every mix of up to three rows in each of the three sinks, one fault.
SPECIFICATION Spec
CONSTANTS
    Backend = {"docdb", "dynamodb", "postgres"}
    Row <- Rows
    MaxUpserts <- Most
    MaxRows = 3
    BatchSize = 3
    MaxPut = 2
    MaxDirect = 1
    MaxFaults = 1
INVARIANTS SinkTypeOK AckedIsApplied OnlyBadRowsBuried AgainOnlyAfterFault
PROPERTY BandDrains
