\* One key whose field changes between a string, a number and none; two updaters that may
\* overlap, a pruner.
SPECIFICATION Spec
CONSTANTS
    f = f
    n = n
    g = g
    Key = {k}
    Index = {f, n, g}
    Numeric = {n}
    FieldOf <- Fields
    None = None
    Content <- Contents
    Updater = {u, v}
    Pruner = {p}
    MaxWrites = 2
    MaxLapses = 1
INVARIANTS IndexTypeOK FoundByItsValues FoundByNoOther QueuedToDie
PROPERTY EventuallyPruned
