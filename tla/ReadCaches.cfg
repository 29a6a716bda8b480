\* A pod with a writer and a reader, and a writer elsewhere, in each mode of the cache.
SPECIFICATION Spec
CONSTANTS
    Writer = {here, elsewhere}
    Reader = {reader}
    Local = {here, reader}
    Mode = {"lazy", "payload", "invalidation"}
    MaxWrites = 2
    MaxClock = 2
    Retention = 1
    SlowHydration = FALSE
INVARIANTS CacheTypeOK VersionIsHonest FreshIsCurrent JournalNotBehindStore
PROPERTY LatestIsServed
CONSTRAINT UntilAstray
