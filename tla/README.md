# sluice-go: verification project

TLA+ models of sluice-go, a write-behind buffer: callers `Write` payloads into a Redis journal, and a
flush engine in every process drains the journal, band by band, into a document store. TLC checks the
models on small instances; TLAPS proves their safety properties, and that one pod's engine implements the
buffer's abstract promise, for every instance. Liveness is left to TLC.
Paths are relative to `src/`.

```
 Write ──► journal (Redis) ──► flush engine ──► FlushSink (document store)
   │          ▲   │  hash p,ts,v + dirty ZSET     ▲         │
   │ degraded │   └─► dead-letter ZSET ──► DLQ processor    │ Source
   └──────────┼───────────────────────────────────┘         ▼
 Read ──► L1 ─┴─► journal ─────────────────────────► Source, hydrates journal
```

## 1. Inventory

For each part: state; operations; interactions; what is hard; what makes it correct.

**Redis journal** (`internal/shield/shield.go`, `types.go`). State, per band: a payload hash per key
(`p` payload, `ts` clock, `v` sequence, TTL), the dirty ZSET scored by write time, the dead-letter ZSET.
Operations: the Lua scripts (write, deduplicating write, conditional commit, conditional dead-letter,
hydrate, TTL extension), each atomic, and the plain pipelines `DrainBand`, `DrainDLQ`, `CommitDLQKeys`,
which are not. Used by writers, readers, every pod's engine and every DLQ worker. Hard: everything
between two scripts; the sequence lives in the hash it guards and restarts when the hash goes. Correct
when a dirty key's hash holds its latest write and cannot expire, and when a key leaves the dirty set
only on behalf of its latest write.

**Flush engine** (`internal/engine/engine.go`). State: per pod and band a goroutine, its volume signal
(a channel of one), the batch of the current cycle. Operations: `flushBand` (drain, contract, bulk
write, partition, commit, dead-letter), driven by ticker or signal, cut off by `FlushWindow*4`. Calls
the shield and the sink. Hard: no lease between pods, partial batch failure, unattributed errors,
deadlines with the store still working, crashes at any point, rewrites during a cycle. Correct when no
acknowledged write is dropped, commits only follow a positive answer of the store, a backlog drains.

**Sink contract** (`sink/sink.go`, `sink/types.go`). No state. `BulkWrite` returns per-key errors with a
class, or an error; `CheckAttribution` and `IsPermanent` interpret them. Correct when every model of a
batch is accounted for.

**Dead-letter processor** (`internal/dlq/dlq.go`). State: per call the batch being handled. Loop:
`DrainDLQ`, then Ignore, Upsert or ReInsert, then `CommitDLQKeys`. Runs in every pod's DLQ ticker and in
operators' calls, unsynchronised with writers, engine and other calls. Hard: it reads no sequence, and
compares none when it deletes. Correct when nothing is removed before it was handled, no replay
overwrites newer data, nothing unflushed is deleted, and the loop ends.

**Write path** (`sluice.go` `Write`, `WriteIdempotent`, `degradedWrite`). State: none of its own but
idempotency keys in Redis. Journal write with or without deduplication; on a Redis error the degraded
write probes `HasPendingVersion` and then writes to the store. Hard: probe and store write are two
steps; deduplication trusts the journal's hash; the idempotency key is set before the write. Correct
when the last acknowledged write is what the store ends with.

**Write batcher** (`internal/shield/shield.go` `StartBatcher`, `runBatcher`, `StopBatcher`). State: a
channel of four batches, the current batch, per-entry reply channels. Writers block for the reply of the pipeline that
carried their entry. Hard: shutdown against writers still handing in entries; a full channel. Correct
when every writer gets exactly the reply of its own script and nobody waits for ever.

**Lifecycle** (`sluice.go` `Build`, `DrainAndClose`; `engine.go` `Start`, `DrainAndStop`). State: the
closed flag, the quit channels. Hard: `closed` is read once per call; the final flush takes one batch.
Correct when a write acknowledged before close is flushed or still dirty in Redis.

**L1 cache and broadcast** (`internal/localjournal`, `internal/broadcast`). State: per pod a bounded LRU
of payload, version and deadline; one stream per namespace, trimmed; a subscriber with its place in the
stream. Operations: `Get`, `Put`, `Invalidate`; `PublishUpdate`, the subscriber's loop. Write-through,
journal heals, hydrations and broadcast messages race for one entry, gated by a millisecond version taken
in different places. Hard: the version is read before the value it goes with; the gate is forgotten with
the entry; messages are trimmed before they are read. Correct when no value carries a version newer than
itself, and an old copy does not outlive its deadline.

**Read path and hydration** (`sluice.go`, `sluice_bulk.go`, `internal/shield/hydrate.go`). State: none
but goroutines that carry a Source document to the journal. Hard: the read races writes, flushes, expiry
and losses. Correct when hydration never hides an unflushed or lost write.

**Secondary indexes** (`internal/shield/index.go`). State, per band: a set per value and a sorted set per
range field, an `idxv` hash per key with the values it is indexed under, an expiry queue, a registry of the
index keys. Operations: `UpdateIndexes` after a journal write or hydration (a read, then a pipeline), the
queue pruner, the sweeper, queries, all of which prune; the scripts queue a key that gets a TTL. Hard:
every step of one of them may fall between two of another; nobody repeats a lost update. Correct when a
live key is found under its current values only, and a dead one goes from the indexes in the end.

**Bundled sinks** (`sink/docdb`, `sink/dynamodb`, `sink/postgres`). No state. Each turns a batch into the
store's bulk calls and the store's answer into per-key errors with a class. Hard: one row that is refused
fails others with it, the answer covers part of the batch, a fallback sends rows again one by one, models
of one document meet in a batch. Correct when a row that is not named was applied, only rows the store will
never take are called permanent, and the rest of a batch gets through beside a bad one.

**Bundled sources, metrics, configuration and builder, examples**: lookups, counters, defaults,
demonstration programs. No concurrent behaviour of their own; not modelled.

## 2. Plan

| module | what | status |
|---|---|---|
| `FlushEngine` | journal scripts, writers, flush cycles of any number of pods | done |
| `WriteBuffer`, `FlushRefinesBuffer` | what the buffer promises; one pod implements it | done, TLC |
| `FlushInvariants`, `FlushEngineProofs` | inductive invariant of a fleet, seven theorems | done, TLAPS |
| `FlushOnePodProofs` | one pod: clean is the latest write; refinement of `WriteBuffer` | done, TLAPS |
| `DeadLetterQueue`, `DeadLetterProofs` | the DLQ processor composed with the engine | done, TLC and TLAPS |
| `WritePath`, `WritePathProofs` | deduplication, degraded writes, idempotency, hydration, with the engine | done, TLC and TLAPS |
| `Batcher`, `BatcherProofs` | the batch goroutine against writers, the shutdown of a pod | done, TLC and TLAPS |
| `ReadCaches`, `ReadCachesProofs` | L1 versions, write-through, heals, hydration, broadcast | done, TLC and TLAPS |
| `Indexes`, `IndexesProofs` | updates of entries, scripts that queue, pruner, sweeper, queries | done, TLC and TLAPS |
| `Sinks`, `SinksProofs` | the three bundled sinks between the engine and a store | done, TLC and TLAPS |

Every safety property of a passing run is stated by a theorem. What could still be proved goes beyond the
runs: the engine's fleet theorems and the refinement of `WriteBuffer` beside callers in degraded mode and
beside a quiesced DLQ worker, where the scripts meet writes that are not the next number.

## 3. The models

### FlushEngine

One band. Bands share no key, script or goroutine, so one band stands for the engine. State:

* `payload`, `seq`, `expiring`: fields `p`, `v` and "has a TTL" of the payload hash. The n-th write of a
  key carries payload n, so that newer is greater. `seq` is 0 when the field is absent, as in the scripts
  (`or '0'`) and in `DrainBand`.
* `dirty`, `score`, `dlq`: the two ZSETs. A write's score is any reading of any writer's clock, so that
  the order of a batch is not the order of writes. Dead-letter scores are not modelled.
* `sink`, `late`: the document of a key; store writes that are still under way after `BulkWrite` has
  returned its deadline error or the pod has died (`LateWrites`).
* per pod: `pc`, and per key `stage` with what `DrainBand` returned (`gotP`, `gotV`).
* `written`, `stored`, `evicted`, and of lost payloads `recorded`, `reported`, `untold`: history the properties
  read and no action does.

Every Redis command or script is a step, so is each document of a `BulkWrite`: writers, expiry, the
other pods and crashes come between any two. `ScanDirty` to `ReadPayload` is `DrainBand`;
`ContractAccepts`, `ContractRejects` the loop over its records (whether the contract accepts is
nondeterministic); `RecordMissing`, `BuryMissing`, `ReportMissing` are `handleMissingPayloads`: the log and
counter, the dead-letter scripts, the OnFlush callback, with every step of others and a crash in between, which
leaves the key `untold`; `StartBulkWrite` to `BulkWriteFails` the call of the sink; `CommitFlushed`,
`DeadLetterPermanent`, `ScriptFails`, `FinishFlush` the settlement. Errors of `DrainBand`, `BulkWrite` and
both pipelines can happen wherever the code handles them. `Evict` (`MaxEvictions`) is the loss of an
unflushed hash, which the code reports through `handleMissingPayloads`.

Abstracted: the post-flush TTL is some TTL (hot markers choose between two); a volume signal only makes
a cycle start earlier and cycles start at any time here; metrics, logs and callbacks, but for those that
report a lost payload.

`SlowFlush` says whether a TTL can run out within a cycle. A cycle is cut off after `FlushWindow*4`
(1 s by default) and `KeyTTL` is 30 s by default, so FALSE is the normal case; TRUE is a `KeyTTL`
configured below the flush deadline, or a stalled process. `Misattribution` is a sink that names keys
outside its batch.

### WriteBuffer and FlushRefinesBuffer

`WriteBuffer` is the promise of README.md "Durability model": a key is pending, clean or dead; the
document only moves forward, and only while pending; clean means the document is the latest write. The
refinement mapping reads the status off the dirty and dead-letter sets; a key out of both whose document
is not its latest write maps to "lost", which `WriteBuffer` cannot reach.

### DeadLetterQueue

EXTENDS `FlushEngine` and adds workers, each a call of `Process` with one strategy. A worker's batch goes
through `ScanDead`, `ReadDead`, `Collect` (`DrainDLQ`), the strategy, and `DeletePayload`, `RemoveDead`
(`CommitDLQKeys`, one step per DEL). ReInsert writes the payload under a mutated key; the default mutator
makes a fresh one, so the re-enqueued write is kept as the history `requeued`. `Quiesced` is the operating
assumption under which the processor is safe: nobody writes a key that is dead-lettered or in a worker's
batch. The code does not enforce it; the violation runs show what happens without.

### WritePath

EXTENDS `FlushEngine` and replaces its `Write` by what callers really do. Numbers still order payloads: an
attempt takes the next one when its write script runs, whatever comes of it. New state: `contentHash`
(field `h`), `call` (where each caller is), `fetch` (a Source document on its way to the journal),
`guard` (idempotency keys). `WriteJournaled`, `WriteSkipped` and `WriteFails` are the script of `Write`;
an error may come after the script ran (a lost reply), and then the degraded write follows all the same.
`ProbeDirty` and `ProbeDead` are the two ZSCOREs of `HasPendingVersion`, `StoreWrite` is `sink.Write`,
answered or not, and `GiveUp` every refusal, error or crash before it. `SourceRead` and `Hydrate` are the
two halves of hydration; everything may happen in between.

"Older" is real time: `earlier` records, for each write, the writes that were over when it began (a write
still in its degraded phase is not over). A skipped duplicate counts as its payload written over again.
The expiry of guards (`IdempotencyTTL`, hours) is not modelled.

### Batcher

The batcher goroutine, the writers that hand it entries, the band goroutine and `DrainAndClose`, in one
pod. `call` is where a writer is: past the closed flag ("entered"), holding the read lock at the channel
("handoff"), waiting for its reply, or writing past the batcher ("direct"). `batchCh`, `batchRunning`,
`stopBatch` and `done` are the code's; `batcher` is where `runBatcher` is and where it goes on after the
pipeline it is in; `buf` and `errs` the batch and its results. `StopBatcher` begins to wait for the write
lock, which shuts out new read locks (`sync.RWMutex` puts a waiting writer first); `StopTaking` gets it
when no writer is handing over. Every script of a pipeline is a step and has a result of its own: run, an
error before or after it ran, or NOSCRIPT, which sends the entry through `Reload` and a second pipeline.
A flush cycle is one step, since `FlushEngine` has its interleavings. `Capacity` is a parameter of its own
(`batchSize*4` in the code) so that a full channel needs few writers.

### ReadCaches

One key through three tiers. Pods share nothing but Redis and the store, so the L1 of one pod stands for
all, and writers and readers run in it (`Local`) or elsewhere; keys share nothing but the room in an L1
shard, so the entry of one key may be evicted at any time. `mode` is what a namespace is configured with:
no broadcast, payloads, or invalidations. What the buffer does with a journaled write is `WriteBuffer` for
one key (`Persist`, `Settle`, `Expire`), which `FlushRefinesBuffer` shows one pod's engine to implement, and
what that promise leaves out: `LateFlight` (a flight of another pod, or one after its deadline, puts an older
document back), `DeadLetter`, `DegradedWrite`. These set `astray`. What is said of the store is said as long as
it is not astray; what happens then is section 7. TLC stops there (`UntilAstray` in `MCReadCaches`), since
nothing but types is claimed of such states; the theorems cover them.

State: `payload`, `version`, `expiring`, `dirty` of the journal; `sink`; `stream` and `cursor`; `l1`, the
entry with its version and whether its deadline is over; `call` and `fetch`, where each Write and each read
is. A read is cut where the code goes to Redis or the Source: `MissL1`, `HGetPayload` and `HGetTs` (the
pipeline of `ReadJournal` is not a transaction, so its two fields may be of two writes: `torn`), `SourceRead`,
`Hydrate`, `Seed`, `PutL1`. `ReadFresh`, `HotLoad` and `ReadBulk` enter further down the same path, and
`ReadOld` is `ReadBulk` after a miss. The clock may tick between any two steps; the version a Write publishes, the
one it puts in L1 and the one a hydration carries are read where the code reads them. The XADD of a batched
write rides in the pipeline of its script, and runs although the script failed or gets NOSCRIPT
(`ScriptFails`): such a message carries a `Stray` payload, as does a document a degraded write put in the store
and the journal never had. A `Restart` empties L1
and rewinds the subscriber to "0". `SlowHydration` says whether a document may be on its way from the Source
for longer than `KeyTTL` (30 s by default): FALSE is the normal case.

Abstracted: the LRU order and the shards, TTL lengths, the lag monitor. `MAXLEN` is exact here and approximate in
Redis; all pods read one clock, so skew between pods is not covered.

### Indexes

One band. A payload is the set of index keys its contract derives, one for each field: the equality set of a
string, or the range set (`Numeric`) of a number; scores are not modelled, and values that cannot be indexed are
left out of the set. `Removed` is what an update takes a key out of: an equality set of a value it no longer has,
and a range set only when its field (`FieldOf`) has no value any more (index.go:103). When an entry of the expiry queue falls due is a hint to the pruner, so any entry may be due.

State: `payload`, `expiring` (keys whose entry has a TTL), `idx`, `idxv`, `reg`, `queue`; `update` and
`prune`, where each updater and pruner is. Every pipeline command that matters to another goroutine is a
step: `ReadOldValues`, `AddMember`, `RemoveOld`, `RecordValues`, `Enqueue`; the due check and the decision on
it (`CheckDue`, `Rescore`), the payload check, the recorded values, the removal, the record, the queue. A
`Task` carries what a pruner has read; a sweep goes from index key to index key (`Scan`, `Unregister`).
`CommitFlushed`, `RefreshHotTTL` and `DeadLetter` are what the scripts do to the queue: the first two queue
the key, the last does not. `Lapse` is an index key, a record or the registry reaching its own TTL
(`ActivityWindow`).

History: `history` says of a key whether its updates ran one after the other ("exact"), whether entries
may have stayed behind but the last update ran alone ("complete"), or whether something overlapped or failed
("raced"); `missed` are the keys the code leaves to the sweeper. Properties speak of keys that were not raced,
since an overlap does harm in the code (section 7). `left` are the range sets an update has left a key in and
dropped from its record, because the field went from a number to a string; `FoundByNoOther` excepts them.

### Sinks

One call after another of `BulkWrite` by one pod's band, for each bundled sink, with degraded writes beside
it. The engine's part is `flushBand` around the call: the oldest rows, the partition of the answer, commit
and dead-letter. A row is what a model looks like to a sink: which document (`doc`), its key values printed
and joined (`key`, by which Postgres and DynamoDB tell documents apart: two documents may print alike, one may
print in two ways), which columns (`cols`, Postgres), one document or many (`many`), whether it can be encoded or
is none a sink takes (`form`), and whether the store refuses it, with a code the sink lists as permanent or
with one it does not (`refuses`). The three paths:

* DocumentDB: one unordered bulk; write errors by index. A duplicate `_id` is another pod's insert (`raced`); a
  write error of shard or network (`hit`) is permanent, as every other is.
* DynamoDB: `BatchWriteItem` with `UnprocessedItems`, and `PutItem` by `PutItem` when validation fails.
* Postgres: `UpdateMany` statements one by one, then one multi-row INSERT, row by row when that is refused. What
  pgx cannot encode, or send (`Crowded`: more than 65535 parameters), is an error of the call.

`faults` counts what goes wrong beside refusals: throttled items, lost answers, deadlines, deadlocks. A call
that fails so may have applied any part of what it sent; `struck` are the rows whose own write was hit. `Mapped`
says of a band that no row of it fails the call as a whole for ever (`Unmapped`, `Crowded`). `times` is not
counted beyond `Often`, which is more than `AgainOnlyAfterFault` allows. With `OnConflictDoNothing` Postgres takes a
row and may keep the one it has, so "applied" is "taken" there. Not modelled: the wording of SQL.

## 4. Runs

| run | question | bounds |
|---|---|---|
| `FlushOnePod` | does one pod implement `WriteBuffer`; is what is clean the latest write | 2 keys, batch 2, 2 writes per key, 2 clock readings, TTL may run out in a cycle |
| `FlushFleet` | what survives two pods on one key, late store writes and an evicted hash; is `FleetInv` an invariant | 1 key, 2 pods, 3 writes, 1 eviction |
| `FlushLive` | does a backlog drain once failures stop; do the conditional scripts hold off a misattributing sink | 2 keys, batch 1, 2 writes, 1 eviction |
| `DlqQuiesced` | two overlapping DLQ calls beside the engine, quiesced | 1 key, 2 workers, three strategies, 2 writes |
| `DlqRaces` | writers race a DLQ call: are losses reported, does the call end | 1 key, 1 worker, 2 writes |
| `WritePath` | two callers whose Redis writes fail, deduplication, degraded writes, a message, a reader | 1 key, 2 callers, 2 contents, 2 writes (skipped duplicates not counted), 1 message, 1 reader, no eviction |
| `Batcher` | is every batched write answered truly, in order and in the end; does shutdown lose or strand any | 1 key, 2 writers, 3 writes, batch 2, channel 1 |
| `ReadCaches` | do versions tell the truth in every tier, does ReadFresh miss nothing, does L1 come to serve the latest | 2 writers (one in the pod), 1 reader, 2 writes, 2 ms, stream of 1, three modes |
| `Indexes` | is a key found by its values and by no others, is a dead one pruned | 1 key, 3 index keys (a field as string or number, another field), 2 updaters, 1 pruner, 2 writes, 1 lapse |
| `Sinks` | what of a batch is committed, dead-lettered, sent again, for every mix of rows | 3 sinks, up to 3 rows of 12 kinds, batch 3, 2 items per `BatchWriteItem`, 1 fault, 1 degraded write |
| `DlqDeletesUnflushed`, `SinksPoison` | disagreements with the documentation, section 7 | smallest that shows it |

Why the bounds suffice. Two keys are needed where the batch has a boundary (one key left behind, one
failing while the other succeeds, an error naming the other) and suffice because the code treats the
keys of a batch one by one, coupled only by the phase barriers; the fleet run uses one key because its
hazards are per key. Two writes give a rewrite during a flight; the third lets a version be superseded,
committed and superseded again, the longest chain between two pods' flights of one key. In `DlqQuiesced` the
second write comes after the first was dead-lettered, replayed and removed, so that there is a rewrite a DEL can
hit and an older payload a replay can put back. Two pods: what a
third could do, one of the two can do in its next cycle. One eviction resets one sequence.
In `WritePath` two callers are needed because a journal write during another caller's degraded write is the
point; evictions are left out because with them hydration does harm (section 7).
In `Batcher` the channel is full with one entry in it and one in the pipeline when a third is handed over,
two entries of a key can share a batch (the NOSCRIPT reorder), and a writer that gave up has a write left.
In `ReadCaches` two writes, a reader and two milliseconds are a write between any two steps of a read, in the
same millisecond or not; a stream of one message is trimmed by the second. In `Indexes` two updaters overlap
in every way two round-trips can; keys of a band share index keys only as members of sets, so one is enough.
A field goes from string to number, from either to another field, or to nothing, and back.
In `Sinks` three rows are a good one, a bad one and a third of the same document, printed alike or not, or with
other columns; two items per `BatchWriteItem` make three rows one too many (25 in DynamoDB), and two rows of the
columns "e" are more than a statement takes.
`FlushFleet` uses symmetry of pods, `DlqQuiesced` of workers, `WritePath` of callers and contents; runs with liveness use none.

No run switches the deadlock check off: the ticker never stops, so `EmptyTick` is always there (in `Batcher`: `Tick`, and after the end a closed library's `Refuse`; in
`Indexes`: `NothingDue`; in `ReadCaches` a pod may always restart).

Properties, by what they guard against: `UnflushedPersists` (a rewrite inheriting a TTL; a commit or a
DLQ deletion that hits the wrong version), `CleanMeansStored`, `CommittedWasApplied` (an acknowledged
write leaving the dirty set unaccounted), `IntactRacingWriteStaysDirty` (a settlement on a superseded
payload), `SettledIsLatest`, `ImplementsBuffer` (an older document over a newer), `EventuallySettled`
(starvation behind a batch, a key that fails for good), `LossIsLoud` (a lost payload leaves the dirty set
without a log), `LossIsReported` (and without its OnFlush report, unless the pod dies before it), `ReplayedIsLatest`, `RunEnds` (the DLQ loop), `JournaledPersists` (hydration over unflushed data),
`OrderPreserved`, `AckedIsKept` (degraded writes and duplicates out of order),
`AckMeansJournaled`, `JournalOrder` (results and scripts mixed up within a pipeline), `NoEntryStranded`,
`WritesReturn`, `CloseReturns`, `CloseFlushes` (shutdown against writers), `VersionIsHonest` (a clock read on
the wrong side of a read or write), `FreshIsCurrent` (a tier that answers with less than what was journaled),
`JournalNotBehindStore` (a fetched document that comes too late), `LatestIsServed` (an old copy that lost its
message, put again by whoever carries it), `FoundByItsValues`, `FoundByNoOther` (updates, prunes and sweeps of one key), `QueuedToDie` (a key
with a TTL nobody will look at), `EventuallyPruned`, `AckedIsApplied` (an answer about part of a batch),
`OnlyBadRowsBuried` (a good row blamed for a bad one), `AgainOnlyAfterFault` (rows sent twice by a fallback),
`BandDrains` (a bad row that holds up the others); the last two of bands that are `Mapped`. For each property of a passing run
PROJECT.json names a mutant of the modelled code that the run refutes.

## 5. Fairness

`WF_vars(FlushBand(f))` for each pod: `runBand` selects on a ticker that never stops, and each call of a
cycle has a deadline, so a cycle that can go on does. Nothing is assumed of writers, expiry, eviction,
crashes or late store writes. The sink may fail for ever, so liveness is stated under `OutageEnds`: from
some point on no step of Redis, store, contract or pod lets the cycle down for now (permanent errors
may go on: they dead-letter the key). A worker that has begun a call keeps going (weak fairness on
`Process(w)` outside "idle"); `RunEnds` assumes that refusals stop, because the Upsert and ReInsert loops
read a record that is refused for good again without end (`dlq.go:119`).

In `Batcher` each goroutine that can go on does (a script or a flush has a deadline), and
`WF_vars(FlushBand(TRUE))`: a select that finds `stopCh` closed every time takes it some time. Nothing
makes a writer give up, so `WritesReturn` is about contexts that never end.

In `ReadCaches` only time is fair (`WF_vars(FallDue)`): `LatestIsServed` owes nothing to messages. It is stated
of behaviours that come to be `Quiet`: from some time on no writer is under way, and no restart replays the stream.
What a reader carries, a message not yet delivered and the entry itself may all be old when it does. In `Indexes` a
pruner goes on with what it began (`WF_vars(PruneStep(p))`: each call has a deadline), and the tick of the
sweeper is taken again and again beside the pruner's, in the one select both share (`SF_vars(StartSweep(p))`);
`EventuallyPruned` is stated under `OutageEnds`, as in the engine; that writes end is their bound. In `Sinks` the
band's goroutine goes on (`WF_vars(FlushBand)`), and the bound on faults is an outage that ends.

## 6. What is proved

Every safety property of the passing runs is a theorem, for every finite set of keys, any sets of actors and
every bound; nothing is assumed beyond the modules' `ASSUME`s and what the tables name. A property is seldom
inductive as it stands; the strengthening each proof uses is given below its table.

### One fleet: `FlushEngineProofs`

| theorem | property | assumes |
|---|---|---|
| `TypeCorrect` | `TypeOK` | nothing more |
| `UnflushedNeverExpires` | `UnflushedPersists` | nothing more: any sink, any length of a cycle |
| `LossesAreLoud` | `LossIsLoud` | `~Misattribution` |
| `FleetInvariant` | `FleetInv` | `~SlowFlush`, `~Misattribution` |
| `CleanKeysAreStored` | `CleanMeansStored` | the same |
| `CommitsWereApplied` | `CommittedWasApplied` | the same |
| `RacingWritesStayDirty` | `IntactRacingWriteStaysDirty` | the same |

`UnflushedPersists` needs only types and itself: TTLs are set by the two conditional scripts, which take
the key out of the dirty set in the same step, and writes clear them. The others rest on `FleetInv`:

* `HashIsLatest`: a hash has the latest write and a sequence, or neither. Rewrites replace, losses drop.
* `ReadIsWhole`: what a cycle read has a payload and a sequence, or neither. With it a script that compares
  sequences never takes out a key whose hash is gone, whatever the length of a cycle.
* `ReadIsVersioned`: what a cycle read has a sequence the hash has not gone back behind (unless evicted),
  and while the sequence is the same so is the payload. This makes the scripts' comparison mean "not
  rewritten", and is where `~SlowFlush` is used: a hash that expired during a cycle would restart at 1.
* `ModelsArePayloads`, `AppliedIsStored`: what is to be committed was applied. `~Misattribution` is used
  in the step that partitions the sink's result.
* `MissingIsRecorded`: what is on its way to the dead letters without a payload has been logged. With it
  `LossesAreLoud`; the OnFlush report comes after the script and a crash may prevent it, so that
  `LossIsReported`, which TLC checks, excepts `untold` keys.
* `CleanIsStoredOrDead`: the goal in the form a step preserves; with `HashIsLatest` it gives
  `CleanMeansStored`.

TLC checks `FleetInv` in `FlushFleet`, and `UnflushedPersists` with it; `IntactRacingWriteStaysDirty` in `FlushLive`,
over a misattributing sink, which the theorem leaves out.

### One pod: `FlushOnePodProofs`

| theorem | property | assumes |
|---|---|---|
| `SettledKeysAreLatest` | `SettledIsLatest` | `OnePod` |
| `EngineImplementsBuffer` | `ImplementsBuffer` | `OnePod` |

`OnePod` is one pod, no late store writes, no evictions, no misattribution; without any of them the
properties are false (section 7), and a TTL may run out within a cycle. The invariant is `OnePodInv`:

* `HeldIsDirty`: what the pod has in hand is dirty. Only its own settlement takes keys out, so a hash in hand
  cannot expire, and the sequence comparison is sound for any length of a cycle.
* `DirtyHasPayload`, `NothingIsMissing`: without evictions no cycle meets a lost payload.
* `OrderInv`: a flight lies between the document and the latest write; what was applied is the document. A
  conditional commit that finds the sequence it read therefore finds the latest write in the store.

For the refinement each step of the engine is shown to be a step of `WriteBuffer` under the mapping, or a
stutter: `WriteRefines` (a write makes a key pending), `SinkAppliesRefines` (a document moves forward, while
pending), `TakesOutRefines` (clean or quarantined, as the store has it), `StutterSteps` for the rest; `StatusOfAKey`
shows that no key is "lost". Only the safety part is proved; `WriteBuffer` states no fairness.

### Write path: `WritePathProofs`

| theorem | property | assumes |
|---|---|---|
| `PathTypeCorrect` | `PathTypeOK` | nothing more |
| `JournaledWritesPersist` | `JournaledPersists` | nothing more: any fleet, sink, loss and cycle |
| `DegradedModePreservesOrder` | `OrderPreserved` | `OnePod` |
| `AcknowledgedIsKept` | `AckedIsKept` | `OnePod` |

* `JournalInv`: a dirty key has its journaled payload and no TTL, so that hydration never fills it.
* `TimeInv` is about "over before", which is a partial order and not the order of the numbers. `NumbersInv`:
  nothing is of the future. `DegradedInv`: a write still in its degraded phase is over before none.
  `DirtyInv`: what is dirty was not over before the document began, nor before any degraded write that has
  found the key clean; this is what the two ZSCOREs of `HasPendingVersion` are for. `FlightInv`: the same of
  a flight that has been rewritten.
* `KeptInv` (in `AckInv`, with `ReadIsVersioned`): a dirty key's payload, a clean key's document, and a document
  about to be committed are superseded by no acknowledged write, except for keys in `mismatched`, the
  skipped duplicates of section 7.

The engine's steps are those of `FlushEngineProofs`, whose lemmas about a step are used again.

### Dead letters: `DeadLetterProofs`

| theorem | property | assumes |
|---|---|---|
| `DlqTypeCorrect` | `DlqTypeOK` | nothing more |
| `UnflushedSurvivesReplay` | `UnflushedPersists` of `DlqSpec` | `Quiesced`: any fleet, late writes, losses |
| `ReplaysAreLatest` | `ReplayedIsLatest` | `Quiesced`, `OnePod` |

* `QuietInv`: no dirty key is dead-lettered or in a worker's hands, so a DEL hits nothing that is to be
  flushed. It is inductive only under `Quiesced`; `DlqDeletesUnflushed` is the counterexample without.
* `HandInv`: what a worker has read is the latest write, and what it is about to remove is in the store, has
  been re-enqueued or was discarded. It needs `PodInv`, the part of `OnePodInv` that does not say what is
  clean: a worker upserts beside the engine, and keys it removed were settled elsewhere.

### Batcher: `BatcherProofs`

| theorem | property | inductive invariant |
|---|---|---|
| `BatcherTypeCorrect` | `TypeOK` | `TypeInv` |
| `AckedWritesAreJournaled` | `AckMeansJournaled` | `AckInv` |
| `ShutdownStrandsNobody` | `NoEntryStranded` | `PlacesInv`, `ShutInv` |
| `JournalKeepsOrder` | `JournalOrder` | `PlacesInv`, `OrderInv` |
| `CloseLosesNothing` | `CloseFlushes` | all of them and `SettledInv` |

* `PlacesInv`: a write is with its caller, in the channel, in the batch, or answered, and in one of these only;
  so results go to the entry that was run.
* `ShutInv`: once `stopBatch` is closed no caller is at the channel (the write lock), and a batcher that is gone
  has left nothing behind.
* `OrderInv`: what was over when a write began is not what the journal goes back to once that write has run.
* `SettledInv`: what is clean is in the store, and after a final flush that took all, no document is older than
  an acknowledged write.

### Caches: `ReadCachesProofs`

| theorem | property | assumes |
|---|---|---|
| `CachesTypeCorrect` | `CacheTypeOK` | nothing more |
| `JournalKeepsUp` | `JournalNotBehindStore` | `~SlowHydration` |
| `FreshReadsAreCurrent` | `FreshIsCurrent` | the same |
| `VersionsAreHonest` | `VersionIsHonest` | the same |

The three properties speak of states in which the store is not astray. So a flight of another pod, a dead
letter and a degraded write are in the models these theorems are about, and what they break is excepted.

* `JournalIsLatest`, `KeptWhileOvertaken`, `FetchedIsLatest` (`StoreInv`, while not astray): the journal has the latest write or
  nothing, and a document fetched with no flush completed meanwhile is the latest write. With `SlowHydration`
  a hash could be flushed and expire during a fetch, and the old document be hydrated after it.
* For `FreshIsCurrent` what a reader carries is never below the floor it noted when it was called.
* For `VersionIsHonest` each copy (journal, L1, stream, in the hands of a writer or reader) is honest, and its
  version not in the future: every version is read before the script or the Source read it belongs to. A `Stray`
  message is of no write in the journal, and excepted.

### Indexes: `IndexesProofs`

| theorem | property | inductive invariant |
|---|---|---|
| `IndexTypeCorrect` | `IndexTypeOK` | `TypeInv` |
| `KeysAreFound` | `FoundByItsValues` | `KeyInv` |
| `KeysLeaveOldValues` | `FoundByNoOther` | `KeyInv` |
| `DyingKeysAreQueued` | `QueuedToDie` | `KeyInv` |

`KeyInv` says of each key, as long as nothing raced on it: `Alone` (one goroutine updates it, and it is pruned
only while it has no payload and no update), `Found` (where an update has put it, it is), `Recorded` (its record
covers the index keys it is in, but for those in `left`, or an update or prune has the old record in hand),
`Queued`. `TypeInv` includes
that the queue's pruner looks at one key at a time.

### Sinks: `SinksProofs`

| theorem | property | inductive invariant |
|---|---|---|
| `SinkTypeCorrect` | `SinkTypeOK` | `PlaceInv` |
| `CommitsFollowTheStore` | `AckedIsApplied` | `AccountInv` |
| `RepeatsAreFaults` | `AgainOnlyAfterFault` | `OweInv` |
| `BurialsHaveReasons` | `OnlyBadRowsBuried` | `BuryInv` |

* `PlaceInv`: a row is in one place, and no call names it as a permanent and as a transient error both; it
  rests on `Separate` below.
* `AccountInv`: while a call runs, a row of its batch is still to be sent, is named, or has been applied.
  The goal alone is not inductive: what `Settle` commits depends on where the call has been.
* `OweInv`: in a band that is `Mapped`, a row that has not been committed has been applied at most as often as
  there were faults, and once more if it has been sent in this call and the call is not over (`Debts`). A call
  ends in an error for a fault only: `Sorted` says that what a sink sends on has no row that would fail it, and
  `CrowdedGrows` that no part of a band is crowded when the band is not. It rests on `Separate`: the rows a
  call has yet to send, has named and has put aside for the INSERT are apart, so that no way through a
  sink (fallback, row by row) meets a row twice.
* `BuryInv`: whatever is named permanent is `Excused`: refused, printed like an earlier row, of other columns, or
  `struck` by a fault the sink takes for a refusal. The rows
  a sink sends on are those no excuse was found for (`Plain`, `Firsts`, `SameColumns`).

### Only model-checked

Liveness, since fairness and ENABLED are out of the prover's reach: `EventuallySettled`, `LossIsReported`,
`RunEnds`, `WritesReturn`, `CloseReturns`, `LatestIsServed`, `EventuallyPruned`, `BandDrains`. The safety properties
outside the assumptions of their theorems hold or fail as section 7 says.

## 7. Disagreements with the documentation

* `DlqDeletesUnflushed`: `CommitDLQKeys` deletes the hash of a key rewritten since (README.md:525).
* `SinksPoison`: a row refused with a SQLSTATE Postgres' sink does not list as permanent (class 22: a value out of
  range, a bad cast) makes the multi-row INSERT a transient error of every row, flush after flush, and stalls
  its band (README.md:484 "one poison record never stalls its band"). `BandDrains` shows that a band without
  such rows, and without rows that fail the whole call (`Mapped`), drains.

More follow from the models and have no run of their own.

Journal, engine and dead letters:

* No lease, unconditional upserts: of two pods that flush a key, the slower applies an older payload after the
  faster committed the newer; the key is clean, the store stays old (README.md:519, 526).
  `SettledIsLatest` holds of one pod without late store writes only.
* `IntactRacingWriteStaysDirty` excepts keys whose hash Redis lost: the sequence restarts at 1, so a
  flight of version 1 that is still out commits the new version 1 (README.md:526 says "a write that races
  an in-flight flush stays dirty"). The DEL of `CommitDLQKeys` restarts the sequence too; with four writes
  of one key the drained number can come round again without any loss in Redis.
* Without `Quiesced`, `ReplayedIsLatest` fails as well: an Upsert puts the payload it read earlier over
  one that was flushed meanwhile (`dlq.go:196`).
* A pod that dies between the dead-letter script of a lost payload and the OnFlush callback makes no report; the
  key has left the dirty set, and no later cycle makes one (README.md:530 "gets `ErrPayloadMissing` (via `OnFlush`)"). The
  log and the counter come before the script: `LossIsLoud`.
* A batch of expired dead letters looks like an empty queue to `processBand` (`dlq.go:129`), although the
  comment of `Process` says it goes on until the DLQ is empty; live ones behind it wait for the next call.
* `CheckAttribution` rejects an empty key, not a key outside the batch; the model that failed is then
  committed (`sink.go:40`, while docs/issues/sink-silent-loss.md:133 says "commits nothing").
  `CommittedWasApplied` fails with `Misattribution`.

Write path and lifecycle:

* A degraded write changes the document and not the journal's entry; writing the entry's payload again
  within its TTL is skipped as a duplicate and acknowledged (README.md:275, 519). `AckedIsKept` shows that this
  is the only way an acknowledged write is lost on one pod.
* Hydration fills the miss of a dirty key whose hash was lost; the old document is flushed in the place of
  the lost write, and nothing is reported (README.md:530, hydrate.go:19). `LossIsLoud` holds without hydration.
* The guard of `WriteIdempotent` outlives a write that failed; the retry that `ErrDegradedWriteUnsafe` asks
  for is answered "already processed" (README.md:531, 729).
* With two pods or late store writes a degraded write can be overwritten by an older flight: the probe
  sees only what is still dirty.
* `DrainAndClose` "flushes all remaining dirty keys" (`sluice.go:799`): the final flush of a band takes one
  batch, and a write that passed the closed flag may still come after it. What is left stays dirty in
  Redis for other pods or the next start. `CloseFlushes` therefore speaks of a final flush that took all.
* A write whose caller gave up is still queued; it can run after the caller's next, acknowledged write of
  that key (both in a batch where the first gets NOSCRIPT; or the second goes past a stopped batcher that
  is still draining) and replace it. `shield.go:114` calls the retry "a harmless duplicate upsert", which it
  is if the next write is the same payload.

Caches:

* Versions are milliseconds and the resident entry wins a tie: of two writes in one millisecond the pod may go on
  serving the first until it falls due, although the comment at localjournal.go:183 lets equal versions apply.
* Scripts run in another order than their `ts` were read, so a `ts` may go back in the journal. `VersionIsHonest` still holds: a version is never later than its payload.
* `ReadJournal` reads `p` and `ts` with two commands; a write between them gives the old payload the new version,
  and the gate then refuses the newer one until the entry falls due.
* The gate goes with the entry: after an eviction, an expiry or an invalidation an older message or heal is
  put again (README.md:364 "an out-of-order replay can never regress newer state").
* Each start replays the stream from "0", so a `Read` may serve what is older than `LocalTTL` (README.md:344);
  `LatestIsServed` is about behaviours that come to an end of that.
* The pipeline of a batch publishes a write whose script failed, with a version that wins the gate (shield.go:186):
  L1 entries then serve a payload the journal never had, until they fall due.
* A degraded write goes to the store past the journal, which keeps the older payload while it lives (types.go:269
  "every write lands in the journal before the store"), and an older flight of another pod takes the document
  back: `ReadFresh` may then return less than was journaled. `JournalNotBehindStore` and `FreshIsCurrent` hold
  until the first of either.
* A write that was skipped as a duplicate does no write-through.

Indexes:

* Two updates of a key that overlap may leave it out of an index key it belongs to, or in one it does not,
  with or without a record of it. The comment at index.go:142 knows of a Write that a prune overtakes and of
  entries it loses; that race may leave a stale entry without a record just as well.
* "Its flush will re-enqueue it" (index.go:183): the pruner's ZREM can come after the commit's ZADD, and the
  key is out of the queue. It is left to the sweeper, as is a key that was dead-lettered, whose TTL queues
  nothing (CHANGELOG.md:140): the two exceptions of `QueuedToDie`.
* The sweeper's SREM can come after a writer's SADD; an index key with members is then out of the registry
  until its next update or start of a pod, and no sweep sees it (index.go:29). `EventuallyPruned` speaks of
  registered ones.
* A field that goes from a number to a string leaves the key in the field's range set, and out of its record, so
  that no update or prune of the key takes it out (index.go:103); a query of that range finds it.
* An update to a payload with nothing to index leaves the old entries (`sluice.go:706`), a skipped duplicate
  does not index again, and a payload kept for longer than `ActivityWindow` outlives its index keys
  (README.md:469).

Sinks:

* Postgres takes its columns from the first row; if that is the odd one, the valid rest is dead-lettered. A second
  row of a document in a batch is dead-lettered (Postgres, DynamoDB) although the store would take it.
  `OnlyBadRowsBuried` names these exceptions.
* In DynamoDB's fallback every error but the end of the context is permanent, so throttling dead-letters
  good rows; a batch of more than 25 items always goes there, although CHANGELOG.md:70
  has it chunked.
* DocumentDB takes a duplicate key for a race on `_id` if the message holds "_id_", as a unique index named
  `user_id_1` does; such a row is tried for ever (docdb.go:161 has other indexes permanent).
* DocumentDB's "all other write errors are permanent" (docdb.go:167) is said of shard and network errors too: good
  rows are dead-lettered.
* Postgres and DynamoDB compare key values printed and joined by `|` or `#` (postgres.go:405, dynamodb.go:141): of
  two documents that print alike the second is dead-lettered, and one document that prints in two ways meets
  itself in a statement.
* A value pgx cannot encode, more parameters than a statement takes (postgres.go:240), a model DocumentDB's driver
  cannot encode, and a refusal of DynamoDB other than ValidationException (dynamodb.go:212) fail the call as a whole,
  flush after flush: the band is stalled, and in Postgres the batch's `UpdateMany` statements run again each time.
  `AgainOnlyAfterFault` and `BandDrains` are about bands without such rows.

## 8. Not modelled

* Bundled sources: one lookup by key or in bulk each, over which `Read`, `HotLoad` and `ReadBulk` are modelled.
* Metrics, configuration and builder: counters, defaults and straight-line code that unit tests reach.
* Examples: demonstration programs that call the library, more than half of the repository's lines. They have
  no behaviour of the library's own.
* Within modelled parts: hot markers (they choose between two TTLs), the pre-eviction flusher and volume
  signals (they only start a cycle that may start anyway), the LRU order, scores of range indexes, the wording
  of errors, SQL and logs.
