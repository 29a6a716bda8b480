----------------------------- MODULE FlushEngine -----------------------------
(***************************************************************************)
(* One band of the write-behind pipeline: the Redis journal of the band    *)
(* (payload hashes, dirty set, dead-letter set), the writers that fill it  *)
(* and, in every pod, the band goroutine of the flush engine that drains   *)
(* it into the document store (internal/engine/engine.go flushBand over    *)
(* internal/shield/shield.go and the Lua scripts of shield/types.go).      *)
(*                                                                         *)
(* Bands share no key, no script and no goroutine, so one band is the      *)
(* whole engine.  A Lua script is one atomic step; everything else (the    *)
(* ZRANGEBYSCORE, each HMGET of the pipeline, each contract call, each     *)
(* document of the BulkWrite, each script of the commit pipeline) is a     *)
(* step of its own, interleaved with writers, expiry and other pods.       *)
(*                                                                         *)
(* The n-th write of a key carries the payload n, so "newer" is ">".       *)
(***************************************************************************)
EXTENDS Integers, FiniteSets

CONSTANTS
    Key,           \* correlation keys of the band
    Pod,           \* processes that run a band goroutine on this band
    MaxBatch,      \* Config.MaxBatchSize
    Timestamp,     \* clock readings a write may carry as its score
    MaxWrites,     \* bound: writes per key
    MaxEvictions,  \* bound: keys whose unflushed hash Redis loses
    LateWrites,    \* the store may apply a write after BulkWrite gave up on it
    SlowFlush,     \* a flush cycle may outlive the post-flush TTL
    Misattribution \* the sink may name a key that is not in the batch

ASSUME BandAssumption ==
    /\ IsFiniteSet(Key)
    /\ MaxBatch \in Nat \ {0}
    /\ Timestamp # {} /\ Timestamp \subseteq Nat
    /\ MaxWrites \in Nat
    /\ MaxEvictions \in Nat
    /\ LateWrites \in BOOLEAN
    /\ SlowFlush \in BOOLEAN
    /\ Misattribution \in BOOLEAN

VARIABLES
    \* The journal in Redis.
    payload,   \* field p of the payload hash; Missing when there is none
    seq,       \* field v of the payload hash; 0 when there is none
    expiring,  \* the payload hash carries a TTL
    dirty,     \* members of the dirty ZSET
    score,     \* their scores
    dlq,       \* members of the dead-letter ZSET
    \* The document store.
    sink,      \* payload of each document, Missing when there is none
    late,      \* store writes whose BulkWrite has already given up
    \* The band goroutine of each pod.
    pc,        \* where flushBand is
    stage,     \* what the current cycle has done with each key
    gotP,      \* payload DrainBand returned
    gotV,      \* Seq DrainBand returned
    \* History, read by no action.
    written,   \* number of writes the journal acknowledged
    stored,    \* payloads the store has ever applied
    evicted,   \* keys whose unflushed hash was lost
    recorded,  \* keys whose loss was logged and counted
    reported,  \* keys reported through ErrPayloadMissing
    untold     \* keys whose pod died before it made that report

journal == <<payload, seq, expiring, dirty, score, dlq>>
store   == <<sink, late, stored>>
cycle   == <<pc, stage, gotP, gotV>>
reports == <<recorded, reported, untold>>
vars    == <<journal, store, cycle, written, evicted, reports>>

Missing == 0
Payload == 1..MaxWrites
Stage   == {"none", "scanned", "read", "missing", "surfaced", "model", "applied", "commit", "bury"}
Class   == {"none", "transient", "permanent"}

\* Outcome of BulkWrite: the SinkErrors by key, and whether one has no key.
Report == [anonymous : BOOLEAN, class : [Key -> Class]]

Blank == [k \in Key |-> "none"]
Zeros == [k \in Key |-> 0]

Init ==
    /\ payload = Zeros /\ seq = Zeros /\ score = Zeros
    /\ expiring = [k \in Key |-> FALSE]
    /\ dirty = {} /\ dlq = {}
    /\ sink = Zeros /\ late = {}
    /\ pc = [f \in Pod |-> "idle"]
    /\ stage = [f \in Pod |-> Blank]
    /\ gotP = [f \in Pod |-> Zeros]
    /\ gotV = [f \in Pod |-> Zeros]
    /\ written = Zeros
    /\ stored = [k \in Key |-> {}]
    /\ evicted = {} /\ recorded = {} /\ reported = {} /\ untold = {}

-----------------------------------------------------------------------------
(* The Lua scripts, each one atomic step on the journal of one key.        *)

\* Mutant: no HINCRBY.
WriteWithoutSequence(k, p, ts) ==
    /\ payload'  = [payload EXCEPT ![k] = p]
    /\ expiring' = [expiring EXCEPT ![k] = FALSE]
    /\ dirty'    = dirty \union {k}
    /\ score'    = [score EXCEPT ![k] = ts]
    /\ UNCHANGED <<seq, dlq>>

\* atomicWriteLua: HSET p ts, HINCRBY v, PERSIST, ZADD dirty.
AtomicWrite(k, p, ts) ==
    /\ payload'  = [payload EXCEPT ![k] = p]
    /\ seq'      = [seq EXCEPT ![k] = @ + 1]
    /\ expiring' = [expiring EXCEPT ![k] = FALSE]
    /\ dirty'    = dirty \union {k}
    /\ score'    = [score EXCEPT ![k] = ts]
    /\ UNCHANGED dlq

\* Mutant: a commit that compares nothing.
CommitUnconditionally(k, v) ==
    /\ dirty' = dirty \ {k}
    /\ expiring' = [expiring EXCEPT ![k] = @ \/ payload[k] # Missing]
    /\ UNCHANGED <<payload, seq, score, dlq>>

\* commitFlushedLua: nothing unless v is the drained one, else ZREM and, on a
\* hash that exists, the post-flush TTL (KeyTTL or ActivityWindow).
CommitFlushedScript(k, v) ==
    \/ /\ seq[k] = v
       /\ dirty' = dirty \ {k}
       /\ expiring' = [expiring EXCEPT ![k] = @ \/ payload[k] # Missing]
       /\ UNCHANGED <<payload, seq, score, dlq>>
    \/ /\ seq[k] # v
       /\ UNCHANGED journal

\* Mutant: a dead-letter move that compares nothing.
BuryUnconditionally(k, v) ==
    /\ dlq' = dlq \union {k}
    /\ dirty' = dirty \ {k}
    /\ expiring' = [expiring EXCEPT ![k] = TRUE]
    /\ UNCHANGED <<payload, seq, score>>

\* Mutant: a dead-letter move without the ZREM.
BuryAndKeepDirty(k, v) ==
    \/ /\ seq[k] = v
       /\ dlq' = dlq \union {k}
       /\ expiring' = [expiring EXCEPT ![k] = TRUE]
       /\ UNCHANGED <<payload, seq, score, dirty>>
    \/ /\ seq[k] # v
       /\ UNCHANGED journal

\* deadLetterIfUnchangedLua: nothing unless v is the drained one, else ZADD
\* dlq, HSET dlq_reason (which creates the hash when it is gone), PEXPIRE, ZREM.
DeadLetterScript(k, v) ==
    \/ /\ seq[k] = v
       /\ dlq' = dlq \union {k}
       /\ dirty' = dirty \ {k}
       /\ expiring' = [expiring EXCEPT ![k] = TRUE]
       /\ UNCHANGED <<payload, seq, score>>
    \/ /\ seq[k] # v
       /\ UNCHANGED journal

-----------------------------------------------------------------------------
(* Writers and Redis itself.                                               *)

\* Shield.Write: the timestamp is taken before the script runs, on the
\* writer's own clock, so it orders nothing.
Write(k, ts) ==
    /\ written[k] < MaxWrites
    /\ written' = [written EXCEPT ![k] = @ + 1]
    /\ AtomicWrite(k, written[k] + 1, ts)
    /\ UNCHANGED <<store, cycle, evicted, reports>>

DropHash(k) ==
    /\ payload'  = [payload EXCEPT ![k] = Missing]
    /\ seq'      = [seq EXCEPT ![k] = 0]
    /\ expiring' = [expiring EXCEPT ![k] = FALSE]
    /\ UNCHANGED <<dirty, score, dlq>>

Held(k) == \E f \in Pod : stage[f][k] # "none"

\* The TTL of a hash runs out.  A cycle is cut off after FlushWindow * 4 (1 s
\* by default) and KeyTTL is 30 s, so unless SlowFlush a hash committed during
\* a cycle does not die before the cycle does.
Expire(k) ==
    /\ expiring[k]
    /\ SlowFlush \/ ~Held(k)
    /\ DropHash(k)
    /\ UNCHANGED <<store, cycle, written, evicted, reports>>

\* An unflushed hash is lost behind the library's back (maxmemory eviction or
\* manual deletion); its dirty entry stays.
Evict(k) ==
    /\ k \in dirty \ evicted
    /\ Cardinality(evicted) < MaxEvictions
    /\ evicted' = evicted \union {k}
    /\ DropHash(k)
    /\ UNCHANGED <<store, cycle, written, reports>>

-----------------------------------------------------------------------------
(* flushBand, phase 1: DrainBand.                                          *)

\* Mutant: LIMIT 0 MaxBatch-1.
OldestDirtyShort ==
    {B \in SUBSET dirty :
        /\ Cardinality(B) <= MaxBatch - 1
        /\ B = dirty \/ Cardinality(B) = MaxBatch - 1
        /\ \A a \in B, b \in dirty \ B : score[a] <= score[b]}

\* The members ZRANGEBYSCORE -inf +inf LIMIT 0 MaxBatch may return.
OldestDirty ==
    {B \in SUBSET dirty :
        /\ Cardinality(B) <= MaxBatch
        /\ B = dirty \/ Cardinality(B) = MaxBatch
        /\ \A a \in B, b \in dirty \ B : score[a] <= score[b]}

\* A tick or a volume signal starts a cycle; an empty band ends it at once.
ScanDirty(f) ==
    /\ pc[f] = "idle"
    /\ dirty # {}
    /\ \E B \in OldestDirty :
         stage' = [stage EXCEPT ![f] =
                     [k \in Key |-> IF k \in B THEN "scanned" ELSE "none"]]
    /\ pc' = [pc EXCEPT ![f] = "drain"]
    /\ UNCHANGED <<journal, store, gotP, gotV, written, evicted, reports>>

\* A tick finds the band empty.
EmptyTick(f) ==
    /\ pc[f] = "idle"
    /\ dirty = {}
    /\ UNCHANGED vars

\* Mutant: the sequence counted from zero.
ReadPayloadOffByOne(f, k) ==
    /\ stage[f][k] = "scanned"
    /\ stage' = [stage EXCEPT ![f][k] = "read"]
    /\ gotP' = [gotP EXCEPT ![f][k] = payload[k]]
    /\ gotV' = [gotV EXCEPT ![f][k] = seq[k] - 1]
    /\ UNCHANGED <<journal, store, pc, written, evicted, reports>>

\* One HMGET p ts v of the pipeline.
ReadPayload(f, k) ==
    /\ stage[f][k] = "scanned"
    /\ stage' = [stage EXCEPT ![f][k] = "read"]
    /\ gotP' = [gotP EXCEPT ![f][k] = payload[k]]
    /\ gotV' = [gotV EXCEPT ![f][k] = seq[k]]
    /\ UNCHANGED <<journal, store, pc, written, evicted, reports>>

\* Back to the select of runBand with nothing done for the remaining keys; what
\* the cycle has read goes with it.
Quit(f) ==
    /\ pc' = [pc EXCEPT ![f] = "idle"]
    /\ stage' = [stage EXCEPT ![f] = Blank]
    /\ gotP' = [gotP EXCEPT ![f] = Zeros]
    /\ gotV' = [gotV EXCEPT ![f] = Zeros]

\* DrainBand returns an error.
DrainFails(f) ==
    /\ \E k \in Key : stage[f][k] = "scanned"
    /\ Quit(f)
    /\ UNCHANGED <<journal, store, written, evicted, reports>>

-----------------------------------------------------------------------------
(* flushBand: the write contract.                                          *)

\* DrainBand has returned and the loop over its records has reached k.
InLoop(f, k) ==
    /\ stage[f][k] = "read"
    /\ \A j \in Key : stage[f][j] # "scanned"

ContractAccepts(f, k) ==
    /\ InLoop(f, k)
    /\ gotP[f][k] # Missing
    /\ stage' = [stage EXCEPT ![f][k] = "model"]
    /\ UNCHANGED <<journal, store, pc, gotP, gotV, written, evicted, reports>>

\* deadLetter: the script, or an error of its pipeline, which flushBand records
\* and ignores.
DeadLetter(k, v) == DeadLetterScript(k, v) \/ UNCHANGED journal

\* The contract returns an error: dead-lettered at once, on its own.
ContractRejects(f, k) ==
    /\ InLoop(f, k)
    /\ gotP[f][k] # Missing
    /\ DeadLetter(k, gotV[f][k])
    /\ stage' = [stage EXCEPT ![f][k] = "none"]
    /\ UNCHANGED <<store, pc, gotP, gotV, written, evicted, reports>>

\* Every record of the batch has been through the loop but those without a payload.
LoopIsOver(f) ==
    /\ \E k \in Key : InLoop(f, k)
    /\ \A k \in Key : stage[f][k] = "read" => gotP[f][k] = Missing

Advance(f, from, to) ==
    stage' = [stage EXCEPT ![f] =
                [k \in Key |-> IF stage[f][k] = from THEN to ELSE stage[f][k]]]

\* Mutant: no log and no metric.
RecordNothing(f) ==
    /\ LoopIsOver(f)
    /\ Advance(f, "read", "missing")
    /\ UNCHANGED <<journal, store, pc, gotP, gotV, written, evicted, reports>>

\* handleMissingPayloads: the metric and the log come first ...
RecordMissing(f) ==
    /\ LoopIsOver(f)
    /\ recorded' = recorded \union {k \in Key : stage[f][k] = "read"}
    /\ Advance(f, "read", "missing")
    /\ UNCHANGED <<journal, store, pc, gotP, gotV, written, evicted, reported, untold>>

\* ... then the dead-letter entries, in one pipeline ...
BuryMissing(f, k) ==
    /\ stage[f][k] = "missing"
    /\ DeadLetter(k, gotV[f][k])
    /\ stage' = [stage EXCEPT ![f][k] = "surfaced"]
    /\ UNCHANGED <<store, pc, gotP, gotV, written, evicted, reports>>

Surfaced(f) == {k \in Key : stage[f][k] = "surfaced"}

\* Mutant: no callback.
ReportNothing(f) ==
    /\ Surfaced(f) # {}
    /\ \A k \in Key : stage[f][k] # "missing"
    /\ Advance(f, "surfaced", "none")
    /\ UNCHANGED <<journal, store, pc, gotP, gotV, written, evicted, reports>>

\* ... then the flush callback, for all of them.
ReportMissing(f) ==
    /\ Surfaced(f) # {}
    /\ \A k \in Key : stage[f][k] # "missing"
    /\ reported' = reported \union Surfaced(f)
    /\ Advance(f, "surfaced", "none")
    /\ UNCHANGED <<journal, store, pc, gotP, gotV, written, evicted, recorded, untold>>

-----------------------------------------------------------------------------
(* flushBand, phase 2: BulkWrite.                                          *)

\* The loop is over: BulkWrite the models, or return when there are none.
StartBulkWrite(f) ==
    /\ pc[f] = "drain"
    /\ \A k \in Key : stage[f][k] \in {"none", "model"}
    /\ \/ /\ stage[f] # Blank
          /\ pc' = [pc EXCEPT ![f] = "bulkwrite"]
          /\ UNCHANGED <<stage, gotP, gotV>>
       \/ /\ stage[f] = Blank
          /\ Quit(f)
    /\ UNCHANGED <<journal, store, written, evicted, reports>>

Apply(k, p) ==
    /\ sink' = [sink EXCEPT ![k] = p]
    /\ stored' = [stored EXCEPT ![k] = @ \union {p}]

\* The store applies one model: an upsert, whatever the document holds.
SinkApplies(f, k) ==
    /\ pc[f] = "bulkwrite"
    /\ stage[f][k] = "model"
    /\ Apply(k, gotP[f][k])
    /\ stage' = [stage EXCEPT ![f][k] = "applied"]
    /\ UNCHANGED <<journal, late, pc, gotP, gotV, written, evicted, reports>>

\* What a sink may report of a batch in stages st: an error for every model it
\* did not apply, or one error without a key.  A misattributing sink reports
\* some error, of any key.
SinkReports(st, r) ==
    LET failed == {k \in Key : st[k] = "model"}
        named  == {k \in Key : r.class[k] # "none"} IN
    \/ /\ named \subseteq {k \in Key : st[k] # "none"}
       /\ failed \subseteq named \/ r.anonymous
    \/ /\ Misattribution
       /\ failed # {} => named # {} \/ r.anonymous

\* Mutant: the attribution guard removed.
TrustAttribution(r) == TRUE

\* sink.CheckAttribution.
CheckAttribution(r) == ~r.anonymous

\* Mutant: only permanent errors are failures.
PartitionPermanentOnly(f, r) ==
    [k \in Key |->
        CASE r.class[k] = "permanent" -> "bury"
          [] OTHER -> IF stage[f][k] = "none" THEN "none" ELSE "commit"]

\* Partition of the result: an unnamed model is a success.
Partition(f, r) ==
    [k \in Key |->
        CASE r.class[k] = "permanent" -> "bury"
          [] r.class[k] = "transient" -> "none"
          [] OTHER -> IF stage[f][k] = "none" THEN "none" ELSE "commit"]

BulkWriteReturns(f, r) ==
    /\ pc[f] = "bulkwrite"
    /\ SinkReports(stage[f], r)
    /\ \/ /\ CheckAttribution(r)
          /\ pc' = [pc EXCEPT ![f] = "settle"]
          /\ stage' = [stage EXCEPT ![f] = Partition(f, r)]
          /\ UNCHANGED <<gotP, gotV>>
       \/ /\ ~CheckAttribution(r)
          /\ Quit(f)
    /\ UNCHANGED <<journal, store, written, evicted, reports>>

\* The store writes that are still under way when nobody waits for them.
Abandoned(f) ==
    {<<k, gotP[f][k]>> : k \in {j \in Key : LateWrites /\ pc[f] = "bulkwrite"
                                                       /\ stage[f][j] = "model"}}

\* BulkWrite returns an error, its deadline included: nothing is committed.
BulkWriteFails(f) ==
    /\ pc[f] = "bulkwrite"
    /\ late' = late \union Abandoned(f)
    /\ Quit(f)
    /\ UNCHANGED <<journal, sink, stored, written, evicted, reports>>

LateApply(k, p) ==
    /\ <<k, p>> \in late
    /\ late' = late \ {<<k, p>>}
    /\ Apply(k, p)
    /\ UNCHANGED <<journal, cycle, written, evicted, reports>>

-----------------------------------------------------------------------------
(* flushBand: commit the successes, then dead-letter the permanent errors. *)

CommitFlushed(f, k) ==
    /\ stage[f][k] = "commit"
    /\ CommitFlushedScript(k, gotV[f][k])
    /\ stage' = [stage EXCEPT ![f][k] = "none"]
    /\ UNCHANGED <<store, pc, gotP, gotV, written, evicted, reports>>

DeadLetterPermanent(f, k) ==
    /\ stage[f][k] = "bury"
    /\ \A j \in Key : stage[f][j] # "commit"
    /\ DeadLetterScript(k, gotV[f][k])
    /\ stage' = [stage EXCEPT ![f][k] = "none"]
    /\ UNCHANGED <<store, pc, gotP, gotV, written, evicted, reports>>

\* The commit or dead-letter pipeline fails before this key: recorded, ignored.
ScriptFails(f, k) ==
    /\ \/ stage[f][k] = "commit"
       \/ stage[f][k] = "bury" /\ \A j \in Key : stage[f][j] # "commit"
    /\ stage' = [stage EXCEPT ![f][k] = "none"]
    /\ UNCHANGED <<journal, store, pc, gotP, gotV, written, evicted, reports>>

FinishFlush(f) ==
    /\ pc[f] = "settle"
    /\ stage[f] = Blank
    /\ Quit(f)
    /\ UNCHANGED <<journal, store, written, evicted, reports>>

\* The pod dies in mid-cycle; its successor starts from the dirty set.
Crash(f) ==
    /\ pc[f] # "idle"
    /\ late' = late \union Abandoned(f)
    /\ untold' = untold \union Surfaced(f)
    /\ Quit(f)
    /\ UNCHANGED <<journal, sink, stored, written, evicted, recorded, reported>>

-----------------------------------------------------------------------------
Environment ==
    \E k \in Key :
        \/ \E ts \in Timestamp : Write(k, ts)
        \/ Expire(k)
        \/ Evict(k)
        \/ \E p \in Payload : LateApply(k, p)

FlushBand(f) ==
    \/ EmptyTick(f)
    \/ ScanDirty(f)
    \/ \E k \in Key :
        \/ ReadPayload(f, k)
        \/ ContractAccepts(f, k)
        \/ ContractRejects(f, k)
        \/ BuryMissing(f, k)
        \/ SinkApplies(f, k)
        \/ CommitFlushed(f, k)
        \/ DeadLetterPermanent(f, k)
        \/ ScriptFails(f, k)
    \/ DrainFails(f)
    \/ RecordMissing(f)
    \/ ReportMissing(f)
    \/ StartBulkWrite(f)
    \/ \E r \in Report : BulkWriteReturns(f, r)
    \/ BulkWriteFails(f)
    \/ FinishFlush(f)

Next == Environment \/ \E f \in Pod : FlushBand(f) \/ Crash(f)

Spec == Init /\ [][Next]_vars

\* runBand's ticker never stops, and the deadline of the cycle ends each of its
\* calls.  Writers, expiry and eviction owe nothing.
Fairness == \A f \in Pod : WF_vars(FlushBand(f))

FairSpec == Spec /\ Fairness

-----------------------------------------------------------------------------
(* Safety.                                                                 *)

\* Every variable has its type; the clock and the counters stay in bounds.
TypeOK ==
    /\ payload \in [Key -> 0..MaxWrites]
    /\ seq \in [Key -> Nat]
    /\ expiring \in [Key -> BOOLEAN]
    /\ dirty \in SUBSET Key
    /\ score \in [Key -> Timestamp \union {0}]
    /\ dlq \in SUBSET Key
    /\ sink \in [Key -> 0..MaxWrites]
    /\ late \in SUBSET (Key \X (0..MaxWrites))
    /\ pc \in [Pod -> {"idle", "drain", "bulkwrite", "settle"}]
    /\ stage \in [Pod -> [Key -> Stage]]
    /\ gotP \in [Pod -> [Key -> 0..MaxWrites]]
    /\ gotV \in [Pod -> [Key -> Nat]]
    /\ written \in [Key -> 0..MaxWrites]
    /\ stored \in [Key -> SUBSET (0..MaxWrites)]
    /\ evicted \in SUBSET Key
    /\ recorded \in SUBSET Key /\ reported \in SUBSET Key /\ untold \in SUBSET Key

\* README:525, "unflushed state never expires": while a key is dirty its hash
\* holds its latest payload and carries no TTL, whatever cycles of whatever pods
\* are committing, dead-lettering or abandoning that key.
UnflushedPersists ==
    \A k \in dirty \ evicted : payload[k] = written[k] /\ ~expiring[k]

\* README:526, "commits can't lose concurrent writes": a key leaves the dirty
\* set only when the store has applied its latest write or that very write is
\* in the dead-letter set (until its dead-letter TTL runs out).
CleanMeansStored ==
    \A k \in Key \ (dirty \union evicted) :
        \/ written[k] = 0
        \/ written[k] \in stored[k]
        \/ k \in dlq /\ payload[k] \in {written[k], Missing}

\* docs/issues/sink-silent-loss.md:34, "no key is committed unless the sink
\* positively accounted for it": what is about to be committed was applied.
CommittedWasApplied ==
    \A f \in Pod, k \in Key : stage[f][k] = "commit" => gotP[f][k] \in stored[k]

\* With one pod and no write outliving its BulkWrite, more than "was applied
\* once": a clean key that is not dead-lettered has its latest write in the
\* store now.
SettledIsLatest ==
    \A k \in Key \ (dirty \union dlq \union evicted) : sink[k] = written[k]

\* README:526, "commit and dead-lettering are conditional" on the sequence:
\* whatever takes a key out of the dirty set acted on its latest write, never on
\* one superseded while the batch was in flight.  (The keys whose hash Redis has
\* lost are excepted: their sequence starts again.)
TookLatestIntactOut ==
    \A k \in (dirty \ dirty') \ evicted :
        \E f \in Pod : stage[f][k] # "none" /\ gotP[f][k] = payload[k]

IntactRacingWriteStaysDirty == [][TookLatestIntactOut]_vars

\* README.md:530, "losses are loud": a dirty key whose hash is gone leaves the
\* dirty set only after a pod has logged and counted its loss, whichever pod takes
\* it out and wherever one of them dies; "the log and metric are the durable record"
\* (engine.go:420).
LossIsLoud == [][\A k \in dirty \ dirty' : seq[k] = 0 => k \in recorded]_vars

-----------------------------------------------------------------------------
(* Liveness.                                                               *)

\* A step in which Redis, the store or the pod lets down a key of the cycle.
\* (A crash with no key in hand, a script that fails on a superseded key and an
\* error for a key outside the batch change what no failure changes too.)
Failure(f) ==
    \/ DrainFails(f)
    \/ BulkWriteFails(f)
    \/ stage[f] # Blank /\ Crash(f)
    \/ \E k \in Key : seq[k] = gotV[f][k] /\ ScriptFails(f, k)
    \/ \E r \in Report :
        /\ \/ r.anonymous
           \/ \E k \in Key : r.class[k] = "transient" /\ stage[f][k] # "none"
        /\ BulkWriteReturns(f, r)
    \/ \E k \in Key :
        /\ ContractRejects(f, k) \/ BuryMissing(f, k)
        /\ seq[k] = gotV[f][k] /\ k \in dirty'

OutageEnds == <>[][~ \E f \in Pod : Failure(f)]_vars

\* engine.go:211-215, transient and total failures "remain in dirty set for
\* retry": once the outage is over and nobody writes the key any more
\* (MaxWrites), the key is flushed or dead-lettered and leaves the dirty set,
\* even when a batch is smaller than the backlog.
EventuallySettled ==
    OutageEnds => \A k \in Key : k \in dirty ~> k \notin dirty

\* README.md:530, "gets ErrPayloadMissing (via OnFlush)": a dirty key whose payload is
\* gone is reported to the flush callback, unless a newer write has taken its place
\* or the pod dies between the dead-letter entry and the callback: nobody makes the
\* report in its place.
LossIsReported ==
    OutageEnds =>
        \A k \in Key :
            k \in dirty /\ payload[k] = Missing
                ~> k \in reported \union untold \/ payload[k] # Missing
=============================================================================
