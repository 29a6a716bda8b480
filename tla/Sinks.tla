-------------------------------- MODULE Sinks --------------------------------
(***************************************************************************)
(* The bundled FlushSinks (sink/docdb, sink/dynamodb, sink/postgres) under *)
(* the flush engine: how each turns what its store answers into the        *)
(* per-key errors and the top-level error of BulkWrite, and what becomes   *)
(* of the rows when the engine acts on them, flush after flush.            *)
(*                                                                         *)
(* FlushEngine assumes a sink that names every row it failed; here that is *)
(* what the three sinks must bring about.  Rows are numbered in the order  *)
(* of their dirty scores, which a failed flush leaves as they are.         *)
(***************************************************************************)
EXTENDS FiniteSets, Naturals, Sequences

CONSTANTS
    Backend,    \* sinks to check, of "docdb", "dynamodb" and "postgres"
    Row,        \* what a WriteContract may return
    MaxRows,    \* bound: rows of the band and of degraded writes
    BatchSize,  \* Config.MaxBatchSize
    MaxPut,     \* items DynamoDB takes in one BatchWriteItem (25)
    MaxUpserts, \* rows of each column set that one INSERT takes (65535 parameters)
    MaxDirect,  \* bound: degraded writes
    MaxFaults   \* bound: faults of network and store

\* form: the model is "good", its values are "uncoded" (the driver cannot encode one), or
\* it is "odd" (no map, or string, in Update; no key attributes).  doc: the document
\* or row it addresses (_id, key attributes, conflict columns).  key: their values
\* printed and joined, which may be the same for two documents, or differ for one.
\* cols: its columns.  refuses: the store never takes it, for a reason that the sink
\* lists as permanent or that it does not.  Unlisted are SQLSTATE class 22 and the rest
\* outside isPermanentSQLState, a unique index of DocumentDB whose name holds "_id_",
\* as user_id_1 does, and exceptions of DynamoDB other than ValidationException.
ASSUME SinkAssumption ==
    /\ Backend \subseteq {"docdb", "dynamodb", "postgres"}
    /\ \A r \in Row : /\ r.many \in BOOLEAN /\ r.form \in {"good", "uncoded", "odd"}
                      /\ r.refuses \in {"no", "listed", "unlisted"}
                      /\ {"doc", "key", "cols"} \subseteq DOMAIN r
                      /\ MaxUpserts[r.cols] \in Nat \ {0}
    /\ {MaxRows, MaxDirect, MaxFaults} \subseteq Nat /\ {BatchSize, MaxPut} \subseteq Nat \ {0}

VARIABLES
    backend,    \* the sink configured
    row,        \* the rows, oldest first
    band,       \* rows dirty in the band
    direct,     \* rows of degraded writes to come
    pc,         \* where BulkWrite is
    batch,      \* models of the call
    todo,       \* models it has yet to send
    upserts,    \* models of Postgres' multi-row INSERT
    permanent,  \* rows in Errors with ClassPermanent
    transient,  \* rows in Errors with ClassTransient
    outcome,    \* "ok", "error" (top-level) or "anonymous" (an error without key)
    times,      \* how often the store has taken each row (with OnConflictDoNothing it may
                \* keep the one it has)
    acked,      \* rows committed, or whose Write returned nil
    buried,     \* rows dead-lettered
    faults,     \* faults so far
    struck      \* rows whose own write had one (read by no action)

setup == <<backend, row>>
call  == <<pc, batch, todo, upserts, permanent, transient, outcome>>
fate  == <<band, direct, acked, buried>>
harm  == <<faults, struck>>
vars  == <<setup, fate, call, times, harm>>

Id == DOMAIN row

Idle == pc = "idle" /\ batch = {} /\ todo = {} /\ upserts = {} /\ permanent = {}
        /\ transient = {} /\ outcome = "ok"

Init ==
    /\ backend \in Backend /\ row \in UNION {[1..n -> Row] : n \in 1..MaxRows}
    /\ band \in SUBSET Id /\ direct = Id \ band /\ Cardinality(direct) \leq MaxDirect
    /\ Idle
    /\ times = [i \in Id |-> 0] /\ acked = {} /\ buried = {} /\ faults = 0 /\ struck = {}

-----------------------------------------------------------------------------
(* Rows, and the store.                                                      *)

\* What the store takes when nothing goes wrong, and what it refuses for a listed reason.
Accepted(S) == {i \in S : row[i].form = "good" /\ row[i].refuses = "no"}
Listed(S)   == {i \in S : row[i].form = "good" /\ row[i].refuses = "listed"}

\* The store applies rows S.  Bound: beyond Often the times are not counted.
Often    == MaxFaults + 2
Apply(S) == times' = [i \in Id |-> times[i] + IF i \in S /\ times[i] < Often THEN 1 ELSE 0]

NoFault    == UNCHANGED harm
FaultOf(S) == faults < MaxFaults /\ faults' = faults + 1 /\ struck' = struck \cup S
Fault      == FaultOf({})

\* BulkWrite returns, with a top-level error or without.
Return(o) == pc' = "returned" /\ outcome' = o /\ todo' = {}

\* Models with a map in Update; of each key the first.
Plain(S)  == {i \in S : row[i].form # "odd" /\ ~row[i].many}
Firsts(S) == {i \in S : \A j \in S : j < i => row[j].key # row[i].key}

\* Two models of one document, which DynamoDB, and Postgres' DO UPDATE, refuse to take
\* in one statement.
Clash(S) == \E i, j \in S : i # j /\ row[i].doc = row[j].doc

\* More parameters than a statement may have.
Crowded(S) ==
    \E i \in S : Cardinality({j \in S : row[j].cols = row[i].cols}) > MaxUpserts[row[i].cols]

-----------------------------------------------------------------------------
(* DocumentDB: one unordered BulkWrite, whose write errors carry the index   *)
(* of their model.                                                           *)

\* Mutant: every duplicate key is permanent.
ClassifyWithoutRace(i, raced) == IF row[i].refuses = "unlisted" THEN "transient" ELSE "permanent"

\* 11000 on _id_ is another pod's insert of the same document: try again.  (All
\* rows are upserts.)  Every other write error is permanent.
ClassifyBulkErr(i, raced) ==
    IF i \in raced \/ row[i].refuses = "unlisted" THEN "transient" ELSE "permanent"

\* raced: rows whose document another pod inserts at the same time.  hit: rows with a
\* write error of shard or network, taken or not.  An index outside the batch leaves
\* an error without a key.
DocDbBulkWrite ==
    /\ backend = "docdb" /\ pc = "called" /\ \A i \in batch : row[i].form = "good"
    /\ \E raced \in SUBSET Accepted(batch) :
       \E hit \in SUBSET (Accepted(batch) \ raced), lost \in BOOLEAN :
        LET failed == raced \cup hit \cup (batch \ Accepted(batch)) IN
        /\ lost => failed # {}
        /\ IF raced \cup hit = {} /\ ~lost THEN NoFault ELSE FaultOf(hit)
        /\ \E taken \in SUBSET hit : Apply((batch \ failed) \cup taken)
        /\ permanent' = {i \in failed : ClassifyBulkErr(i, raced) = "permanent"}
        /\ transient' = failed \ permanent'
        /\ Return(IF lost THEN "anonymous" ELSE "ok")
    /\ UNCHANGED <<setup, fate, batch, upserts>>

\* A model the driver cannot encode fails the call; so do a write concern that
\* was not met, the network and the deadline, whatever was applied by then.
DocDbFails ==
    /\ backend = "docdb" /\ pc = "called"
    /\ \/ /\ \E i \in batch : row[i].form # "good"
          /\ NoFault /\ UNCHANGED times
       \/ Fault /\ \E S \in SUBSET Accepted(batch) : Apply(S)
    /\ Return("error")
    /\ UNCHANGED <<setup, fate, batch, upserts, permanent, transient>>

-----------------------------------------------------------------------------
(* DynamoDB: one BatchWriteItem, or PutItem by PutItem when it does not pass *)
(* validation.                                                               *)

\* UpdateMany, models without the key attributes, further models of a key and values that
\* cannot be marshalled are permanent errors.
DynamoPrepare ==
    /\ backend = "dynamodb" /\ pc = "called"
    /\ LET valid == {i \in Firsts(Plain(batch)) : row[i].form = "good"} IN
        /\ permanent' = batch \ valid
        /\ IF valid = {} THEN Return("ok")
           ELSE pc' = "batch" /\ todo' = valid /\ UNCHANGED outcome
    /\ UNCHANGED <<setup, fate, batch, upserts, transient, times, harm>>

\* What does not pass validation, and what it does not look at.
Invalid == Listed(todo) # {} \/ Clash(todo) \/ Cardinality(todo) > MaxPut
Passes  == ~Invalid /\ Accepted(todo) = todo

\* Mutant: UnprocessedItems are not looked at.
BatchWriteItemAll ==
    /\ pc = "batch" /\ Passes
    /\ \E unprocessed \in SUBSET todo :
        /\ IF unprocessed = {} THEN NoFault ELSE Fault
        /\ Apply(todo \ unprocessed)
    /\ Return("ok")
    /\ UNCHANGED <<setup, fate, batch, upserts, permanent, transient>>

\* UnprocessedItems are mapped back to their keys; one that cannot be fails the
\* call.
BatchWriteItem ==
    /\ pc = "batch" /\ Passes
    /\ \E unprocessed \in SUBSET todo, mapped \in BOOLEAN :
        /\ unprocessed = {} => mapped
        /\ IF unprocessed = {} THEN NoFault ELSE Fault
        /\ Apply(todo \ unprocessed)
        /\ transient' = unprocessed
        /\ Return(IF mapped THEN "ok" ELSE "error")
    /\ UNCHANGED <<setup, fate, batch, upserts, permanent>>

\* Mutant: the exception is an error of the call.
ValidationFails ==
    /\ pc = "batch" /\ Invalid /\ Return("error")
    /\ UNCHANGED <<setup, fate, batch, upserts, permanent, transient, times, harm>>

\* One item that does not pass, a clash, or one too many, fails them all.
ValidationException ==
    /\ pc = "batch" /\ Invalid /\ pc' = "put"
    /\ UNCHANGED <<setup, fate, batch, todo, upserts, permanent, transient, outcome, times, harm>>

\* A context that ends names every item; other errors are not mapped, and another refusal
\* than ValidationException is such an error.
BatchWriteItemFails ==
    /\ pc = "batch"
    /\ \E S \in SUBSET Accepted(todo) : Apply(S)
    /\ \/ Fault /\ transient' = todo /\ Return("ok")
       \/ Fault /\ Return("error") /\ UNCHANGED transient
       \/ /\ Accepted(todo) \cup Listed(todo) # todo
          /\ NoFault /\ Return("error") /\ UNCHANGED transient
    /\ UNCHANGED <<setup, fate, batch, upserts, permanent>>

\* fallbackPutItems.  Everything but the end of the context is permanent:
\* throttling and the network as well.
FallbackPut ==
    /\ pc = "put"
    /\ \E i \in todo :
        /\ \A j \in todo : i \leq j
        /\ \/ /\ NoFault
              /\ Apply(Accepted({i}))
              /\ permanent' = permanent \cup ({i} \ Accepted({i})) /\ UNCHANGED transient
           \/ /\ \E S \in SUBSET Accepted({i}) : Apply(S)
              /\ \/ Fault /\ transient' = transient \cup {i} /\ UNCHANGED permanent
                 \/ FaultOf({i}) /\ permanent' = permanent \cup {i} /\ UNCHANGED transient
        /\ IF todo = {i} THEN Return("ok") ELSE todo' = todo \ {i} /\ UNCHANGED <<pc, outcome>>
    /\ UNCHANGED <<setup, fate, batch, upserts>>

-----------------------------------------------------------------------------
(* Postgres: UpdateMany statements one by one, then one multi-row INSERT, or *)
(* row by row when that is refused for good.                                 *)

\* The first model with a map gives the columns; models with others, and
\* further models of a key, are permanent errors.
SameColumns(S) ==
    {i \in S : \A j \in S : (\A k \in S : j \leq k) => row[i].cols = row[j].cols}

PostgresPrepare ==
    /\ backend = "postgres" /\ pc = "called"
    /\ todo' = {i \in batch : row[i].form # "odd" /\ row[i].many}
    /\ upserts' = Firsts(SameColumns(Plain(batch)))
    /\ permanent' = batch \ (todo' \cup upserts')
    /\ pc' = "many"
    /\ UNCHANGED <<setup, fate, batch, transient, outcome, times, harm>>

\* One statement for one model: an UpdateMany, or a row of retryRowByRow.  Only
\* a listed SQLSTATE is permanent, and not an error of pgx.
ExecOne ==
    /\ pc \in {"many", "rows"}
    /\ \E i \in todo :
        /\ \A j \in todo : i \leq j
        /\ \/ /\ NoFault
              /\ Apply(Accepted({i}))
              /\ permanent' = permanent \cup Listed({i})
              /\ transient' = transient \cup ({i} \ (Accepted({i}) \cup Listed({i})))
           \/ /\ Fault
              /\ \E S \in SUBSET Accepted({i}) : Apply(S)
              /\ transient' = transient \cup {i} /\ UNCHANGED permanent
        /\ todo' = todo \ {i}
    /\ UNCHANGED <<setup, fate, batch, upserts, outcome, pc>>

ManyDone ==
    /\ pc = "many" /\ todo = {}
    /\ IF upserts = {} THEN Return("ok") ELSE pc' = "bulk" /\ UNCHANGED <<todo, outcome>>
    /\ UNCHANGED <<setup, fate, batch, upserts, permanent, transient, times, harm>>

RowsDone ==
    /\ pc = "rows" /\ todo = {} /\ Return("ok")
    /\ UNCHANGED <<setup, fate, batch, upserts, permanent, transient, times, harm>>

\* Mutant: an error of the statement is returned for the call.
FailCall == Return("error") /\ UNCHANGED transient

\* A SQLSTATE that is not listed is a transient error of every row.
NameAll == transient' = transient \cup upserts /\ Return("ok")

\* The INSERT reports one refusal, whichever it comes to first; one that has no SQLSTATE
\* (pgx could not encode a value, or send as many) is an error of the call.
ExecuteBulk ==
    /\ pc = "bulk" /\ NoFault
    /\ \/ /\ Accepted(upserts) = upserts /\ ~Crowded(upserts)
          /\ Apply(upserts) /\ Return("ok") /\ UNCHANGED transient
       \/ /\ Listed(upserts) # {} \/ Clash(upserts)
          /\ pc' = "rows" /\ todo' = upserts /\ UNCHANGED <<times, outcome, transient>>
       \/ /\ \E i \in upserts : row[i].form = "good" /\ row[i].refuses = "unlisted"
          /\ NameAll /\ UNCHANGED times
       \/ /\ Crowded(upserts) \/ \E i \in upserts : row[i].form = "uncoded"
          /\ Return("error") /\ UNCHANGED <<times, transient>>
    /\ UNCHANGED <<setup, fate, batch, upserts, permanent>>

\* Postgres gives up (a deadlock, a shutdown), or no answer comes.
ExecuteBulkFails ==
    /\ pc = "bulk" /\ Fault
    /\ \/ NameAll /\ UNCHANGED times
       \/ /\ Return("error") /\ UNCHANGED transient
          /\ UNCHANGED times \/ (Accepted(upserts) = upserts /\ Apply(upserts))
    /\ UNCHANGED <<setup, fate, batch, upserts, permanent>>

-----------------------------------------------------------------------------
(* The engine: flushBand around BulkWrite, and a degraded Write.             *)

Oldest(S) == {i \in S : Cardinality({j \in S : j \leq i}) \leq BatchSize}

BulkWrite ==
    /\ pc = "idle" /\ band # {}
    /\ batch' = Oldest(band) /\ pc' = "called"
    /\ UNCHANGED <<setup, fate, todo, upserts, permanent, transient, outcome, times, harm>>

\* Mutant: a dead-lettered row stays dirty.
LeavesUnlessNamed == batch \ (permanent \cup transient)

\* What is no longer dirty: commits and dead letters, not what is retried.
Leaves == batch \ transient

\* Errors of the call and CheckAttribution abort; else what is not named is
\* committed, and what is named is dead-lettered or stays.
Settle ==
    /\ pc = "returned"
    /\ IF outcome = "ok"
       THEN /\ acked' = acked \cup (batch \ (permanent \cup transient))
            /\ buried' = buried \cup permanent
            /\ band' = band \ Leaves
       ELSE UNCHANGED <<acked, buried, band>>
    /\ pc' = "idle" /\ batch' = {} /\ todo' = {} /\ upserts' = {}
    /\ permanent' = {} /\ transient' = {} /\ outcome' = "ok"
    /\ UNCHANGED <<setup, direct, times, harm>>

\* Write of one model: the caller has its error, or the store has the row.
Storable(i) == i \in Accepted(Id) /\ ~(row[i].many /\ backend = "dynamodb")

Write(i) ==
    /\ i \in direct /\ direct' = direct \ {i}
    /\ \/ Storable(i) /\ NoFault /\ Apply({i}) /\ acked' = acked \cup {i}
       \/ ~Storable(i) /\ NoFault /\ UNCHANGED <<times, acked>>
       \/ Storable(i) /\ Fault /\ UNCHANGED acked /\ (Apply({i}) \/ UNCHANGED times)
    /\ UNCHANGED <<setup, band, buried, call>>

EmptyTick == pc = "idle" /\ band = {} /\ UNCHANGED vars

FlushBand ==
    \/ BulkWrite \/ Settle
    \/ DocDbBulkWrite \/ DocDbFails
    \/ DynamoPrepare \/ BatchWriteItem \/ ValidationException \/ BatchWriteItemFails \/ FallbackPut
    \/ PostgresPrepare \/ ExecOne \/ ManyDone \/ RowsDone \/ ExecuteBulk \/ ExecuteBulkFails

Next == FlushBand \/ EmptyTick \/ \E i \in direct : Write(i)

\* The ticker goes on, and every call of a flush has a deadline.
Spec == Init /\ [][Next]_vars /\ WF_vars(FlushBand)

-----------------------------------------------------------------------------
(* Properties.                                                               *)

\* Types, and every row is in one place.
SinkTypeOK ==
    /\ backend \in Backend /\ row \in Seq(Row)
    /\ pc \in {"idle", "called", "batch", "put", "many", "bulk", "rows", "returned"}
    /\ outcome \in {"ok", "error", "anonymous"} /\ faults \in 0..MaxFaults /\ struck \subseteq Id
    /\ todo \subseteq batch /\ upserts \subseteq batch /\ batch \subseteq band
    /\ permanent \cup transient \subseteq batch /\ permanent \cap transient = {}
    /\ {band, direct, acked, buried} \subseteq SUBSET Id
    /\ band \cap (direct \cup acked \cup buried) = {} /\ acked \cap buried = {}
    /\ times \in [Id -> Nat]

\* What a sink does not name, with no error for the call, was applied: commits
\* (and a nil of Write) only follow the store.  This is what FlushEngine takes
\* a sink to do ("The engine never infers success", README.md:615).
AckedIsApplied == \A i \in acked : times[i] > 0

\* Only rows the store will never take are dead-lettered.  The exceptions of the code are
\* a row whose printed key an earlier row has, be it of the same document or not; a
\* column set that is not the first row's; and, of a row's own write, an error of shard
\* or network in DocumentDB, and a failed PutItem of DynamoDB's fallback.
Outdone(i) ==
    \/ backend # "docdb" /\ \E j \in Plain(Id) : j < i /\ row[j].key = row[i].key
    \/ backend = "postgres" /\ \E j \in Plain(Id) : j < i /\ row[j].cols # row[i].cols
    \/ backend # "postgres" /\ i \in struck

OnlyBadRowsBuried == \A i \in buried : ~Storable(i) \/ Outdone(i)

\* Rows that fail the whole call for ever: the sink does not map the error to a row.
Unmapped(i) ==
    \/ backend = "docdb" /\ row[i].form # "good"
    \/ backend = "dynamodb" /\ i \in Plain(Id) /\ row[i].refuses = "unlisted"
    \/ backend = "postgres" /\ i \in Plain(Id) /\ row[i].form = "uncoded"

Mapped == /\ \A i \in Id : ~Unmapped(i)
          /\ backend = "postgres" => ~Crowded(Plain(Id))

\* A row is applied a second time only after a fault: no mix of refused, odd and good
\* rows makes a sink run an UpdateMany again that it has run.  But where the sink cannot
\* map an error, and fails the call, it does so every flush.
AgainOnlyAfterFault == Mapped => \A i \in Id : times[i] \leq 1 + faults

\* Rows that can be transient errors for ever: an unlisted refusal, and in Postgres a
\* value that pgx cannot encode.
Poison(i) ==
    /\ row[i].form # "odd"
    /\ \/ backend # "dynamodb" /\ row[i].refuses = "unlisted"
       \/ backend = "postgres" /\ row[i].form = "uncoded"

\* A band without such rows is flushed to the end, whatever else is in it.
BandDrains == Mapped /\ (\A i \in Id : ~Poison(i)) => <>(band = {})

\* README.md:484: one poison record never stalls its band; the rest of the batch
\* commits.
PoisonNeverStalls == \A i \in 1..MaxRows : <>(i \in Id /\ Storable(i) => i \notin band)
=============================================================================
