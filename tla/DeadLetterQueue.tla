--------------------------- MODULE DeadLetterQueue ---------------------------
(***************************************************************************)
(* The dead-letter processor (internal/dlq/dlq.go over DrainDLQ and        *)
(* CommitDLQKeys of shield.go) beside the flush engine of the same band.   *)
(*                                                                         *)
(* A worker is one call of Process: the ticker of a pod that has           *)
(* WithDLQAutoProcess, or an operator's ProcessDLQ.  It loops over batches *)
(* of dead letters; nothing keeps writers, flush cycles and other workers  *)
(* off the keys of its batch.                                              *)
(***************************************************************************)
EXTENDS FlushEngine

CONSTANTS
    Worker,      \* concurrent calls of Process
    Strategy,    \* strategies they are called with
    MaxDead,     \* Config.MaxBatchSize of the processor
    Quiesced     \* nobody writes a key that is dead-lettered or being handled

ASSUME WorkerAssumption ==
    /\ Strategy \subseteq {"ignore", "upsert", "reinsert"}
    /\ MaxDead \in Nat \ {0}
    /\ Quiesced \in BOOLEAN

VARIABLES
    wpc,       \* where each worker is in processBand
    strategy,  \* the strategy of its call
    wstage,    \* what it has done with each key of its batch
    wP,        \* payload DrainDLQ returned
    \* History, read by no action.
    requeued,  \* payloads journaled under a mutated key
    discarded, \* payloads logged and ignored
    lapsed     \* keys removed because their payload was gone

workers == <<wpc, strategy, wstage, wP>>
outcome == <<requeued, discarded, lapsed>>
dlqVars == <<vars, workers, outcome>>

DlqInit ==
    /\ Init
    /\ wpc = [w \in Worker |-> "idle"]
    /\ strategy = [w \in Worker |-> "none"]
    /\ wstage = [w \in Worker |-> Blank]
    /\ wP = [w \in Worker |-> Zeros]
    /\ requeued = {} /\ discarded = {} /\ lapsed = {}

Engine == <<cycle, score, written, evicted, reports>>

-----------------------------------------------------------------------------
(* DrainDLQ.                                                               *)

\* The batch is over: on to the next one, or back to the caller of Process.
NextBatch(w) ==
    /\ wpc' = [wpc EXCEPT ![w] = "next"]
    /\ wstage' = [wstage EXCEPT ![w] = Blank]
    /\ wP' = [wP EXCEPT ![w] = Zeros]
    /\ UNCHANGED strategy

Return(w) ==
    /\ wpc' = [wpc EXCEPT ![w] = "idle"]
    /\ wstage' = [wstage EXCEPT ![w] = Blank]
    /\ wP' = [wP EXCEPT ![w] = Zeros]
    /\ strategy' = [strategy EXCEPT ![w] = "none"]

\* A batch of dead letters; the failure times that order them are not modelled.
DeadBatch ==
    {B \in SUBSET dlq : Cardinality(B) <= MaxDead /\ (B = dlq \/ Cardinality(B) = MaxDead)}

\* ZRANGEBYSCORE: the first batch of a call, or the next one of its loop.
ScanDead(w, s) ==
    /\ \/ wpc[w] = "idle"
       \/ wpc[w] = "next" /\ s = strategy[w]
    /\ dlq # {}
    /\ \E B \in DeadBatch :
         wstage' = [wstage EXCEPT ![w] =
                      [k \in Key |-> IF k \in B THEN "scanned" ELSE "none"]]
    /\ wpc' = [wpc EXCEPT ![w] = "drain"]
    /\ strategy' = [strategy EXCEPT ![w] = s]
    /\ UNCHANGED <<vars, wP, outcome>>

\* The loop finds the set empty and Process returns.
EndOfQueue(w) ==
    /\ wpc[w] = "next"
    /\ dlq = {}
    /\ Return(w)
    /\ UNCHANGED <<vars, outcome>>

\* One HMGET p ts of the pipeline: no sequence is read.
ReadDead(w, k) ==
    /\ wstage[w][k] = "scanned"
    /\ wstage' = [wstage EXCEPT ![w][k] = "read"]
    /\ wP' = [wP EXCEPT ![w][k] = payload[k]]
    /\ UNCHANGED <<vars, wpc, strategy, outcome>>

\* Every key of the batch is past the stages S.
Past(w, S) == \A k \in Key : wstage[w][k] \notin S

\* Mutant: keys without a payload are records too.
CollectEverything(w) ==
    /\ wpc[w] = "drain"
    /\ Past(w, {"scanned"})
    /\ wpc' = [wpc EXCEPT ![w] = "handle"]
    /\ UNCHANGED <<vars, strategy, wstage, wP, outcome>>

\* drainAction: keys without a payload leave the set (an error is ignored), the
\* others are the records; Process returns when there are none.
Collect(w) ==
    LET gone == {k \in Key : wstage[w][k] = "read" /\ wP[w][k] = Missing}
        live == {k \in Key : wstage[w][k] = "read" /\ wP[w][k] # Missing} IN
    /\ wpc[w] = "drain"
    /\ Past(w, {"scanned"})
    /\ \/ dlq' = dlq \ gone /\ lapsed' = lapsed \union gone
       \/ gone # {} /\ UNCHANGED <<dlq, lapsed>>
    /\ \/ /\ live # {}
          /\ wpc' = [wpc EXCEPT ![w] = "handle"]
          /\ wstage' = [wstage EXCEPT ![w] =
                          [k \in Key |-> IF k \in live THEN "read" ELSE "none"]]
          /\ UNCHANGED <<strategy, wP>>
       \/ /\ live = {}
          /\ Return(w)
    /\ UNCHANGED <<payload, seq, expiring, dirty, store, Engine, requeued, discarded>>

-----------------------------------------------------------------------------
(* The strategies.                                                         *)

\* Mutant: handleIgnore logs the records and keeps them.
IgnoreAndKeep(w) ==
    /\ wpc[w] = "handle" /\ strategy[w] = "ignore"
    /\ wpc' = [wpc EXCEPT ![w] = "next"]
    /\ UNCHANGED <<vars, strategy, wstage, wP, outcome>>

\* handleIgnore: log every record, then commit them all.
HandleIgnore(w) ==
    /\ wpc[w] = "handle" /\ strategy[w] = "ignore"
    /\ wpc' = [wpc EXCEPT ![w] = "commit"]
    /\ wstage' = [wstage EXCEPT ![w] =
                    [k \in Key |-> IF wstage[w][k] = "read" THEN "commit" ELSE wstage[w][k]]]
    /\ discarded' = discarded \union {<<k, wP[w][k]>> : k \in {j \in Key : wstage[w][j] = "read"}}
    /\ UNCHANGED <<vars, strategy, wP, requeued, lapsed>>

\* handleUpsert: the contract builds a model, or gives up on the record, which
\* stays where it is.
UpsertContract(w, k) ==
    /\ wpc[w] = "handle" /\ strategy[w] = "upsert"
    /\ wstage[w][k] = "read"
    /\ \E outcomeOfContract \in {"model", "none"} :
         wstage' = [wstage EXCEPT ![w][k] = outcomeOfContract]
    /\ UNCHANGED <<vars, wpc, strategy, wP, outcome>>

\* No model at all: back to the loop.
StartUpsert(w) ==
    /\ wpc[w] = "handle" /\ strategy[w] = "upsert"
    /\ Past(w, {"read"})
    /\ \/ /\ ~Past(w, {"model"})
          /\ wpc' = [wpc EXCEPT ![w] = "bulkwrite"]
          /\ UNCHANGED <<strategy, wstage, wP>>
       \/ /\ Past(w, {"model"})
          /\ NextBatch(w)
    /\ UNCHANGED <<vars, outcome>>

SinkUpserts(w, k) ==
    /\ wpc[w] = "bulkwrite"
    /\ wstage[w][k] = "model"
    /\ Apply(k, wP[w][k])
    /\ wstage' = [wstage EXCEPT ![w][k] = "applied"]
    /\ UNCHANGED <<journal, late, cycle, written, evicted, reports, wpc, strategy, wP, outcome>>

Batch(w) ==
    [k \in Key |-> IF wstage[w][k] \in {"model", "applied"} THEN wstage[w][k] ELSE "none"]

\* Mutant: every record of the batch is a success.
SucceedAll(w, r) == {k \in Key : Batch(w)[k] # "none"}

\* successKeys: the records no error names.
Succeeded(w, r) == {k \in Key : Batch(w)[k] # "none" /\ r.class[k] = "none"}

\* The result of BulkWrite; an unattributed error ends the call.
UpsertReturns(w, r) ==
    /\ wpc[w] = "bulkwrite"
    /\ SinkReports(Batch(w), r)
    /\ \/ /\ CheckAttribution(r) /\ Succeeded(w, r) # {}
          /\ wstage' = [wstage EXCEPT ![w] =
                [k \in Key |-> IF k \in Succeeded(w, r) THEN "commit" ELSE "none"]]
          /\ wpc' = [wpc EXCEPT ![w] = "commit"]
          /\ UNCHANGED <<strategy, wP>>
       \/ /\ CheckAttribution(r) /\ Succeeded(w, r) = {}
          /\ NextBatch(w)
       \/ /\ ~CheckAttribution(r)
          /\ Return(w)
    /\ UNCHANGED <<vars, outcome>>

\* handleReInsert: Shield.Write of the payload under the mutated key (a fresh
\* one: another key, maybe of another band), or an error of it.
ReInsert(w, k) ==
    /\ wpc[w] = "handle" /\ strategy[w] = "reinsert"
    /\ wstage[w][k] = "read"
    /\ \/ /\ requeued' = requeued \union {<<k, wP[w][k]>>}
          /\ wstage' = [wstage EXCEPT ![w][k] = "commit"]
       \/ /\ wstage' = [wstage EXCEPT ![w][k] = "none"]
          /\ UNCHANGED requeued
    /\ UNCHANGED <<vars, wpc, strategy, wP, discarded, lapsed>>

CommitReInserted(w) ==
    /\ wpc[w] = "handle" /\ strategy[w] = "reinsert"
    /\ Past(w, {"read"})
    /\ \/ /\ ~Past(w, {"commit"})
          /\ wpc' = [wpc EXCEPT ![w] = "commit"]
          /\ UNCHANGED <<strategy, wstage, wP>>
       \/ /\ Past(w, {"commit"})
          /\ NextBatch(w)
    /\ UNCHANGED <<vars, outcome>>

-----------------------------------------------------------------------------
(* CommitDLQKeys: a plain pipeline, no script and no comparison.           *)

\* DEL of the payload hash.
DeletePayload(w, k) ==
    /\ wpc[w] = "commit"
    /\ wstage[w][k] = "commit"
    /\ DropHash(k)
    /\ wstage' = [wstage EXCEPT ![w][k] = "deleted"]
    /\ UNCHANGED <<store, cycle, written, evicted, reports, wpc, strategy, wP, outcome>>

\* ZREM of the whole batch; the loop goes on.
RemoveDead(w) ==
    /\ wpc[w] = "commit"
    /\ Past(w, {"commit"})
    /\ dlq' = dlq \ {k \in Key : wstage[w][k] = "deleted"}
    /\ NextBatch(w)
    /\ UNCHANGED <<payload, seq, expiring, dirty, store, Engine, outcome>>

\* An error of Redis or of the sink, a cancelled context or a crash ends the
\* call wherever it is.
Abort(w) ==
    /\ wpc[w] # "idle"
    /\ late' = late \union
         {<<k, wP[w][k]>> : k \in {j \in Key : LateWrites /\ wpc[w] = "bulkwrite"
                                                      /\ wstage[w][j] = "model"}}
    /\ Return(w)
    /\ UNCHANGED <<journal, sink, stored, cycle, written, evicted, reports, outcome>>

-----------------------------------------------------------------------------
\* A step of the flush engine, of a writer or of Redis.
EngineStep ==
    /\ Next
    /\ Quiesced => \A k \in Key :
         k \in dlq \/ (\E w \in Worker : wstage[w][k] # "none") => written'[k] = written[k]
    /\ UNCHANGED <<workers, outcome>>

Process(w) ==
    \/ \E s \in Strategy : ScanDead(w, s)
    \/ EndOfQueue(w)
    \/ \E k \in Key :
        \/ ReadDead(w, k)
        \/ UpsertContract(w, k)
        \/ SinkUpserts(w, k)
        \/ ReInsert(w, k)
        \/ DeletePayload(w, k)
    \/ Collect(w)
    \/ HandleIgnore(w)
    \/ StartUpsert(w)
    \/ \E r \in Report : UpsertReturns(w, r)
    \/ CommitReInserted(w)
    \/ RemoveDead(w)

DlqNext == EngineStep \/ \E w \in Worker : Process(w) \/ Abort(w)

DlqSpec == DlqInit /\ [][DlqNext]_dlqVars

\* The flush engine and the loop of a call that has begun both keep going.
DlqFairSpec ==
    /\ DlqSpec
    /\ \A f \in Pod : WF_dlqVars(FlushBand(f) /\ EngineStep)
    /\ \A w \in Worker : WF_dlqVars(wpc[w] # "idle" /\ Process(w))

-----------------------------------------------------------------------------
(* Properties.                                                             *)

\* The variables of the processor have their types.
DlqTypeOK ==
    /\ TypeOK
    /\ wpc \in [Worker -> {"idle", "next", "drain", "handle", "bulkwrite", "commit"}]
    /\ strategy \in [Worker -> {"none", "ignore", "upsert", "reinsert"}]
    /\ wstage \in [Worker -> [Key -> {"none", "scanned", "read", "model", "applied",
                                      "commit", "deleted"}]]
    /\ wP \in [Worker -> [Key -> 0..MaxWrites]]
    /\ requeued \subseteq Key \X Payload /\ discarded \subseteq Key \X Payload
    /\ lapsed \subseteq Key

\* README.md "Recover": a dead letter is logged and discarded, upserted or
\* re-enqueued before it is removed; README.md:519: "acknowledged data is never
\* silently lost".  A key that is neither dirty nor dead-lettered has its latest
\* write in the store now, re-enqueued or discarded, and no replay of an older
\* one has put the store back; or its dead-letter TTL ran out before the replay.
ReplayedIsLatest ==
    \A k \in Key \ (dirty \union dlq \union evicted \union lapsed) :
        \/ sink[k] = written[k]
        \/ <<k, written[k]>> \in requeued \union discarded

\* A dead letter the processor cannot handle this time.
Refusal(w) ==
    \/ Abort(w)
    \/ \E k \in Key :
        /\ UpsertContract(w, k) \/ ReInsert(w, k)
        /\ wstage'[w][k] = "none"
    \/ \E r \in Report :
        /\ r.anonymous \/ \E k \in Key : r.class[k] # "none"
        /\ UpsertReturns(w, r)

\* Process returns, with writers and flush cycles feeding the dead-letter set
\* meanwhile, once the store and the contract accept what it replays.  (While
\* they refuse a record for good, the Upsert loop reads it again without end.)
RunEnds ==
    \A w \in Worker : <>[][~Refusal(w)]_dlqVars => (wpc[w] # "idle" ~> wpc[w] = "idle")
=============================================================================
