--------------------------- MODULE DeadLetterProofs ---------------------------
(***************************************************************************)
(* Proofs, for any keys, pods, workers, strategies and batch sizes, about  *)
(* the dead-letter processor beside the flush engine.  The engine's steps  *)
(* are those FlushEngineProofs speaks of; what is to be shown here is what *)
(* the workers do to the keys they have in hand.                           *)
(***************************************************************************)
EXTENDS DeadLetterQueue, FlushOnePodProofs

\* What a worker has in hand at each stage, and where it may be when it does.
HandType ==
    \A w \in Worker, k \in Key :
        /\ wstage[w][k] \in {"model", "applied", "commit", "deleted"} => wP[w][k] # Missing
        /\ wstage[w][k] = "scanned" => wpc[w] = "drain"
        /\ wpc[w] = "handle" /\ wstage[w][k] = "read" => wP[w][k] # Missing

DlqTypeInv == DlqTypeOK /\ HandType

\* A dead letter, and what a worker has in hand, is not to be flushed as well.
QuietInv ==
    /\ dirty \cap dlq = {}
    /\ \A w \in Worker, k \in Key : wstage[w][k] # "none" => k \notin dirty

PersistInv == DlqTypeInv /\ UnflushedPersists /\ QuietInv

\* The latest write of k is in the store, re-enqueued or discarded.
Settled(k) == sink[k] = written[k] \/ <<k, written[k]>> \in requeued \union discarded

\* What a worker has read is the latest write, and what it is about to remove has
\* been settled.
HandInv ==
    \A w \in Worker, k \in Key :
        /\ wstage[w][k] \notin {"none", "scanned"} => wP[w][k] \in {Missing, written[k]}
        /\ wstage[w][k] = "applied" => sink[k] = written[k]
        /\ wstage[w][k] \in {"commit", "deleted"} => Settled(k)

ReplayInv == PodInv /\ DlqTypeInv /\ QuietInv /\ HandInv /\ ReplayedIsLatest

-----------------------------------------------------------------------------
(* The steps of the workers.                                               *)

\* A worker takes dead letters out of the set, drops hashes and applies documents;
\* it leaves the dirty set and the flush cycles alone.
LEMMA WorkerSteps ==
    ASSUME NEW w \in Worker, Process(w) \/ Abort(w)
    PROVE  /\ UNCHANGED <<cycle, score, dirty, written, evicted, reports>>
           /\ dlq' \subseteq dlq
           /\ late' = late \/ Abort(w)
           /\ UNCHANGED <<payload, seq, expiring>> \/ \E k \in Key : DeletePayload(w, k)
           /\ UNCHANGED <<sink, stored>> \/ \E k \in Key : SinkUpserts(w, k)
  <1>. USE DEF journal, store, vars
  <1>1. CASE \E s \in Strategy : ScanDead(w, s)
    BY <1>1 DEF ScanDead
  <1>2. CASE EndOfQueue(w)
    BY <1>2 DEF EndOfQueue
  <1>3. ASSUME NEW k \in Key, ReadDead(w, k) \/ UpsertContract(w, k) \/ ReInsert(w, k)
        PROVE  UNCHANGED vars
    BY <1>3 DEF ReadDead, UpsertContract, ReInsert
  <1>4. CASE Collect(w)
    BY <1>4 DEF Collect, Engine
  <1>5. CASE HandleIgnore(w) \/ StartUpsert(w) \/ CommitReInserted(w)
    BY <1>5 DEF HandleIgnore, StartUpsert, CommitReInserted
  <1>6. CASE \E k \in Key : SinkUpserts(w, k)
    BY <1>6 DEF SinkUpserts
  <1>7. CASE \E r \in Report : UpsertReturns(w, r)
    BY <1>7 DEF UpsertReturns
  <1>8. CASE \E k \in Key : DeletePayload(w, k)
    BY <1>8 DEF DeletePayload, DropHash
  <1>9. CASE RemoveDead(w)
    BY <1>9 DEF RemoveDead, Engine
  <1>10. CASE Abort(w)
    BY <1>10 DEF Abort
  <1>. QED
    BY <1>1, <1>2, <1>3, <1>4, <1>5, <1>6, <1>7, <1>8, <1>9, <1>10 DEF Process

-----------------------------------------------------------------------------
(* Type correctness.                                                       *)

LEMMA WorkerTypeOK ==
    ASSUME DlqTypeInv, NEW w \in Worker, Process(w) \/ Abort(w)
    PROVE  TypeOK'
  <1>. USE DEF DlqTypeInv, DlqTypeOK
  <1>1. /\ cycle' = cycle /\ UNCHANGED <<score, dirty, written, evicted, reports>>
        /\ dlq' \subseteq dlq
    BY WorkerSteps
  <1>2. /\ payload' \in [Key -> 0..MaxWrites] /\ seq' \in [Key -> Nat]
        /\ expiring' \in [Key -> BOOLEAN]
    <2>1. ASSUME NEW k \in Key, DeletePayload(w, k)
          PROVE  /\ payload' \in [Key -> 0..MaxWrites] /\ seq' \in [Key -> Nat]
                 /\ expiring' \in [Key -> BOOLEAN]
      BY <2>1, BandAssumption DEF DeletePayload, DropHash, TypeOK, Missing
    <2>. QED BY <2>1, WorkerSteps DEF TypeOK
  <1>3. /\ sink' \in [Key -> 0..MaxWrites] /\ stored' \in [Key -> SUBSET (0..MaxWrites)]
    <2>1. ASSUME NEW k \in Key, SinkUpserts(w, k)
          PROVE  /\ sink' \in [Key -> 0..MaxWrites] /\ stored' \in [Key -> SUBSET (0..MaxWrites)]
      <3>1. wP[w][k] \in 0..MaxWrites
        OBVIOUS
      <3>. QED BY <2>1, <3>1 DEF SinkUpserts, Apply, TypeOK
    <2>. QED BY <2>1, WorkerSteps DEF TypeOK
  <1>4. late' \in SUBSET (Key \X (0..MaxWrites))
    <2>1. CASE late' = late
      BY <2>1 DEF TypeOK
    <2>2. CASE Abort(w)
      <3>1. \A k \in Key : <<k, wP[w][k]>> \in Key \X (0..MaxWrites)
        OBVIOUS
      <3>. QED BY <2>2, <3>1 DEF Abort, TypeOK
    <2>. QED BY <2>1, <2>2, WorkerSteps
  <1>. QED BY <1>1, <1>2, <1>3, <1>4 DEF TypeOK, cycle, reports

\* The types and the stages of what a worker has in hand.
WorkType ==
    /\ wpc \in [Worker -> {"idle", "next", "drain", "handle", "bulkwrite", "commit"}]
    /\ strategy \in [Worker -> {"none", "ignore", "upsert", "reinsert"}]
    /\ wstage \in [Worker -> [Key -> {"none", "scanned", "read", "model", "applied",
                                      "commit", "deleted"}]]
    /\ wP \in [Worker -> [Key -> 0..MaxWrites]]
    /\ HandType

\* A worker that is through with a batch holds nothing of it any more.
LEMMA LetsGo ==
    ASSUME NEW w \in Worker, NextBatch(w) \/ Return(w)
    PROVE  /\ wstage' = [wstage EXCEPT ![w] = Blank]
           /\ wP' = [wP EXCEPT ![w] = Zeros]
           /\ \E x \in {"idle", "next"} : wpc' = [wpc EXCEPT ![w] = x]
           /\ strategy' = strategy \/ strategy' = [strategy EXCEPT ![w] = "none"]
  BY DEF NextBatch, Return

LEMMA LetsGoWorkType ==
    ASSUME WorkType, NEW w \in Worker, NextBatch(w) \/ Return(w)
    PROVE  WorkType'
  <1>1. 0 \in 0..MaxWrites
    BY BandAssumption
  <1>2. /\ Blank \in [Key -> {"none", "scanned", "read", "model", "applied", "commit", "deleted"}]
        /\ Zeros \in [Key -> 0..MaxWrites]
    BY <1>1 DEF Blank, Zeros
  <1>a. wstage' = [wstage EXCEPT ![w] = Blank] /\ wP' = [wP EXCEPT ![w] = Zeros]
    BY LetsGo
  <1>3. PICK x \in {"idle", "next"} : wpc' = [wpc EXCEPT ![w] = x]
    BY LetsGo
  <1>4. ASSUME NEW v \in Worker, v # w
        PROVE  wstage'[v] = wstage[v] /\ wP'[v] = wP[v] /\ wpc'[v] = wpc[v]
    BY <1>3, <1>4, <1>a DEF WorkType
  <1>5. wstage'[w] = Blank
    BY LetsGo DEF WorkType
  <1>6. HandType'
    <2>. SUFFICES ASSUME NEW v \in Worker, NEW k \in Key
                  PROVE  /\ wstage'[v][k] \in {"model", "applied", "commit", "deleted"} => wP'[v][k] # Missing
                         /\ wstage'[v][k] = "scanned" => wpc'[v] = "drain"
                         /\ wpc'[v] = "handle" /\ wstage'[v][k] = "read" => wP'[v][k] # Missing
      BY DEF HandType
    <2>1. CASE v = w
      BY <1>5, <2>1 DEF Blank
    <2>2. CASE v # w
      BY <1>4, <2>2 DEF WorkType, HandType
    <2>. QED BY <2>1, <2>2
  <1>7. strategy' \in [Worker -> {"none", "ignore", "upsert", "reinsert"}]
    BY LetsGo DEF WorkType
  <1>8. wpc' \in [Worker -> {"idle", "next", "drain", "handle", "bulkwrite", "commit"}]
    BY <1>3 DEF WorkType
  <1>9. /\ wstage' \in [Worker -> [Key -> {"none", "scanned", "read", "model", "applied",
                                         "commit", "deleted"}]]
        /\ wP' \in [Worker -> [Key -> 0..MaxWrites]]
    BY <1>2, <1>a DEF WorkType
  <1>. QED BY <1>6, <1>7, <1>8, <1>9 DEF WorkType

LEMMA WorkerWorkType ==
    ASSUME DlqTypeInv, NEW w \in Worker, Process(w) \/ Abort(w)
    PROVE  WorkType'
  <1>0. WorkType /\ payload \in [Key -> 0..MaxWrites] /\ 0 \in 0..MaxWrites
    BY BandAssumption DEF DlqTypeInv, DlqTypeOK, WorkType, TypeOK
  <1>. USE DEF WorkType, HandType
  <1>1. ASSUME NEW s \in Strategy, ScanDead(w, s) PROVE WorkType'
    <2>1. PICK B \in DeadBatch : wstage' = [wstage EXCEPT ![w] =
                                    [k \in Key |-> IF k \in B THEN "scanned" ELSE "none"]]
      BY <1>1 DEF ScanDead
    <2>. QED BY <1>0, <1>1, <2>1, WorkerAssumption DEF ScanDead
  <1>2. CASE NextBatch(w) \/ Return(w)
    BY <1>0, <1>2, LetsGoWorkType
  <1>3. ASSUME NEW k \in Key, ReadDead(w, k) PROVE WorkType'
    <2>1. wpc[w] = "drain"
      BY <1>0, <1>3 DEF ReadDead
    <2>. QED BY <1>0, <1>3, <2>1 DEF ReadDead
  <1>4. CASE Collect(w)
    <2>1. CASE /\ wstage' = [wstage EXCEPT ![w] =
                 [k \in Key |-> IF wstage[w][k] = "read" /\ wP[w][k] # Missing THEN "read" ELSE "none"]]
               /\ wP' = wP /\ strategy' = strategy
               /\ wpc' = [wpc EXCEPT ![w] = "handle"]
      BY <1>0, <2>1
    <2>. QED BY <1>2, <1>4, <2>1 DEF Collect
  <1>5. CASE HandleIgnore(w)
    BY <1>0, <1>5 DEF HandleIgnore
  <1>6. ASSUME NEW k \in Key, UpsertContract(w, k) \/ ReInsert(w, k) PROVE WorkType'
    <2>1. PICK x \in {"model", "none", "commit"} : wstage' = [wstage EXCEPT ![w][k] = x]
      BY <1>6 DEF UpsertContract, ReInsert
    <2>2. wpc[w] = "handle" /\ wstage[w][k] = "read" /\ UNCHANGED <<wpc, strategy, wP>>
      BY <1>6 DEF UpsertContract, ReInsert
    <2>. QED BY <1>0, <2>1, <2>2
  <1>7. CASE StartUpsert(w) \/ CommitReInserted(w)
    <2>1. CASE /\ UNCHANGED <<wstage, strategy, wP>>
               /\ \E x \in {"bulkwrite", "commit"} : wpc' = [wpc EXCEPT ![w] = x]
      <3>1. wpc[w] = "handle"
        BY <1>7 DEF StartUpsert, CommitReInserted
      <3>. QED BY <1>0, <2>1, <3>1
    <2>. QED BY <1>2, <1>7, <2>1 DEF StartUpsert, CommitReInserted
  <1>8. ASSUME NEW k \in Key, SinkUpserts(w, k) \/ DeletePayload(w, k) PROVE WorkType'
    <2>1. wstage[w][k] \in {"model", "commit"} /\ UNCHANGED <<wpc, strategy, wP>>
      BY <1>8 DEF SinkUpserts, DeletePayload
    <2>2. PICK x \in {"applied", "deleted"} : wstage' = [wstage EXCEPT ![w][k] = x]
      BY <1>8 DEF SinkUpserts, DeletePayload
    <2>. QED BY <1>0, <2>1, <2>2
  <1>9. ASSUME NEW r \in Report, UpsertReturns(w, r) PROVE WorkType'
    <2>1. CASE /\ wstage' = [wstage EXCEPT ![w] =
                     [k \in Key |-> IF k \in Succeeded(w, r) THEN "commit" ELSE "none"]]
               /\ wpc' = [wpc EXCEPT ![w] = "commit"]
               /\ UNCHANGED <<strategy, wP>>
      <3>1. \A k \in Succeeded(w, r) : wP[w][k] # Missing
        BY <1>0 DEF Succeeded, Batch
      <3>. QED BY <1>0, <2>1, <3>1
    <2>. QED BY <1>2, <1>9, <2>1 DEF UpsertReturns
  <1>10. CASE EndOfQueue(w) \/ RemoveDead(w) \/ Abort(w)
    BY <1>2, <1>10 DEF EndOfQueue, RemoveDead, Abort
  <1>. QED
    BY <1>1, <1>3, <1>4, <1>5, <1>6, <1>7, <1>8, <1>9, <1>10 DEF Process

LEMMA WorkerOutcome ==
    ASSUME DlqTypeInv, NEW w \in Worker, Process(w) \/ Abort(w)
    PROVE  /\ requeued' \subseteq Key \X Payload /\ discarded' \subseteq Key \X Payload
           /\ lapsed' \subseteq Key
           /\ requeued \subseteq requeued' /\ discarded \subseteq discarded' /\ lapsed \subseteq lapsed'
  <1>. USE DEF DlqTypeInv, DlqTypeOK
  <1>1. ASSUME NEW k \in Key, wpc[w] = "handle", wstage[w][k] = "read"
        PROVE  <<k, wP[w][k]>> \in Key \X Payload
    <2>1. wP[w][k] \in Payload
      BY <1>1 DEF HandType, Payload, Missing
    <2>. QED BY <2>1
  <1>2. CASE HandleIgnore(w)
    BY <1>1, <1>2 DEF HandleIgnore
  <1>3. ASSUME NEW k \in Key, ReInsert(w, k)
        PROVE  /\ requeued' \subseteq Key \X Payload /\ requeued \subseteq requeued'
               /\ UNCHANGED <<discarded, lapsed>>
    BY <1>1, <1>3 DEF ReInsert
  <1>4. CASE Collect(w)
    BY <1>4 DEF Collect
  <1>5. CASE UNCHANGED outcome
    BY <1>5 DEF outcome
  <1>6. ASSUME NEW k \in Key,
               ReadDead(w, k) \/ UpsertContract(w, k) \/ SinkUpserts(w, k) \/ DeletePayload(w, k)
        PROVE  UNCHANGED outcome
    BY <1>6 DEF ReadDead, UpsertContract, SinkUpserts, DeletePayload
  <1>7. ASSUME \/ \E s \in Strategy : ScanDead(w, s)
               \/ \E r \in Report : UpsertReturns(w, r)
               \/ EndOfQueue(w) \/ StartUpsert(w) \/ CommitReInserted(w) \/ RemoveDead(w) \/ Abort(w)
        PROVE  UNCHANGED outcome
    BY <1>7 DEF ScanDead, UpsertReturns, EndOfQueue, StartUpsert, CommitReInserted, RemoveDead, Abort
  <1>. QED BY <1>2, <1>3, <1>4, <1>5, <1>6, <1>7 DEF Process

LEMMA InitDlqTypeInv == DlqInit => DlqTypeInv
  BY InitTypeOK, BandAssumption DEF DlqInit, DlqTypeInv, DlqTypeOK, HandType, Blank, Zeros

LEMMA StepDlqTypeInv ==
    ASSUME DlqTypeInv, [DlqNext]_dlqVars
    PROVE  DlqTypeInv'
  <1>1. ASSUME NEW w \in Worker, Process(w) \/ Abort(w) PROVE DlqTypeInv'
    BY <1>1, WorkerTypeOK, WorkerWorkType, WorkerOutcome DEF DlqTypeInv, DlqTypeOK, WorkType
  <1>2. ASSUME [Next]_vars, UNCHANGED <<workers, outcome>> PROVE DlqTypeInv'
    <2>1. TypeOK'
      BY <1>2, StepTypeOK DEF DlqTypeInv, DlqTypeOK
    <2>. QED BY <1>2, <2>1 DEF DlqTypeInv, DlqTypeOK, HandType, workers, outcome
  <1>. QED BY <1>1, <1>2 DEF DlqNext, EngineStep, dlqVars

\* dlq.go:100-270 beside flush_engine.go: whatever workers and pods do to each other's
\* keys, only payloads are re-enqueued or logged, never the blank a worker read of a
\* hash that was gone.
THEOREM DlqTypeCorrect == DlqSpec => []DlqTypeOK
  <1>1. DlqTypeInv /\ [DlqNext]_dlqVars => DlqTypeInv'
    BY StepDlqTypeInv
  <1>2. DlqTypeInv => DlqTypeOK
    BY DEF DlqTypeInv
  <1>. QED BY <1>1, <1>2, InitDlqTypeInv, PTL DEF DlqSpec

-----------------------------------------------------------------------------
(* What a worker does to one key.                                          *)

\* The key is let go, kept as it is, or goes one stage further.
HandStep(v, j) ==
    \/ wstage'[v][j] = "none"
    \/ wstage'[v][j] = wstage[v][j] /\ wP'[v][j] = wP[v][j]
    \/ wstage'[v][j] = "scanned" /\ j \in dlq
    \/ wstage[v][j] = "scanned" /\ wstage'[v][j] = "read" /\ wP'[v][j] = payload[j]
    \/ /\ wstage[v][j] \notin {"none", "scanned"} /\ wP'[v][j] = wP[v][j]
       /\ \/ wstage'[v][j] = "model"
          \/ wstage'[v][j] = "applied" /\ SinkUpserts(v, j)
          \/ /\ wstage'[v][j] = "commit"
             /\ \/ wstage[v][j] = "applied" \/ Misattribution
                \/ <<j, wP[v][j]>> \in requeued' \union discarded'
          \/ wstage[v][j] = "commit" /\ wstage'[v][j] = "deleted"

\* A record that no error names was applied.
LEMMA SucceededIsApplied ==
    ASSUME ~Misattribution, NEW w \in Worker, NEW r \in Report, CheckAttribution(r),
           SinkReports(Batch(w), r), NEW j \in Succeeded(w, r)
    PROVE  wstage[w][j] = "applied"
  BY DEF SinkReports, CheckAttribution, Succeeded, Batch

LEMMA HandSteps ==
    ASSUME DlqTypeInv, NEW w \in Worker, Process(w) \/ Abort(w), NEW v \in Worker, NEW j \in Key
    PROVE  HandStep(v, j)
  <1>0. /\ wstage \in [Worker -> [Key -> {"none", "scanned", "read", "model", "applied",
                                        "commit", "deleted"}]]
        /\ wP \in [Worker -> [Key -> 0..MaxWrites]]
    BY DEF DlqTypeInv, DlqTypeOK
  <1>. USE DEF HandStep
  <1>1. CASE \E s \in Strategy : ScanDead(w, s)
    <2>1. PICK B \in DeadBatch : /\ wstage' = [wstage EXCEPT ![w] =
                                     [k \in Key |-> IF k \in B THEN "scanned" ELSE "none"]]
                                 /\ wP' = wP
      BY <1>1 DEF ScanDead
    <2>. QED BY <1>0, <2>1 DEF DeadBatch
  <1>a. CASE NextBatch(w) \/ Return(w)
    BY <1>0, <1>a, LetsGo DEF Blank
  <1>2. CASE EndOfQueue(w) \/ RemoveDead(w) \/ Abort(w)
    BY <1>a, <1>2 DEF EndOfQueue, RemoveDead, Abort
  <1>3. ASSUME NEW k \in Key, ReadDead(w, k) PROVE HandStep(v, j)
    BY <1>0, <1>3 DEF ReadDead
  <1>4. CASE Collect(w)
    <2>1. CASE /\ wstage' = [wstage EXCEPT ![w] =
                 [k \in Key |-> IF wstage[w][k] = "read" /\ wP[w][k] # Missing THEN "read" ELSE "none"]]
               /\ wP' = wP
      BY <1>0, <2>1
    <2>. QED BY <1>a, <1>4, <2>1 DEF Collect
  <1>5. CASE HandleIgnore(w)
    <2>1. wstage[w][j] = "read" => <<j, wP[w][j]>> \in discarded'
      BY <1>5 DEF HandleIgnore
    <2>2. wstage' = [wstage EXCEPT ![w] =
                 [k \in Key |-> IF wstage[w][k] = "read" THEN "commit" ELSE wstage[w][k]]]
          /\ wP' = wP
      BY <1>5 DEF HandleIgnore
    <2>. QED BY <1>0, <2>1, <2>2
  <1>6. ASSUME NEW k \in Key, UpsertContract(w, k) PROVE HandStep(v, j)
    <2>1. PICK x \in {"model", "none"} : wstage' = [wstage EXCEPT ![w][k] = x]
      BY <1>6 DEF UpsertContract
    <2>. QED BY <1>0, <1>6, <2>1 DEF UpsertContract
  <1>7. CASE StartUpsert(w) \/ CommitReInserted(w)
    BY <1>a, <1>7 DEF StartUpsert, CommitReInserted
  <1>8. ASSUME NEW k \in Key, SinkUpserts(w, k) PROVE HandStep(v, j)
    <2>1. wstage' = [wstage EXCEPT ![w][k] = "applied"] /\ wP' = wP /\ wstage[w][k] = "model"
      BY <1>8 DEF SinkUpserts
    <2>2. CASE v = w /\ j = k
      BY <1>0, <1>8, <2>1, <2>2
    <2>3. CASE ~ (v = w /\ j = k)
      BY <1>0, <2>1, <2>3
    <2>. QED BY <2>2, <2>3
  <1>9. ASSUME NEW r \in Report, UpsertReturns(w, r) PROVE HandStep(v, j)
    <2>1. CASE /\ CheckAttribution(r)
               /\ wstage' = [wstage EXCEPT ![w] =
                    [k \in Key |-> IF k \in Succeeded(w, r) THEN "commit" ELSE "none"]]
               /\ wP' = wP
      <3>1. j \in Succeeded(w, r) =>
              (wstage[w][j] = "applied" \/ Misattribution) /\ wstage[w][j] \notin {"none", "scanned"}
        BY <1>9, <2>1, SucceededIsApplied DEF UpsertReturns, Succeeded, Batch
      <3>. QED BY <1>0, <2>1, <3>1
    <2>. QED BY <1>a, <1>9, <2>1 DEF UpsertReturns
  <1>10. ASSUME NEW k \in Key, ReInsert(w, k) PROVE HandStep(v, j)
    <2>1. PICK x \in {"none", "commit"} : /\ wstage' = [wstage EXCEPT ![w][k] = x]
                                         /\ x = "commit" => <<k, wP[w][k]>> \in requeued'
      BY <1>10 DEF ReInsert
    <2>. QED BY <1>0, <1>10, <2>1 DEF ReInsert
  <1>11. ASSUME NEW k \in Key, DeletePayload(w, k) PROVE HandStep(v, j)
    BY <1>0, <1>11 DEF DeletePayload
  <1>. QED
    BY <1>1, <1>2, <1>3, <1>4, <1>5, <1>6, <1>7, <1>8, <1>9, <1>10, <1>11 DEF Process

\* What leaves the dead-letter set had no payload or has been through CommitDLQKeys.
LEMMA RemovedSteps ==
    ASSUME NEW w \in Worker, Process(w) \/ Abort(w), NEW j \in Key, j \in dlq, j \notin dlq'
    PROVE  j \in lapsed' \/ wstage[w][j] = "deleted"
  <1>1. CASE Collect(w)
    BY <1>1 DEF Collect
  <1>2. CASE RemoveDead(w)
    BY <1>2 DEF RemoveDead
  <1>3. ASSUME NEW k \in Key,
               \/ ReadDead(w, k) \/ UpsertContract(w, k) \/ SinkUpserts(w, k)
               \/ ReInsert(w, k) \/ DeletePayload(w, k)
        PROVE  FALSE
    BY <1>3 DEF ReadDead, UpsertContract, SinkUpserts, ReInsert, DeletePayload, DropHash, vars, journal
  <1>4. ASSUME \/ \E s \in Strategy : ScanDead(w, s)
               \/ \E r \in Report : UpsertReturns(w, r)
               \/ EndOfQueue(w) \/ HandleIgnore(w) \/ StartUpsert(w) \/ CommitReInserted(w) \/ Abort(w)
        PROVE  FALSE
    BY <1>4 DEF ScanDead, UpsertReturns, EndOfQueue, HandleIgnore, StartUpsert, CommitReInserted,
                Abort, vars, journal
  <1>. QED BY <1>1, <1>2, <1>3, <1>4 DEF Process

-----------------------------------------------------------------------------
(* Nothing unflushed is dropped.                                           *)

LEMMA StepQuietInv ==
    ASSUME Quiesced, DlqTypeInv, QuietInv, [DlqNext]_dlqVars
    PROVE  QuietInv'
  <1>. USE DEF QuietInv
  <1>1. ASSUME NEW w \in Worker, Process(w) \/ Abort(w) PROVE QuietInv'
    <2>1. dirty' = dirty /\ dlq' \subseteq dlq
      BY <1>1, WorkerSteps
    <2>2. ASSUME NEW v \in Worker, NEW j \in Key, wstage'[v][j] # "none" PROVE j \notin dirty
      <3>1. HandStep(v, j)
        BY <1>1, HandSteps
      <3>. QED BY <2>2, <3>1 DEF HandStep
    <2>. QED BY <2>1, <2>2
  <1>2. ASSUME Next, EngineStep PROVE QuietInv'
    <2>0. TypeOK /\ wstage' = wstage
      BY <1>2 DEF DlqTypeInv, DlqTypeOK, EngineStep, workers
    <2>1. CASE JournalKept \/ \E k \in Key : JournalExpiry(k) \/ JournalEviction(k)
      BY <2>0, <2>1 DEF JournalKept, JournalExpiry, JournalEviction, DropHash
    <2>2. ASSUME NEW k \in Key, JournalWrite(k) PROVE QuietInv'
      <3>1. written'[k] # written[k]
        BY <2>0, <2>2 DEF JournalWrite, TypeOK
      <3>2. k \notin dlq /\ \A w \in Worker : wstage[w][k] = "none"
        BY <1>2, <3>1 DEF EngineStep
      <3>. QED BY <2>0, <2>2, <3>2 DEF JournalWrite, AtomicWrite
    <2>3. ASSUME NEW k \in Key, NEW v, JournalScript(k, v) PROVE QuietInv'
      BY <2>0, <2>3 DEF JournalScript, CommitFlushedScript, DeadLetter, DeadLetterScript, journal
    <2>. QED BY <1>2, <2>1, <2>2, <2>3, JournalSteps
  <1>3. CASE UNCHANGED dlqVars
    BY <1>3 DEF dlqVars, vars, journal, workers
  <1>. QED BY <1>1, <1>2, <1>3 DEF DlqNext, EngineStep

LEMMA StepPersistInv ==
    ASSUME Quiesced, PersistInv, [DlqNext]_dlqVars
    PROVE  PersistInv'
  <1>. USE DEF PersistInv
  <1>1. DlqTypeInv' /\ QuietInv'
    BY StepDlqTypeInv, StepQuietInv
  <1>2. ASSUME NEW w \in Worker, Process(w) \/ Abort(w) PROVE UnflushedPersists'
    <2>1. UNCHANGED <<dirty, written, evicted>>
      BY <1>2, WorkerSteps
    <2>2. ASSUME NEW k \in Key, DeletePayload(w, k), NEW j \in dirty
          PROVE  payload'[j] = payload[j] /\ expiring'[j] = expiring[j]
      <3>1. k # j
        BY <2>2 DEF DeletePayload, QuietInv
      <3>. QED BY <2>2, <3>1 DEF DeletePayload, DropHash, DlqTypeInv, DlqTypeOK, TypeOK
    <2>3. \A j \in dirty : payload'[j] = payload[j] /\ expiring'[j] = expiring[j]
      BY <1>2, <2>2, WorkerSteps
    <2>. QED BY <2>1, <2>3 DEF UnflushedPersists
  <1>3. ASSUME [Next]_vars PROVE UnflushedPersists'
    BY <1>3, StepUnflushedPersists DEF DlqTypeInv, DlqTypeOK
  <1>. QED BY <1>1, <1>2, <1>3 DEF DlqNext, EngineStep, dlqVars

LEMMA InitPersistInv == DlqInit => PersistInv
  <1>1. DlqInit => QuietInv
    BY DEF DlqInit, Init, QuietInv, Blank
  <1>. QED BY <1>1, InitDlqTypeInv, InitUnflushedPersists DEF DlqInit, PersistInv

\* README.md:525, "unflushed state never expires", beside any number of dead-letter
\* workers and for every fleet: CommitDLQKeys deletes hashes without a comparison, and
\* hits none that is to be flushed as long as nobody writes a key that is dead-lettered
\* or in a worker's hands.  (Without that it does: see the run that deletes a write.)
THEOREM UnflushedSurvivesReplay ==
    ASSUME Quiesced
    PROVE  DlqSpec => []UnflushedPersists
  <1>1. PersistInv /\ [DlqNext]_dlqVars => PersistInv'
    BY StepPersistInv
  <1>2. PersistInv => UnflushedPersists
    BY DEF PersistInv
  <1>. QED BY <1>1, <1>2, InitPersistInv, PTL DEF DlqSpec

-----------------------------------------------------------------------------
(* What is replayed is the latest write.                                   *)

\* A worker's document write is of a key that is not dirty, and is its latest write.
LEMMA UpsertsTheLatest ==
    ASSUME DlqTypeInv, QuietInv, HandInv, NEW w \in Worker, NEW k \in Key, SinkUpserts(w, k)
    PROVE  /\ k \notin dirty
           /\ sink' = [sink EXCEPT ![k] = written[k]]
           /\ stored' = [stored EXCEPT ![k] = @ \union {written[k]}]
  <1>1. wstage[w][k] = "model"
    BY DEF SinkUpserts
  <1>2. wP[w][k] = written[k] /\ k \notin dirty
    BY <1>1 DEF HandInv, DlqTypeInv, HandType, QuietInv
  <1>. QED BY <1>2 DEF SinkUpserts, Apply

LEMMA WorkerPodInv ==
    ASSUME OnePod, ReplayInv, DlqTypeInv', UnflushedPersists',
           NEW w \in Worker, Process(w) \/ Abort(w)
    PROVE  PodInv'
  <1>. USE DEF ReplayInv, PodInv
  <1>1. /\ UNCHANGED <<pc, stage, gotP, gotV, dirty, written, evicted>>
        /\ TypeOK'
    BY WorkerSteps DEF cycle, DlqTypeInv, DlqTypeOK
  <1>2. late' = {}
    <2>1. CASE Abort(w)
      BY <2>1 DEF Abort, OnePod
    <2>. QED BY <2>1, WorkerSteps
  <1>3. \A j \in Key : \/ payload'[j] = payload[j] /\ seq'[j] = seq[j]
                       \/ payload'[j] = Missing /\ seq'[j] = 0 /\ j \notin dirty
    <2>1. ASSUME NEW k \in Key, DeletePayload(w, k), NEW j \in Key
          PROVE  \/ payload'[j] = payload[j] /\ seq'[j] = seq[j]
                 \/ payload'[j] = Missing /\ seq'[j] = 0 /\ j \notin dirty
      <3>1. k \notin dirty
        BY <2>1 DEF DeletePayload, QuietInv
      <3>. QED BY <2>1, <3>1 DEF DeletePayload, DropHash, TypeOK
    <2>. QED BY <2>1, WorkerSteps
  <1>4. \A j \in Key : \/ sink'[j] = sink[j]
                       \/ sink'[j] = written[j] /\ j \notin dirty
    <2>1. ASSUME NEW k \in Key, SinkUpserts(w, k), NEW j \in Key
          PROVE  sink'[j] = sink[j] \/ (sink'[j] = written[j] /\ j \notin dirty)
      BY <2>1, UpsertsTheLatest DEF TypeOK
    <2>. QED BY <2>1, WorkerSteps
  <1>5. \A j \in Key : stored[j] \subseteq stored'[j]
    <2>1. ASSUME NEW k \in Key, SinkUpserts(w, k), NEW j \in Key PROVE stored[j] \subseteq stored'[j]
      BY <2>1, UpsertsTheLatest DEF TypeOK
    <2>. QED BY <2>1, WorkerSteps
  <1>6. HashIsLatest'
    BY <1>1, <1>3 DEF HashIsLatest
  <1>11. DirtyHasPayload'
    BY <1>1, <1>3 DEF DirtyHasPayload, TypeOK
  <1>7. /\ HeldIsDirty' /\ NothingIsMissing' /\ ReadIsWhole' /\ MissingIsRecorded'
        /\ ModelsArePayloads'
    BY <1>1, WorkerSteps
       DEF HeldIsDirty, NothingIsMissing, ReadIsWhole, MissingIsRecorded, ModelsArePayloads, reports
  <1>8. ReadIsVersioned'
    BY <1>1, <1>3 DEF ReadIsVersioned, HeldIsDirty, InFlight, Stage
  <1>9. AppliedIsStored'
    BY <1>1, <1>5 DEF AppliedIsStored
  <1>10. OrderInv'
    <2>1. \A j \in Key : written[j] <= written[j]
      BY DEF TypeOK
    <2>2. \A j \in Key, f \in Pod : stage[f][j] # "none" => sink'[j] = sink[j]
      BY <1>4 DEF HeldIsDirty
    <2>. QED BY <1>1, <1>4, <2>1, <2>2 DEF OrderInv, InFlight, Stage
  <1>. QED BY <1>1, <1>2, <1>6, <1>7, <1>8, <1>9, <1>10, <1>11

\* What is settled stays so: neither a worker nor the pod puts an older document.
LEMMA SettledStays ==
    ASSUME OnePod, ReplayInv, [DlqNext]_dlqVars, NEW j \in Key, Settled(j),
           written'[j] = written[j], j \notin dirty
    PROVE  /\ Settled(j)'
           /\ sink[j] = written[j] => sink'[j] = written'[j]
  <1>. USE DEF ReplayInv, PodInv
  <1>1. sink'[j] = sink[j] \/ sink'[j] = written[j]
    <2>1. ASSUME NEW w \in Worker, Process(w) \/ Abort(w)
          PROVE  sink'[j] = sink[j] \/ sink'[j] = written[j]
      BY <2>1, WorkerSteps, UpsertsTheLatest DEF TypeOK
    <2>2. ASSUME [Next]_vars PROVE sink'[j] = sink[j]
      <3>1. \A f \in Pod : ~ SinkApplies(f, j)
        BY DEF SinkApplies, HeldIsDirty
      <3>. QED BY <2>2, <3>1, SinkSteps DEF SinkApplies, Apply, TypeOK
    <2>. QED BY <2>1, <2>2 DEF DlqNext, EngineStep, dlqVars
  <1>2. requeued \subseteq requeued' /\ discarded \subseteq discarded'
    BY WorkerOutcome DEF DlqNext, EngineStep, dlqVars, outcome
  <1>. QED BY <1>1, <1>2 DEF Settled

LEMMA StepHandInv ==
    ASSUME OnePod, Quiesced, ReplayInv, DlqTypeInv', [DlqNext]_dlqVars
    PROVE  HandInv'
  <1>. USE DEF ReplayInv, PodInv
  <1>1. ASSUME NEW w \in Worker, Process(w) \/ Abort(w), NEW v \in Worker, NEW j \in Key
        PROVE  /\ wstage'[v][j] \notin {"none", "scanned"} => wP'[v][j] \in {Missing, written'[j]}
               /\ wstage'[v][j] = "applied" => sink'[j] = written'[j]
               /\ wstage'[v][j] \in {"commit", "deleted"} => Settled(j)'
    <2>1. HandStep(v, j) /\ written' = written
      BY <1>1, HandSteps, WorkerSteps
    <2>2. wstage'[v][j] \notin {"none", "scanned"} => wP'[v][j] \in {Missing, written'[j]}
      BY <2>1 DEF HandStep, HandInv, HashIsLatest
    <2>3. ASSUME wstage'[v][j] = "applied" PROVE sink'[j] = written'[j]
      <3>1. CASE wstage[v][j] = "applied"
        BY <2>1, <3>1, SettledStays DEF HandInv, QuietInv, Settled
      <3>2. CASE SinkUpserts(v, j)
        BY <2>1, <3>2, UpsertsTheLatest DEF TypeOK
      <3>. QED BY <2>1, <2>3, <3>1, <3>2 DEF HandStep
    <2>4. ASSUME wstage'[v][j] \in {"commit", "deleted"} PROVE Settled(j)'
      <3>1. CASE wstage[v][j] \in {"applied", "commit", "deleted"}
        BY <2>1, <3>1, SettledStays DEF HandInv, QuietInv, Settled
      <3>2. CASE /\ <<j, wP[v][j]>> \in requeued' \union discarded'
                 /\ wstage'[v][j] = "commit" /\ wP'[v][j] = wP[v][j]
        <4>1. wP'[v][j] # Missing
          BY <3>2 DEF DlqTypeInv, HandType
        <4>2. wP[v][j] = written'[j]
          BY <2>2, <3>2, <4>1
        <4>. QED BY <3>2, <4>2 DEF Settled
      <3>. QED BY <2>1, <2>4, <3>1, <3>2 DEF HandStep, OnePod
    <2>. QED BY <2>2, <2>3, <2>4
  <1>2. ASSUME [Next]_vars, UNCHANGED <<workers, outcome>>, EngineStep \/ UNCHANGED vars,
               NEW v \in Worker, NEW j \in Key, wstage[v][j] # "none"
        PROVE  /\ wstage'[v][j] \notin {"none", "scanned"} => wP'[v][j] \in {Missing, written'[j]}
               /\ wstage'[v][j] = "applied" => sink'[j] = written'[j]
               /\ wstage'[v][j] \in {"commit", "deleted"} => Settled(j)'
    <2>1. written'[j] = written[j]
      BY <1>2 DEF EngineStep, vars
    <2>2. wstage' = wstage /\ wP' = wP /\ j \notin dirty
      BY <1>2 DEF workers, QuietInv
    <2>3. [DlqNext]_dlqVars
      OBVIOUS
    <2>. QED BY <2>1, <2>2, SettledStays DEF HandInv, Settled
  <1>3. ASSUME UNCHANGED workers, NEW v \in Worker, NEW j \in Key, wstage[v][j] = "none"
        PROVE  wstage'[v][j] = "none"
    BY <1>3 DEF workers
  <1>. QED BY <1>1, <1>2, <1>3 DEF DlqNext, EngineStep, dlqVars, HandInv

LEMMA StepReplayedIsLatest ==
    ASSUME OnePod, ReplayInv, [DlqNext]_dlqVars
    PROVE  ReplayedIsLatest'
  <1>. USE DEF ReplayInv, PodInv
  <1>. SUFFICES ASSUME NEW j \in Key, j \notin dirty', j \notin dlq', j \notin lapsed'
                PROVE  Settled(j)'
    BY DEF ReplayedIsLatest, Settled
  <1>1. ASSUME NEW w \in Worker, Process(w) \/ Abort(w) PROVE Settled(j)'
    <2>1. dirty' = dirty /\ written' = written /\ lapsed \subseteq lapsed'
      BY <1>1, WorkerSteps, WorkerOutcome
    <2>2. CASE j \in dlq
      <3>1. wstage[w][j] = "deleted"
        BY <1>1, <2>2, RemovedSteps
      <3>. QED BY <2>1, <3>1, SettledStays DEF HandInv
    <2>3. CASE j \notin dlq
      BY <2>1, <2>3, SettledStays DEF ReplayedIsLatest, Settled
    <2>. QED BY <2>2, <2>3
  <1>2. ASSUME [Next]_vars, UNCHANGED <<workers, outcome>> PROVE Settled(j)'
    <2>1. written'[j] = written[j]
      BY <1>2, WrittenGrows
    <2>2. dlq \subseteq dlq' /\ lapsed' = lapsed
      BY <1>2, JournalSteps
         DEF JournalKept, JournalWrite, AtomicWrite, JournalExpiry, JournalEviction, DropHash,
             JournalScript, CommitFlushedScript, DeadLetter, DeadLetterScript, journal, outcome
    <2>3. CASE j \notin dirty
      BY <2>1, <2>2, <2>3, SettledStays DEF ReplayedIsLatest, Settled
    <2>4. CASE j \in dirty
      <3>1. PICK f \in Pod : gotV[f][j] = seq[j] /\ TakesOut(f, j)
        BY <1>2, <2>4, LeavesDirty
      <3>2. CommitFlushed(f, j)
        BY <2>4, <3>1 DEF TakesOut, ContractRejects, BuryMissing, DeadLetterPermanent,
                          DeadLetter, DeadLetterScript, journal
      <3>3. sink' = sink /\ stage[f][j] = "commit"
        BY <3>2 DEF CommitFlushed, store
      <3>. QED BY <2>1, <3>1, <3>3, CommitsTheLatest DEF Settled
    <2>. QED BY <2>3, <2>4
  <1>. QED BY <1>1, <1>2 DEF DlqNext, EngineStep, dlqVars

LEMMA StepReplayInv ==
    ASSUME OnePod, Quiesced, ReplayInv, [DlqNext]_dlqVars
    PROVE  ReplayInv'
  <1>1. PersistInv
    BY DEF ReplayInv, PodInv, PersistInv
  <1>2. PersistInv'
    BY <1>1, StepPersistInv
  <1>3. DlqTypeInv' /\ QuietInv' /\ UnflushedPersists'
    BY <1>2 DEF PersistInv
  <1>4. PodInv'
    <2>1. ASSUME NEW w \in Worker, Process(w) \/ Abort(w) PROVE PodInv'
      BY <1>3, <2>1, WorkerPodInv
    <2>2. ASSUME [Next]_vars PROVE PodInv'
      BY <2>2, StepPodInv DEF ReplayInv
    <2>. QED BY <2>1, <2>2 DEF DlqNext, EngineStep, dlqVars
  <1>5. HandInv' /\ ReplayedIsLatest'
    BY <1>3, StepHandInv, StepReplayedIsLatest
  <1>. QED BY <1>3, <1>4, <1>5 DEF ReplayInv

LEMMA InitReplayInv == DlqInit => ReplayInv
  <1>. SUFFICES ASSUME DlqInit PROVE ReplayInv
    OBVIOUS
  <1>1. OnePodInv
    BY InitOnePodInv DEF DlqInit
  <1>2. DlqTypeInv /\ QuietInv
    BY InitPersistInv DEF PersistInv
  <1>3. HandInv
    BY DEF DlqInit, HandInv, Blank
  <1>4. ReplayedIsLatest
    BY <1>1 DEF OnePodInv, SettledIsLatest, ReplayedIsLatest
  <1>. QED BY <1>1, <1>2, <1>3, <1>4 DEF OnePodInv, ReplayInv

\* README.md "Recover" and README.md:519, for one pod and any number of dead-letter
\* workers that replay, re-enqueue, discard, fail and die beside its flush cycles, while
\* nobody writes a key they may hold: what leaves the dead-letter set is in the store,
\* re-enqueued or logged as it was last written, or its payload had run out of time.
THEOREM ReplaysAreLatest ==
    ASSUME OnePod, Quiesced
    PROVE  DlqSpec => []ReplayedIsLatest
  <1>1. ReplayInv /\ [DlqNext]_dlqVars => ReplayInv'
    BY StepReplayInv
  <1>2. ReplayInv => ReplayedIsLatest
    BY DEF ReplayInv
  <1>. QED BY <1>1, <1>2, InitReplayInv, PTL DEF DlqSpec
=============================================================================
