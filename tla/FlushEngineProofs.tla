------------------------- MODULE FlushEngineProofs -------------------------
(***************************************************************************)
(* Proofs, for every value of the constants, of the safety properties of   *)
(* FlushEngine.  Each invariant is proved from its initial states, its     *)
(* preservation by every action, and temporal logic.                       *)
(***************************************************************************)
EXTENDS FlushInvariants, TLAPS

-----------------------------------------------------------------------------
(* The steps of the system, once and for all.                              *)

\* Next, flattened: what a proof by cases has to consider.
LEMMA NextCases ==
    ASSUME Next
    PROVE  \/ \E k \in Key, ts \in Timestamp : Write(k, ts)
           \/ \E k \in Key : Expire(k)
           \/ \E k \in Key : Evict(k)
           \/ \E k \in Key, p \in Payload : LateApply(k, p)
           \/ \E f \in Pod : EmptyTick(f)
           \/ \E f \in Pod : ScanDirty(f)
           \/ \E f \in Pod, k \in Key : ReadPayload(f, k)
           \/ \E f \in Pod, k \in Key : ContractAccepts(f, k)
           \/ \E f \in Pod, k \in Key : ContractRejects(f, k)
           \/ \E f \in Pod, k \in Key : BuryMissing(f, k)
           \/ \E f \in Pod, k \in Key : SinkApplies(f, k)
           \/ \E f \in Pod, k \in Key : CommitFlushed(f, k)
           \/ \E f \in Pod, k \in Key : DeadLetterPermanent(f, k)
           \/ \E f \in Pod, k \in Key : ScriptFails(f, k)
           \/ \E f \in Pod : DrainFails(f)
           \/ \E f \in Pod : RecordMissing(f)
           \/ \E f \in Pod : ReportMissing(f)
           \/ \E f \in Pod : StartBulkWrite(f)
           \/ \E f \in Pod, r \in Report : BulkWriteReturns(f, r)
           \/ \E f \in Pod : BulkWriteFails(f)
           \/ \E f \in Pod : FinishFlush(f)
           \/ \E f \in Pod : Crash(f)
  BY DEF Next, Environment, FlushBand

\* No script changes the payload or the sequence of a hash.
LEMMA ScriptsKeepHashes ==
    ASSUME NEW k \in Key, NEW v,
           CommitFlushedScript(k, v) \/ DeadLetter(k, v)
    PROVE  UNCHANGED <<payload, seq, score>>
  BY DEF CommitFlushedScript, DeadLetter, DeadLetterScript, journal

\* The partition of a result only sends keys to the two scripts.
LEMMA PartitionType ==
    ASSUME NEW f, NEW r \in Report
    PROVE  Partition(f, r) \in [Key -> {"none", "commit", "bury"}]
  BY DEF Partition

-----------------------------------------------------------------------------
(* Type correctness.                                                       *)

LEMMA InitTypeOK == Init => TypeOK
  BY BandAssumption DEF Init, TypeOK, Zeros, Blank, Stage

LEMMA ScriptsTypeOK ==
    ASSUME TypeOK, NEW k \in Key, NEW v,
           CommitFlushedScript(k, v) \/ DeadLetter(k, v)
    PROVE  /\ payload' \in [Key -> 0..MaxWrites]
           /\ seq' \in [Key -> Nat]
           /\ expiring' \in [Key -> BOOLEAN]
           /\ dirty' \in SUBSET Key
           /\ score' \in [Key -> Timestamp \union {0}]
           /\ dlq' \in SUBSET Key
  <1>1. CASE CommitFlushedScript(k, v)
    <2>1. (payload[k] # Missing) \in BOOLEAN
      OBVIOUS
    <2>2. (expiring[k] \/ payload[k] # Missing) \in BOOLEAN
      OBVIOUS
    <2>. QED BY <1>1, <2>2 DEF TypeOK, CommitFlushedScript, journal
  <1>2. CASE DeadLetter(k, v)
    BY <1>2 DEF TypeOK, DeadLetter, DeadLetterScript, journal
  <1>. QED BY <1>1, <1>2

LEMMA QuitTypeOK ==
    ASSUME TypeOK, NEW f \in Pod, Quit(f)
    PROVE  /\ pc' \in [Pod -> {"idle", "drain", "bulkwrite", "settle"}]
           /\ stage' \in [Pod -> [Key -> Stage]]
           /\ gotP' \in [Pod -> [Key -> 0..MaxWrites]]
           /\ gotV' \in [Pod -> [Key -> Nat]]
  BY BandAssumption DEF TypeOK, Quit, Blank, Zeros, Stage

LEMMA AdvanceTypeOK ==
    ASSUME TypeOK, NEW f \in Pod, NEW from, NEW to \in Stage, Advance(f, from, to)
    PROVE  stage' \in [Pod -> [Key -> Stage]]
  <1>1. [k \in Key |-> IF stage[f][k] = from THEN to ELSE stage[f][k]] \in [Key -> Stage]
    BY DEF TypeOK
  <1>. QED BY <1>1 DEF TypeOK, Advance

\* What moving every key of a cycle from one stage to the next does to one of them.
LEMMA AdvanceOf ==
    ASSUME TypeOK, NEW f \in Pod, NEW from, NEW to, Advance(f, from, to),
           NEW g \in Pod, NEW j \in Key
    PROVE  \/ stage'[g][j] = stage[g][j] /\ ~ (g = f /\ stage[g][j] = from)
           \/ g = f /\ stage[g][j] = from /\ stage'[g][j] = to
  BY DEF Advance, TypeOK

LEMMA StepTypeOK == TypeOK /\ [Next]_vars => TypeOK'
  <1>. SUFFICES ASSUME TypeOK, [Next]_vars PROVE TypeOK'
    OBVIOUS
  <1>. USE BandAssumption
  <1>1. ASSUME NEW k \in Key, NEW ts \in Timestamp, Write(k, ts) PROVE TypeOK'
    BY <1>1 DEF TypeOK, Write, AtomicWrite, store, cycle, reports
  <1>2. ASSUME NEW k \in Key, Expire(k) PROVE TypeOK'
    BY <1>2 DEF TypeOK, Expire, DropHash, Missing, store, cycle, reports
  <1>3. ASSUME NEW k \in Key, Evict(k) PROVE TypeOK'
    BY <1>3 DEF TypeOK, Evict, DropHash, Missing, store, cycle, reports
  <1>4. ASSUME NEW k \in Key, NEW p \in Payload, LateApply(k, p) PROVE TypeOK'
    BY <1>4 DEF TypeOK, LateApply, Apply, Payload, journal, cycle, reports
  <1>5. ASSUME NEW f \in Pod, EmptyTick(f) PROVE TypeOK'
    BY <1>5 DEF TypeOK, EmptyTick, vars, journal, store, cycle, reports
  <1>6. ASSUME NEW f \in Pod, ScanDirty(f) PROVE TypeOK'
    BY <1>6 DEF TypeOK, ScanDirty, Stage, journal, store, reports
  <1>7. ASSUME NEW f \in Pod, NEW k \in Key, ReadPayload(f, k) PROVE TypeOK'
    BY <1>7 DEF TypeOK, ReadPayload, Stage, journal, store, reports
  <1>8. ASSUME NEW f \in Pod, NEW k \in Key, ContractAccepts(f, k) PROVE TypeOK'
    BY <1>8 DEF TypeOK, ContractAccepts, Stage, journal, store, reports
  <1>9. ASSUME NEW f \in Pod, NEW k \in Key, ContractRejects(f, k) PROVE TypeOK'
    BY <1>9, ScriptsTypeOK DEF TypeOK, ContractRejects, Stage, store, reports
  <1>10. ASSUME NEW f \in Pod, NEW k \in Key, BuryMissing(f, k) PROVE TypeOK'
    BY <1>10, ScriptsTypeOK DEF TypeOK, BuryMissing, Stage, store, reports
  <1>11. ASSUME NEW f \in Pod, NEW k \in Key, SinkApplies(f, k) PROVE TypeOK'
    BY <1>11 DEF TypeOK, SinkApplies, Apply, Stage, journal, reports
  <1>12. ASSUME NEW f \in Pod, NEW k \in Key, CommitFlushed(f, k) PROVE TypeOK'
    BY <1>12, ScriptsTypeOK DEF TypeOK, CommitFlushed, Stage, store, reports
  <1>13. ASSUME NEW f \in Pod, NEW k \in Key, DeadLetterPermanent(f, k) PROVE TypeOK'
    BY <1>13, ScriptsTypeOK DEF TypeOK, DeadLetterPermanent, DeadLetter, Stage, store, reports
  <1>14. ASSUME NEW f \in Pod, NEW k \in Key, ScriptFails(f, k) PROVE TypeOK'
    BY <1>14 DEF TypeOK, ScriptFails, Stage, journal, store, reports
  <1>15. ASSUME NEW f \in Pod, DrainFails(f) PROVE TypeOK'
    BY <1>15, QuitTypeOK DEF TypeOK, DrainFails, journal, store, reports
  <1>16. ASSUME NEW f \in Pod, StartBulkWrite(f) PROVE TypeOK'
    BY <1>16, QuitTypeOK DEF TypeOK, StartBulkWrite, journal, store, reports
  <1>17. ASSUME NEW f \in Pod, NEW r \in Report, BulkWriteReturns(f, r) PROVE TypeOK'
    <2>1. Partition(f, r) \in [Key -> Stage] /\ Blank \in [Key -> Stage]
      BY PartitionType DEF Stage, Blank
    <2>2. stage' \in [Pod -> [Key -> Stage]]
      BY <1>17, <2>1 DEF TypeOK, BulkWriteReturns, Quit
    <2>. QED
      BY <1>17, <2>2, QuitTypeOK DEF TypeOK, BulkWriteReturns, journal, store, reports
  <1>18. ASSUME NEW f \in Pod, BulkWriteFails(f) PROVE TypeOK'
    BY <1>18, QuitTypeOK DEF TypeOK, BulkWriteFails, Abandoned, journal, reports
  <1>19. ASSUME NEW f \in Pod, FinishFlush(f) PROVE TypeOK'
    BY <1>19, QuitTypeOK DEF TypeOK, FinishFlush, journal, store, reports
  <1>20. ASSUME NEW f \in Pod, Crash(f) PROVE TypeOK'
    BY <1>20, QuitTypeOK DEF TypeOK, Crash, Abandoned, Surfaced, journal
  <1>21. CASE UNCHANGED vars
    BY <1>21 DEF TypeOK, vars, journal, store, cycle, reports
  <1>22. ASSUME NEW f \in Pod, RecordMissing(f) PROVE TypeOK'
    BY <1>22, AdvanceTypeOK DEF TypeOK, RecordMissing, Stage, journal, store
  <1>23. ASSUME NEW f \in Pod, ReportMissing(f) PROVE TypeOK'
    BY <1>23, AdvanceTypeOK DEF TypeOK, ReportMissing, Surfaced, Stage, journal, store
  <1>. QED
    BY <1>1, <1>2, <1>3, <1>4, <1>5, <1>6, <1>7, <1>8, <1>9, <1>10, <1>11, <1>12, <1>13,
       <1>14, <1>15, <1>16, <1>17, <1>18, <1>19, <1>20, <1>21, <1>22, <1>23, NextCases

\* Type correctness of the flush engine, whatever the keys, pods and bounds.
THEOREM TypeCorrect == Spec => []TypeOK
  BY InitTypeOK, StepTypeOK, PTL DEF Spec

-----------------------------------------------------------------------------
(* An unflushed payload never expires.                                     *)

\* What a step does to the journal of one key: all that the invariants about a
\* hash have to consider.
JournalKept == UNCHANGED <<payload, seq, expiring, dirty, score, dlq, written, evicted>>

JournalWrite(k) ==
    /\ \E ts \in Timestamp : AtomicWrite(k, written[k] + 1, ts)
    /\ written[k] < MaxWrites
    /\ written' = [written EXCEPT ![k] = @ + 1]
    /\ UNCHANGED evicted

JournalExpiry(k) ==
    /\ expiring[k] /\ DropHash(k)
    /\ SlowFlush \/ ~Held(k)
    /\ UNCHANGED <<written, evicted>>

JournalEviction(k) ==
    /\ k \in dirty /\ DropHash(k)
    /\ evicted' = evicted \union {k}
    /\ UNCHANGED written

JournalScript(k, v) ==
    /\ \/ /\ CommitFlushedScript(k, v)
          /\ \E f \in Pod : stage[f][k] = "commit" /\ gotV[f][k] = v
       \/ /\ DeadLetter(k, v)
          /\ \E f \in Pod : stage[f][k] \in {"read", "missing", "bury"} /\ gotV[f][k] = v
    /\ UNCHANGED <<written, evicted>>

LEMMA JournalSteps ==
    ASSUME [Next]_vars
    PROVE  \/ JournalKept
           \/ \E k \in Key : JournalWrite(k)
           \/ \E k \in Key : JournalExpiry(k)
           \/ \E k \in Key : JournalEviction(k)
           \/ \E k \in Key : \E v : JournalScript(k, v)
  <1>1. ASSUME NEW k \in Key, NEW ts \in Timestamp, Write(k, ts) PROVE JournalWrite(k)
    BY <1>1 DEF Write, JournalWrite
  <1>2. ASSUME NEW k \in Key, Expire(k) PROVE JournalExpiry(k)
    BY <1>2 DEF Expire, JournalExpiry
  <1>3. ASSUME NEW k \in Key, Evict(k) PROVE JournalEviction(k)
    BY <1>3 DEF Evict, JournalEviction
  <1>4. ASSUME NEW f \in Pod, NEW k \in Key,
               \/ ContractRejects(f, k)
               \/ BuryMissing(f, k)
               \/ CommitFlushed(f, k)
               \/ DeadLetterPermanent(f, k)
        PROVE  JournalScript(k, gotV[f][k])
    BY <1>4 DEF ContractRejects, BuryMissing, CommitFlushed, DeadLetterPermanent, DeadLetter,
                InLoop, JournalScript
  <1>5. ASSUME NEW f \in Pod, NEW k \in Key,
               \/ ReadPayload(f, k)
               \/ ContractAccepts(f, k)
               \/ SinkApplies(f, k)
               \/ ScriptFails(f, k)
        PROVE  JournalKept
    BY <1>5 DEF ReadPayload, ContractAccepts, SinkApplies, ScriptFails, journal, JournalKept
  <1>6. ASSUME NEW f \in Pod,
               \/ ScanDirty(f)
               \/ DrainFails(f)
               \/ RecordMissing(f)
               \/ ReportMissing(f)
               \/ StartBulkWrite(f)
               \/ \E r \in Report : BulkWriteReturns(f, r)
               \/ BulkWriteFails(f)
               \/ FinishFlush(f)
               \/ Crash(f)
        PROVE  JournalKept
    BY <1>6 DEF ScanDirty, DrainFails, RecordMissing, ReportMissing, StartBulkWrite,
                BulkWriteReturns, BulkWriteFails, FinishFlush, Crash, journal, JournalKept
  <1>7. ASSUME NEW k \in Key, NEW p \in Payload, LateApply(k, p) PROVE JournalKept
    BY <1>7 DEF LateApply, journal, JournalKept
  <1>8. ASSUME UNCHANGED vars \/ \E f \in Pod : EmptyTick(f) PROVE JournalKept
    BY <1>8 DEF EmptyTick, vars, journal, JournalKept
  <1>. QED BY <1>1, <1>2, <1>3, <1>4, <1>5, <1>6, <1>7, <1>8, NextCases

LEMMA InitUnflushedPersists == Init => UnflushedPersists
  BY DEF Init, UnflushedPersists

LEMMA StepUnflushedPersists ==
    TypeOK /\ UnflushedPersists /\ [Next]_vars => UnflushedPersists'
  <1>. SUFFICES ASSUME TypeOK, UnflushedPersists, [Next]_vars,
                       NEW j \in Key, j \in dirty', j \notin evicted'
                PROVE  payload'[j] = written'[j] /\ ~expiring'[j]
    BY StepTypeOK DEF UnflushedPersists, TypeOK
  <1>1. CASE JournalKept
    BY <1>1 DEF UnflushedPersists, JournalKept
  <1>2. ASSUME NEW k \in Key, JournalWrite(k)
        PROVE  payload'[j] = written'[j] /\ ~expiring'[j]
    BY <1>2 DEF JournalWrite, AtomicWrite, UnflushedPersists, TypeOK
  <1>3. ASSUME NEW k \in Key, JournalExpiry(k)
        PROVE  payload'[j] = written'[j] /\ ~expiring'[j]
    BY <1>3 DEF JournalExpiry, DropHash, UnflushedPersists, TypeOK
  <1>4. ASSUME NEW k \in Key, JournalEviction(k)
        PROVE  payload'[j] = written'[j] /\ ~expiring'[j]
    BY <1>4 DEF JournalEviction, DropHash, UnflushedPersists, TypeOK
  <1>5. ASSUME NEW k \in Key, NEW v, JournalScript(k, v)
        PROVE  payload'[j] = written'[j] /\ ~expiring'[j]
    <2>1. CASE CommitFlushedScript(k, v)
      BY <1>5, <2>1 DEF JournalScript, CommitFlushedScript, UnflushedPersists, TypeOK, journal
    <2>2. CASE DeadLetter(k, v)
      BY <1>5, <2>2
         DEF JournalScript, DeadLetter, DeadLetterScript, UnflushedPersists, TypeOK, journal
    <2>. QED BY <1>5, <2>1, <2>2 DEF JournalScript
  <1>. QED BY <1>1, <1>2, <1>3, <1>4, <1>5, JournalSteps

\* README:525, "unflushed state never expires", for every fleet of pods, every
\* schedule and every failure the model has.
THEOREM UnflushedNeverExpires == Spec => []UnflushedPersists
  BY TypeCorrect, InitUnflushedPersists, StepUnflushedPersists, PTL DEF Spec

-----------------------------------------------------------------------------
(* A fleet of pods commits and dead-letters only what it has read.         *)

LEMMA InitFleetInv == Init => FleetInv
  <1>. SUFFICES ASSUME Init PROVE FleetInv
    OBVIOUS
  <1>1. TypeOK /\ UnflushedPersists
    BY InitTypeOK, InitUnflushedPersists
  <1>2. HashIsLatest
    BY DEF Init, HashIsLatest, Zeros, Missing
  <1>3. /\ ReadIsVersioned /\ ReadIsWhole /\ MissingIsRecorded
        /\ ModelsArePayloads /\ AppliedIsStored
    BY DEF Init, ReadIsVersioned, ReadIsWhole, MissingIsRecorded, ModelsArePayloads,
           AppliedIsStored, Blank, InFlight, Stage
  <1>4. CleanIsStoredOrDead
    BY DEF Init, CleanIsStoredOrDead, Zeros
  <1>. QED BY <1>1, <1>2, <1>3, <1>4 DEF FleetInv

LEMMA StepHashIsLatest ==
    TypeOK /\ HashIsLatest /\ [Next]_vars => HashIsLatest'
  <1>. SUFFICES ASSUME TypeOK, HashIsLatest, [Next]_vars, NEW j \in Key
                PROVE  /\ payload'[j] \in {Missing, written'[j]}
                       /\ payload'[j] = Missing <=> seq'[j] = 0
    BY DEF HashIsLatest
  <1>. USE DEF Missing
  <1>1. CASE JournalKept
    BY <1>1 DEF HashIsLatest, JournalKept
  <1>2. ASSUME NEW k \in Key, JournalWrite(k)
        PROVE  /\ payload'[j] \in {Missing, written'[j]}
               /\ payload'[j] = Missing <=> seq'[j] = 0
    BY <1>2, BandAssumption DEF JournalWrite, AtomicWrite, HashIsLatest, TypeOK
  <1>3. ASSUME NEW k \in Key, JournalExpiry(k) \/ JournalEviction(k)
        PROVE  /\ payload'[j] \in {Missing, written'[j]}
               /\ payload'[j] = Missing <=> seq'[j] = 0
    BY <1>3 DEF JournalExpiry, JournalEviction, DropHash, HashIsLatest, TypeOK
  <1>4. ASSUME NEW k \in Key, NEW v, JournalScript(k, v)
        PROVE  /\ payload'[j] \in {Missing, written'[j]}
               /\ payload'[j] = Missing <=> seq'[j] = 0
    BY <1>4, ScriptsKeepHashes DEF JournalScript, HashIsLatest
  <1>. QED BY <1>1, <1>2, <1>3, <1>4, JournalSteps

\* In a result the sink attributes properly, only keys of the cycle are named,
\* so only models go to a script.
LEMMA PartitionOfModels ==
    ASSUME ModelsArePayloads, ~Misattribution, NEW f \in Pod, NEW r \in Report,
           NEW j \in Key, pc[f] = "bulkwrite", SinkReports(stage[f], r),
           Partition(f, r)[j] # "none"
    PROVE  stage[f][j] \in {"model", "applied"}
  <1>1. stage[f][j] # "none"
    BY DEF SinkReports, Partition, Report, Class
  <1>. QED BY <1>1 DEF ModelsArePayloads

\* And only what was applied goes to the commit script.
LEMMA CommitsAreApplied ==
    ASSUME ModelsArePayloads, ~Misattribution, NEW f \in Pod, NEW r \in Report,
           NEW j \in Key, pc[f] = "bulkwrite", SinkReports(stage[f], r), CheckAttribution(r),
           Partition(f, r)[j] = "commit"
    PROVE  stage[f][j] = "applied"
  <1>1. r.class[j] = "none"
    BY DEF Partition, Report, Class
  <1>2. stage[f][j] # "model"
    BY <1>1 DEF SinkReports, CheckAttribution
  <1>3. stage[f][j] \in {"model", "applied"}
    BY PartitionOfModels
  <1>. QED BY <1>2, <1>3

\* How a key gets or stays in flight in a cycle: it has just been read, or what
\* was read of it is kept.
JustRead(g, j) ==
    /\ stage[g][j] = "scanned"
    /\ gotP'[g][j] = payload[j] /\ gotV'[g][j] = seq[j]
    /\ JournalKept

StillRead(g, j) ==
    /\ stage[g][j] \in InFlight
    /\ gotP'[g][j] = gotP[g][j] /\ gotV'[g][j] = gotV[g][j]

LEMMA InFlightSteps ==
    ASSUME TypeOK, ModelsArePayloads, [Next]_vars, ~Misattribution,
           NEW g \in Pod, NEW j \in Key, stage'[g][j] \in InFlight
    PROVE  JustRead(g, j) \/ StillRead(g, j)
  <1>1. CASE UNCHANGED cycle
    BY <1>1 DEF cycle, StillRead
  <1>2. ASSUME NEW f \in Pod, ScanDirty(f) PROVE StillRead(g, j)
    BY <1>2 DEF ScanDirty, InFlight, Stage, TypeOK, StillRead
  <1>3. ASSUME NEW f \in Pod, NEW k \in Key, ReadPayload(f, k)
        PROVE  JustRead(g, j) \/ StillRead(g, j)
    <2>1. CASE f = g /\ k = j
      BY <1>3, <2>1 DEF ReadPayload, TypeOK, JustRead, JournalKept, journal
    <2>2. CASE ~ (f = g /\ k = j)
      BY <1>3, <2>2 DEF ReadPayload, TypeOK, StillRead
    <2>. QED BY <2>1, <2>2
  <1>4. ASSUME NEW f \in Pod, NEW k \in Key, NEW x, UNCHANGED <<gotP, gotV>>,
               stage[f][k] \in InFlight, stage' = [stage EXCEPT ![f][k] = x]
        PROVE  StillRead(g, j)
    BY <1>4 DEF TypeOK, StillRead
  <1>5. ASSUME NEW f \in Pod, Quit(f) PROVE StillRead(g, j)
    BY <1>5 DEF Quit, Blank, InFlight, Stage, TypeOK, StillRead
  <1>6. ASSUME NEW f \in Pod, NEW r \in Report, BulkWriteReturns(f, r)
        PROVE  StillRead(g, j)
    <2>1. CASE stage' = [stage EXCEPT ![f] = Partition(f, r)] /\ UNCHANGED <<gotP, gotV>>
      <3>1. CASE g # f
        BY <2>1, <3>1 DEF TypeOK, StillRead
      <3>2. CASE g = f
        <4>1. Partition(f, r)[j] # "none"
          BY <2>1, <3>2 DEF TypeOK, InFlight, Stage
        <4>2. stage[f][j] \in {"model", "applied"}
          BY <1>6, <4>1, PartitionOfModels DEF BulkWriteReturns
        <4>. QED BY <2>1, <3>2, <4>2 DEF InFlight, Stage, StillRead
      <3>. QED BY <3>1, <3>2
    <2>. QED BY <1>5, <1>6, <2>1 DEF BulkWriteReturns
  <1>7. ASSUME NEW f \in Pod, NEW k \in Key,
               \/ ContractAccepts(f, k) \/ ContractRejects(f, k) \/ BuryMissing(f, k)
               \/ SinkApplies(f, k) \/ CommitFlushed(f, k) \/ DeadLetterPermanent(f, k)
               \/ ScriptFails(f, k)
        PROVE  StillRead(g, j)
    <2>1. stage[f][k] \in InFlight
      BY <1>7 DEF ContractAccepts, ContractRejects, BuryMissing, InLoop, SinkApplies,
                  CommitFlushed, DeadLetterPermanent, ScriptFails, InFlight, Stage
    <2>2. PICK x : stage' = [stage EXCEPT ![f][k] = x]
      BY <1>7 DEF ContractAccepts, ContractRejects, BuryMissing, SinkApplies,
                  CommitFlushed, DeadLetterPermanent, ScriptFails
    <2>3. UNCHANGED <<gotP, gotV>>
      BY <1>7 DEF ContractAccepts, ContractRejects, BuryMissing, SinkApplies,
                  CommitFlushed, DeadLetterPermanent, ScriptFails
    <2>. QED BY <1>4, <2>1, <2>2, <2>3
  <1>8. ASSUME NEW f \in Pod, DrainFails(f) \/ BulkWriteFails(f) \/ Crash(f)
        PROVE  StillRead(g, j)
    BY <1>5, <1>8 DEF DrainFails, BulkWriteFails, Crash
  <1>9. ASSUME NEW f \in Pod, StartBulkWrite(f) \/ FinishFlush(f) PROVE StillRead(g, j)
    BY <1>5, <1>9 DEF StartBulkWrite, FinishFlush, StillRead
  <1>12. ASSUME NEW f \in Pod, RecordMissing(f) \/ ReportMissing(f) PROVE StillRead(g, j)
    <2>1. gotP' = gotP /\ gotV' = gotV
      BY <1>12 DEF RecordMissing, ReportMissing
    <2>2. CASE stage'[g][j] = stage[g][j]
      BY <2>1, <2>2 DEF StillRead
    <2>3. CASE stage[g][j] \in {"read", "surfaced"}
      BY <2>1, <2>3 DEF StillRead, InFlight, Stage
    <2>. QED BY <1>12, <2>2, <2>3, AdvanceOf DEF RecordMissing, ReportMissing
  <1>10. ASSUME NEW k \in Key,
                \/ \E ts \in Timestamp : Write(k, ts)
                \/ Expire(k)
                \/ Evict(k)
                \/ \E p \in Payload : LateApply(k, p)
         PROVE  UNCHANGED cycle
    BY <1>10 DEF Write, Expire, Evict, LateApply
  <1>11. ASSUME UNCHANGED vars \/ \E f \in Pod : EmptyTick(f) PROVE UNCHANGED cycle
    BY <1>11 DEF EmptyTick, vars
  <1>. QED
    BY <1>1, <1>2, <1>3, <1>6, <1>7, <1>8, <1>9, <1>10, <1>11, <1>12, NextCases

\* What a pod has read of a key, against the hash of the key.
Versioned(g, j) ==
    /\ gotV[g][j] <= seq[j]
    /\ gotV[g][j] = seq[j] => gotP[g][j] = payload[j]

LEMMA StepReadIsVersioned ==
    ASSUME ~Misattribution, TypeOK, ModelsArePayloads, ReadIsVersioned, [Next]_vars,
           \A k \in Key : JournalExpiry(k) => ~Held(k)
    PROVE  ReadIsVersioned'
  <1>. SUFFICES ASSUME NEW g \in Pod, NEW j \in Key, j \notin evicted',
                       stage'[g][j] \in InFlight
                PROVE  Versioned(g, j)'
    BY DEF ReadIsVersioned, Versioned
  <1>1. CASE JustRead(g, j)
    BY <1>1 DEF JustRead, JournalKept, TypeOK, Versioned
  <1>2. CASE StillRead(g, j)
    <2>1. evicted \subseteq evicted'
      BY JournalSteps DEF JournalKept, JournalWrite, JournalExpiry, JournalEviction, JournalScript
    <2>2. Versioned(g, j)
      BY <1>2, <2>1 DEF ReadIsVersioned, StillRead, Versioned
    <2>3. gotV[g][j] \in Nat /\ seq[j] \in Nat
      BY DEF TypeOK
    <2>4. CASE JournalKept
      BY <1>2, <2>2, <2>4 DEF StillRead, Versioned, JournalKept
    <2>5. ASSUME NEW k \in Key, JournalWrite(k) PROVE Versioned(g, j)'
      BY <1>2, <2>2, <2>3, <2>5 DEF StillRead, Versioned, JournalWrite, AtomicWrite, TypeOK
    <2>6. ASSUME NEW k \in Key, JournalExpiry(k) \/ JournalEviction(k) PROVE Versioned(g, j)'
      <3>1. k # j
        BY <1>2, <2>6 DEF JournalEviction, Held, StillRead, InFlight, Stage
      <3>2. UNCHANGED <<payload[j], seq[j]>>
        BY <2>6, <3>1 DEF JournalExpiry, JournalEviction, DropHash, TypeOK
      <3>. QED BY <1>2, <2>2, <3>2 DEF StillRead, Versioned
    <2>7. ASSUME NEW k \in Key, NEW v, JournalScript(k, v) PROVE Versioned(g, j)'
      BY <1>2, <2>2, <2>7, ScriptsKeepHashes DEF StillRead, Versioned, JournalScript
    <2>. QED BY <2>4, <2>5, <2>6, <2>7, JournalSteps
  <1>. QED BY <1>1, <1>2, InFlightSteps

LEMMA StepReadIsWhole ==
    ASSUME ~Misattribution
    PROVE  TypeOK /\ HashIsLatest /\ ModelsArePayloads /\ ReadIsWhole /\ [Next]_vars
             => ReadIsWhole'
  <1>. SUFFICES ASSUME TypeOK, HashIsLatest, ModelsArePayloads, ReadIsWhole, [Next]_vars,
                       NEW g \in Pod, NEW j \in Key, stage'[g][j] \in InFlight
                PROVE  (gotP[g][j] = Missing <=> gotV[g][j] = 0)'
    BY DEF ReadIsWhole, InFlight
  <1>1. CASE JustRead(g, j)
    BY <1>1 DEF JustRead, HashIsLatest, Missing
  <1>2. CASE StillRead(g, j)
    BY <1>2 DEF StillRead, ReadIsWhole, Missing
  <1>. QED BY <1>1, <1>2, InFlightSteps

\* A key is taken for missing once its loss has been logged and counted.
LEMMA StepMissingIsRecorded ==
    TypeOK /\ MissingIsRecorded /\ [Next]_vars => MissingIsRecorded'
  <1>. SUFFICES ASSUME TypeOK, MissingIsRecorded, [Next]_vars, NEW g \in Pod, NEW j \in Key,
                       stage'[g][j] \in {"missing", "surfaced"}
                PROVE  gotP'[g][j] = Missing /\ j \in recorded'
    BY DEF MissingIsRecorded
  <1>. DEFINE Kept == /\ stage[g][j] \in {"missing", "surfaced"}
                      /\ gotP'[g][j] = gotP[g][j] /\ recorded \subseteq recorded'
  <1>1. CASE Kept
    BY <1>1 DEF MissingIsRecorded
  <1>2. CASE UNCHANGED cycle /\ UNCHANGED reports
    BY <1>2 DEF cycle, reports, MissingIsRecorded
  <1>3. ASSUME NEW f \in Pod, Quit(f), recorded' = recorded PROVE Kept
    BY <1>3 DEF Quit, Blank, TypeOK
  <1>4. ASSUME NEW f \in Pod, ScanDirty(f) PROVE Kept
    BY <1>4 DEF ScanDirty, TypeOK, reports
  <1>5. ASSUME NEW f \in Pod, NEW k \in Key, ReadPayload(f, k) PROVE Kept
    BY <1>5 DEF ReadPayload, TypeOK, reports
  <1>6. ASSUME NEW f \in Pod, NEW k \in Key, BuryMissing(f, k) PROVE Kept
    BY <1>6 DEF BuryMissing, TypeOK, reports
  <1>7. ASSUME NEW f \in Pod, NEW k \in Key,
               \/ ContractAccepts(f, k) \/ ContractRejects(f, k) \/ SinkApplies(f, k)
               \/ CommitFlushed(f, k) \/ DeadLetterPermanent(f, k) \/ ScriptFails(f, k)
        PROVE  Kept
    <2>1. UNCHANGED <<gotP, reports>>
      BY <1>7 DEF ContractAccepts, ContractRejects, SinkApplies, CommitFlushed,
                  DeadLetterPermanent, ScriptFails
    <2>2. \E x \in {"none", "model", "applied"} : stage' = [stage EXCEPT ![f][k] = x]
      BY <1>7 DEF ContractAccepts, ContractRejects, SinkApplies, CommitFlushed,
                  DeadLetterPermanent, ScriptFails
    <2>3. stage'[g][j] = stage[g][j]
      BY <2>2 DEF TypeOK
    <2>. QED BY <2>1, <2>3 DEF reports
  <1>8. ASSUME NEW f \in Pod, RecordMissing(f)
        PROVE  gotP'[g][j] = Missing /\ j \in recorded'
    <2>1. CASE g = f /\ stage[g][j] = "read"
      BY <1>8, <2>1 DEF RecordMissing, LoopIsOver
    <2>2. CASE ~ (g = f /\ stage[g][j] = "read")
      BY <1>1, <1>8, <2>2 DEF RecordMissing, Advance, TypeOK
    <2>. QED BY <2>1, <2>2
  <1>9. ASSUME NEW f \in Pod, ReportMissing(f) PROVE Kept
    BY <1>9 DEF ReportMissing, Advance, TypeOK
  <1>10. ASSUME NEW f \in Pod, NEW r \in Report, BulkWriteReturns(f, r) PROVE Kept
    <2>1. CASE stage' = [stage EXCEPT ![f] = Partition(f, r)] /\ UNCHANGED <<gotP, gotV>>
      <3>1. f # g \/ stage'[g][j] = Partition(f, r)[j]
        BY <2>1 DEF TypeOK
      <3>2. stage'[g][j] = stage[g][j]
        BY <2>1, <3>1, PartitionType DEF TypeOK
      <3>. QED BY <1>10, <2>1, <3>2 DEF BulkWriteReturns, reports
    <2>. QED BY <1>3, <1>10, <2>1 DEF BulkWriteReturns, reports
  <1>11. ASSUME NEW f \in Pod,
                \/ DrainFails(f) \/ StartBulkWrite(f) \/ BulkWriteFails(f) \/ FinishFlush(f)
                \/ Crash(f)
         PROVE  Kept
    BY <1>3, <1>11 DEF DrainFails, StartBulkWrite, BulkWriteFails, FinishFlush, Crash, TypeOK,
                       reports
  <1>12. ASSUME NEW k \in Key,
                \/ \E ts \in Timestamp : Write(k, ts)
                \/ Expire(k)
                \/ Evict(k)
                \/ \E p \in Payload : LateApply(k, p)
         PROVE  UNCHANGED cycle /\ UNCHANGED reports
    BY <1>12 DEF Write, Expire, Evict, LateApply
  <1>13. ASSUME UNCHANGED vars \/ \E f \in Pod : EmptyTick(f)
         PROVE  UNCHANGED cycle /\ UNCHANGED reports
    BY <1>13 DEF EmptyTick, vars
  <1>. QED
    BY <1>1, <1>2, <1>4, <1>5, <1>6, <1>7, <1>8, <1>9, <1>10, <1>11, <1>12, <1>13, NextCases

\* The same facts about one key of one cycle.
Modelled(g, j) ==
    /\ stage[g][j] \in {"model", "applied", "commit", "bury"} => gotP[g][j] # Missing
    /\ pc[g] = "bulkwrite" => stage[g][j] \in {"none", "model", "applied"}

Accounted(g, j) == stage[g][j] \in {"applied", "commit"} => gotP[g][j] \in stored[j]

\* The store's history only grows.
LEMMA StoredGrows ==
    ASSUME TypeOK, [Next]_vars, NEW j \in Key
    PROVE  stored[j] \subseteq stored'[j]
  <1>1. ASSUME NEW k \in Key, NEW p, Apply(k, p) PROVE stored[j] \subseteq stored'[j]
    BY <1>1 DEF Apply, TypeOK
  <1>2. CASE stored' = stored
    BY <1>2
  <1>3. \/ stored' = stored
        \/ \E k \in Key : \E p : Apply(k, p)
    <2>1. ASSUME NEW f \in Pod, NEW k \in Key,
                 \/ ReadPayload(f, k) \/ ContractAccepts(f, k) \/ ContractRejects(f, k)
                 \/ BuryMissing(f, k) \/ CommitFlushed(f, k) \/ DeadLetterPermanent(f, k)
                 \/ ScriptFails(f, k)
          PROVE  stored' = stored
      BY <2>1 DEF ReadPayload, ContractAccepts, ContractRejects, BuryMissing, CommitFlushed,
                  DeadLetterPermanent, ScriptFails, store
    <2>2. ASSUME NEW f \in Pod,
                 \/ ScanDirty(f) \/ DrainFails(f) \/ RecordMissing(f) \/ ReportMissing(f)
                 \/ StartBulkWrite(f) \/ BulkWriteFails(f)
                 \/ \E r \in Report : BulkWriteReturns(f, r)
                 \/ FinishFlush(f) \/ Crash(f) \/ EmptyTick(f)
          PROVE  stored' = stored
      BY <2>2 DEF ScanDirty, DrainFails, RecordMissing, ReportMissing, StartBulkWrite,
                  BulkWriteFails, BulkWriteReturns, FinishFlush, Crash, EmptyTick, store, vars
    <2>3. ASSUME NEW k \in Key, Expire(k) \/ Evict(k) \/ \E ts \in Timestamp : Write(k, ts)
          PROVE  stored' = stored
      BY <2>3 DEF Expire, Evict, Write, store
    <2>4. ASSUME NEW k \in Key, NEW p \in Payload, LateApply(k, p)
          PROVE  \E q : Apply(k, q)
      BY <2>4 DEF LateApply
    <2>5. ASSUME NEW f \in Pod, NEW k \in Key, SinkApplies(f, k)
          PROVE  \E q : Apply(k, q)
      BY <2>5 DEF SinkApplies
    <2>6. CASE UNCHANGED vars
      BY <2>6 DEF vars, store
    <2>. QED BY <2>1, <2>2, <2>3, <2>4, <2>5, <2>6, NextCases
  <1>. QED BY <1>1, <1>2, <1>3

LEMMA StepModelledAndAccounted ==
    ASSUME ~Misattribution
    PROVE  TypeOK /\ ModelsArePayloads /\ AppliedIsStored /\ [Next]_vars
             => ModelsArePayloads' /\ AppliedIsStored'
  <1>. SUFFICES ASSUME TypeOK, ModelsArePayloads, AppliedIsStored, [Next]_vars,
                       NEW g \in Pod, NEW j \in Key
                PROVE  Modelled(g, j)' /\ Accounted(g, j)'
    BY DEF ModelsArePayloads, AppliedIsStored, Modelled, Accounted
  <1>. USE DEF Modelled, Accounted
  <1>a. Modelled(g, j) /\ Accounted(g, j)
    BY DEF ModelsArePayloads, AppliedIsStored
  <1>b. stored[j] \subseteq stored'[j]
    BY StoredGrows
  <1>1. CASE UNCHANGED cycle
    BY <1>1, <1>a, <1>b DEF cycle
  <1>2. ASSUME NEW f \in Pod, ScanDirty(f) PROVE Modelled(g, j)' /\ Accounted(g, j)'
    BY <1>2, <1>a, <1>b DEF ScanDirty, TypeOK, store
  <1>3. ASSUME NEW f \in Pod, NEW k \in Key, ReadPayload(f, k)
        PROVE  Modelled(g, j)' /\ Accounted(g, j)'
    <2>1. pc[f] # "bulkwrite"
      BY <1>3 DEF ReadPayload, ModelsArePayloads
    <2>. QED BY <1>3, <1>a, <1>b, <2>1 DEF ReadPayload, TypeOK
  <1>4. ASSUME NEW f \in Pod, NEW k \in Key, ContractAccepts(f, k)
        PROVE  Modelled(g, j)' /\ Accounted(g, j)'
    BY <1>4, <1>a, <1>b DEF ContractAccepts, InLoop, TypeOK
  <1>5. ASSUME NEW f \in Pod, NEW k \in Key, NEW x \in {"none", "surfaced"},
               x = "surfaced" => stage[f][k] = "missing",
               UNCHANGED <<pc, gotP, gotV>>, stage' = [stage EXCEPT ![f][k] = x]
        PROVE  Modelled(g, j)' /\ Accounted(g, j)'
    BY <1>5, <1>a, <1>b DEF TypeOK
  <1>6. ASSUME NEW f \in Pod, NEW k \in Key,
               \/ ContractRejects(f, k) \/ BuryMissing(f, k) \/ CommitFlushed(f, k)
               \/ DeadLetterPermanent(f, k) \/ ScriptFails(f, k)
        PROVE  Modelled(g, j)' /\ Accounted(g, j)'
    BY <1>5, <1>6 DEF ContractRejects, BuryMissing, CommitFlushed, DeadLetterPermanent,
                      ScriptFails
  <1>7. ASSUME NEW f \in Pod, NEW k \in Key, SinkApplies(f, k)
        PROVE  Modelled(g, j)' /\ Accounted(g, j)'
    <2>1. stored' = [stored EXCEPT ![k] = @ \union {gotP[f][k]}]
      BY <1>7 DEF SinkApplies, Apply
    <2>2. gotP' = gotP /\ pc' = pc /\ stage' = [stage EXCEPT ![f][k] = "applied"]
          /\ stage[f][k] = "model"
      BY <1>7 DEF SinkApplies
    <2>. QED BY <1>a, <1>b, <2>1, <2>2 DEF TypeOK
  <1>8. ASSUME NEW f \in Pod, Quit(f) PROVE Modelled(g, j)' /\ Accounted(g, j)'
    BY <1>8, <1>a, <1>b DEF Quit, Blank, TypeOK
  <1>9. ASSUME NEW f \in Pod, DrainFails(f) \/ BulkWriteFails(f) \/ Crash(f)
        PROVE  Modelled(g, j)' /\ Accounted(g, j)'
    BY <1>8, <1>9 DEF DrainFails, BulkWriteFails, Crash
  <1>10. ASSUME NEW f \in Pod, StartBulkWrite(f) PROVE Modelled(g, j)' /\ Accounted(g, j)'
    BY <1>8, <1>10, <1>a, <1>b DEF StartBulkWrite, TypeOK
  <1>15. ASSUME NEW f \in Pod, RecordMissing(f) \/ ReportMissing(f)
         PROVE  Modelled(g, j)' /\ Accounted(g, j)'
    <2>1. pc' = pc /\ gotP' = gotP
      BY <1>15 DEF RecordMissing, ReportMissing
    <2>2. stage'[g][j] = stage[g][j] \/ stage[g][j] \in {"read", "surfaced"}
      BY <1>15, AdvanceOf DEF RecordMissing, ReportMissing
    <2>3. stage'[g][j] = stage[g][j] \/ stage'[g][j] \in {"missing", "none"}
      BY <1>15, AdvanceOf DEF RecordMissing, ReportMissing
    <2>. QED BY <1>a, <1>b, <2>1, <2>2, <2>3
  <1>11. ASSUME NEW f \in Pod, NEW r \in Report, BulkWriteReturns(f, r)
         PROVE  Modelled(g, j)' /\ Accounted(g, j)'
    <2>1. CASE /\ pc' = [pc EXCEPT ![f] = "settle"]
               /\ stage' = [stage EXCEPT ![f] = Partition(f, r)]
               /\ UNCHANGED <<gotP, gotV>>
               /\ CheckAttribution(r)
      <3>1. CASE g # f
        BY <2>1, <3>1, <1>a, <1>b DEF TypeOK
      <3>2. CASE g = f
        <4>1. pc'[g] # "bulkwrite" /\ gotP' = gotP /\ stage'[g][j] = Partition(f, r)[j]
          BY <2>1, <3>2 DEF TypeOK
        <4>2. stage'[g][j] \in {"none", "commit", "bury"}
          BY <4>1, PartitionType
        <4>3. ASSUME stage'[g][j] = "commit" PROVE stage[g][j] = "applied"
          BY <1>11, <2>1, <3>2, <4>1, <4>3, CommitsAreApplied DEF BulkWriteReturns
        <4>4. ASSUME stage'[g][j] # "none" PROVE stage[g][j] \in {"model", "applied"}
          BY <1>11, <3>2, <4>1, <4>4, PartitionOfModels DEF BulkWriteReturns
        <4>. QED BY <1>a, <1>b, <4>1, <4>2, <4>3, <4>4
      <3>. QED BY <3>1, <3>2
    <2>. QED BY <1>8, <1>11, <2>1 DEF BulkWriteReturns
  <1>12. ASSUME NEW f \in Pod, FinishFlush(f) PROVE Modelled(g, j)' /\ Accounted(g, j)'
    BY <1>8, <1>12 DEF FinishFlush
  <1>13. ASSUME NEW k \in Key,
                \/ \E ts \in Timestamp : Write(k, ts)
                \/ Expire(k)
                \/ Evict(k)
                \/ \E p \in Payload : LateApply(k, p)
         PROVE  UNCHANGED cycle
    BY <1>13 DEF Write, Expire, Evict, LateApply
  <1>14. ASSUME UNCHANGED vars \/ \E f \in Pod : EmptyTick(f) PROVE UNCHANGED cycle
    BY <1>14 DEF EmptyTick, vars
  <1>. QED
    BY <1>1, <1>2, <1>3, <1>4, <1>6, <1>7, <1>9, <1>10, <1>11, <1>12, <1>13, <1>14,
       <1>15, NextCases

\* What leaves the dirty set was read by the cycle that takes it out, and what
\* was read is the latest write.
LEMMA StepCleanIsStoredOrDead ==
    FleetInv /\ [Next]_vars => CleanIsStoredOrDead'
  <1>. SUFFICES ASSUME FleetInv, [Next]_vars,
                       NEW j \in Key, j \notin dirty', j \notin evicted'
                PROVE  written'[j] = 0 \/ written'[j] \in stored'[j] \/ j \in dlq'
    BY DEF CleanIsStoredOrDead
  <1>. USE DEF FleetInv
  <1>1. stored[j] \subseteq stored'[j]
    BY StoredGrows
  <1>2. ASSUME j \notin dirty, j \notin evicted, written' = written, dlq \subseteq dlq'
        PROVE  written'[j] = 0 \/ written'[j] \in stored'[j] \/ j \in dlq'
    BY <1>1, <1>2 DEF CleanIsStoredOrDead
  <1>3. CASE JournalKept
    BY <1>2, <1>3 DEF JournalKept
  <1>4. ASSUME NEW k \in Key, JournalWrite(k)
        PROVE  written'[j] = 0 \/ written'[j] \in stored'[j] \/ j \in dlq'
    <2>1. k # j /\ j \notin dirty /\ j \notin evicted /\ dlq' = dlq
      BY <1>4 DEF JournalWrite, AtomicWrite
    <2>2. written'[j] = written[j]
      BY <1>4, <2>1 DEF JournalWrite, TypeOK
    <2>. QED BY <1>1, <2>1, <2>2 DEF CleanIsStoredOrDead
  <1>5. ASSUME NEW k \in Key, JournalExpiry(k) \/ JournalEviction(k)
        PROVE  written'[j] = 0 \/ written'[j] \in stored'[j] \/ j \in dlq'
    BY <1>2, <1>5 DEF JournalExpiry, JournalEviction, DropHash
  <1>6. ASSUME NEW k \in Key, NEW v, JournalScript(k, v)
        PROVE  written'[j] = 0 \/ written'[j] \in stored'[j] \/ j \in dlq'
    <2>1. CASE j \notin dirty
      BY <1>2, <1>6, <2>1
         DEF JournalScript, CommitFlushedScript, DeadLetter, DeadLetterScript, journal
    <2>2. CASE j \in dirty /\ DeadLetter(k, v)
      BY <2>2 DEF DeadLetter, DeadLetterScript, journal
    <2>3. ASSUME j \in dirty, NEW f \in Pod, stage[f][k] = "commit", gotV[f][k] = v,
                 CommitFlushedScript(k, v)
          PROVE  written'[j] \in stored'[j]
      <3>1. k = j /\ seq[j] = gotV[f][j] /\ stage[f][j] = "commit" /\ j \notin evicted
        BY <1>6, <2>3 DEF CommitFlushedScript, journal, JournalScript
      <3>2. gotP[f][j] = payload[j]
        BY <3>1 DEF ReadIsVersioned, InFlight, Stage
      <3>3. gotP[f][j] # Missing /\ gotP[f][j] \in stored[j]
        BY <3>1 DEF ModelsArePayloads, AppliedIsStored
      <3>4. payload[j] = written[j]
        BY <3>2, <3>3 DEF HashIsLatest
      <3>. QED BY <1>1, <1>6, <3>2, <3>3, <3>4 DEF JournalScript
    <2>. QED BY <1>6, <2>1, <2>2, <2>3 DEF JournalScript
  <1>. QED BY <1>3, <1>4, <1>5, <1>6, JournalSteps

LEMMA StepFleetInv ==
    ASSUME ~SlowFlush, ~Misattribution
    PROVE  FleetInv /\ [Next]_vars => FleetInv'
  <1>. SUFFICES ASSUME FleetInv, [Next]_vars PROVE FleetInv'
    OBVIOUS
  <1>1. TypeOK' /\ UnflushedPersists' /\ HashIsLatest'
    BY StepTypeOK, StepUnflushedPersists, StepHashIsLatest DEF FleetInv
  <1>2. ReadIsWhole' /\ MissingIsRecorded' /\ ModelsArePayloads' /\ AppliedIsStored'
    BY StepReadIsWhole, StepMissingIsRecorded, StepModelledAndAccounted DEF FleetInv
  <1>4. ReadIsVersioned'
    BY StepReadIsVersioned DEF FleetInv, JournalExpiry
  <1>3. CleanIsStoredOrDead'
    BY StepCleanIsStoredOrDead
  <1>. QED BY <1>1, <1>2, <1>3, <1>4 DEF FleetInv

\* FleetInv is an invariant of every fleet whose cycles end before a committed
\* hash can expire, over a sink that attributes its errors: it says what a pod
\* may rely on about the keys it has in hand.
THEOREM FleetInvariant ==
    ASSUME ~SlowFlush, ~Misattribution
    PROVE  Spec => []FleetInv
  <1>1. FleetInv /\ [Next]_vars => FleetInv'
    BY StepFleetInv
  <1>. QED BY InitFleetInv, <1>1, PTL DEF Spec

\* README:526, "commits can't lose concurrent writes", for every fleet of pods,
\* late store writes and Redis losses included: what leaves the dirty set is in
\* the store's history or in the dead-letter set.  It takes flush cycles shorter
\* than the post-flush TTL and a sink that attributes its errors.
THEOREM CleanKeysAreStored ==
    ASSUME ~SlowFlush, ~Misattribution
    PROVE  Spec => []CleanMeansStored
  <1>1. FleetInv => CleanMeansStored
    BY DEF FleetInv, CleanIsStoredOrDead, HashIsLatest, CleanMeansStored
  <1>. QED BY <1>1, FleetInvariant, PTL

\* docs/issues/sink-silent-loss.md:34, under the same two assumptions: whatever
\* is about to be committed has been applied by the store.
THEOREM CommitsWereApplied ==
    ASSUME ~SlowFlush, ~Misattribution
    PROVE  Spec => []CommittedWasApplied
  <1>1. FleetInv => CommittedWasApplied
    BY DEF FleetInv, AppliedIsStored, CommittedWasApplied
  <1>. QED BY <1>1, FleetInvariant, PTL

\* README:526, "a write that races an in-flight flush stays dirty": a cycle takes
\* a key whose sequence Redis has kept out of the dirty set only when it holds
\* the key's latest payload.
THEOREM RacingWritesStayDirty ==
    ASSUME ~SlowFlush, ~Misattribution
    PROVE  Spec => IntactRacingWriteStaysDirty
  <1>1. ASSUME FleetInv, [Next]_vars PROVE TookLatestIntactOut
    <2>. SUFFICES ASSUME NEW j \in Key, j \in dirty, j \notin dirty', j \notin evicted
                  PROVE  \E f \in Pod : stage[f][j] # "none" /\ gotP[f][j] = payload[j]
      BY <1>1 DEF TookLatestIntactOut, FleetInv, TypeOK
    <2>1. PICK v : JournalScript(j, v) /\ seq[j] = v
      BY <1>1, JournalSteps
         DEF JournalKept, JournalWrite, AtomicWrite, JournalExpiry, JournalEviction, DropHash,
             JournalScript, CommitFlushedScript, DeadLetter, DeadLetterScript, journal
    <2>2. PICK f \in Pod : /\ stage[f][j] \in {"read", "missing", "commit", "bury"}
                           /\ gotV[f][j] = seq[j]
      BY <2>1 DEF JournalScript
    <2>. QED BY <1>1, <2>2 DEF FleetInv, ReadIsVersioned, InFlight, Stage
  <1>2. FleetInv /\ [Next]_vars => [TookLatestIntactOut]_vars
    BY <1>1
  <1>. QED BY <1>2, FleetInvariant, PTL DEF Spec, IntactRacingWriteStaysDirty

\* The part of the invariant that the length of a cycle has no bearing on.
LEMMA ReadInvariant ==
    ASSUME ~Misattribution
    PROVE  Spec => [](/\ TypeOK /\ HashIsLatest /\ ReadIsWhole /\ MissingIsRecorded
                      /\ ModelsArePayloads)
  <1>. DEFINE Inv == /\ TypeOK /\ HashIsLatest /\ ReadIsWhole /\ MissingIsRecorded
                     /\ ModelsArePayloads /\ AppliedIsStored
  <1>1. Init => Inv
    BY InitFleetInv DEF FleetInv
  <1>2. Inv /\ [Next]_vars => Inv'
    BY StepTypeOK, StepHashIsLatest, StepReadIsWhole, StepMissingIsRecorded,
       StepModelledAndAccounted
  <1>3. Inv => /\ TypeOK /\ HashIsLatest /\ ReadIsWhole /\ MissingIsRecorded
               /\ ModelsArePayloads
    OBVIOUS
  <1>. QED BY <1>1, <1>2, <1>3, PTL DEF Spec

\* The steps that take a key out of the dirty set.
TakesOut(f, k) ==
    \/ ContractRejects(f, k)
    \/ BuryMissing(f, k)
    \/ CommitFlushed(f, k)
    \/ DeadLetterPermanent(f, k)

LEMMA LeavesDirty ==
    ASSUME [Next]_vars, NEW j \in Key, j \in dirty, j \notin dirty'
    PROVE  \E f \in Pod : gotV[f][j] = seq[j] /\ TakesOut(f, j)
  <1>1. ASSUME NEW f \in Pod, NEW k \in Key, TakesOut(f, k)
        PROVE  k = j /\ gotV[f][j] = seq[j]
    BY <1>1 DEF TakesOut, ContractRejects, BuryMissing, CommitFlushed, DeadLetterPermanent,
                CommitFlushedScript, DeadLetter, DeadLetterScript, journal
  <1>2. ASSUME NEW f \in Pod, NEW k \in Key,
               ReadPayload(f, k) \/ ContractAccepts(f, k) \/ SinkApplies(f, k) \/ ScriptFails(f, k)
        PROVE  FALSE
    BY <1>2 DEF ReadPayload, ContractAccepts, SinkApplies, ScriptFails, journal
  <1>3. ASSUME NEW f \in Pod,
               \/ EmptyTick(f) \/ ScanDirty(f) \/ DrainFails(f) \/ RecordMissing(f)
               \/ ReportMissing(f) \/ StartBulkWrite(f)
               \/ \E r \in Report : BulkWriteReturns(f, r)
               \/ BulkWriteFails(f) \/ FinishFlush(f) \/ Crash(f)
        PROVE  FALSE
    BY <1>3 DEF EmptyTick, ScanDirty, DrainFails, RecordMissing, ReportMissing,
                StartBulkWrite, BulkWriteReturns, BulkWriteFails, FinishFlush, Crash, vars,
                journal
  <1>4. ASSUME NEW k \in Key,
               \/ \E ts \in Timestamp : Write(k, ts)
               \/ Expire(k)
               \/ Evict(k)
               \/ \E p \in Payload : LateApply(k, p)
        PROVE  FALSE
    BY <1>4 DEF Write, AtomicWrite, Expire, Evict, DropHash, LateApply, journal
  <1>. QED BY <1>1, <1>2, <1>3, <1>4, NextCases DEF TakesOut, vars, journal

\* README.md:530, "losses are loud", for every fleet, however long its cycles and
\* wherever a pod dies: a script that takes a key without a hash out of the dirty
\* set was sent for a payload the cycle had found missing, after it had logged and
\* counted the loss.  (That the callback is told as well is LossIsReported, which a
\* crash between the script and the callback escapes.)  It takes a sink that
\* attributes its errors: one that names a key outside the batch has an evicted key
\* buried in silence.
THEOREM LossesAreLoud ==
    ASSUME ~Misattribution
    PROVE  Spec => LossIsLoud
  <1>. DEFINE Inv  == /\ TypeOK /\ HashIsLatest /\ ReadIsWhole /\ MissingIsRecorded
                      /\ ModelsArePayloads
              Loud == \A k \in dirty \ dirty' : seq[k] = 0 => k \in recorded
  <1>1. ASSUME Inv, [Next]_vars PROVE Loud
    <2>. SUFFICES ASSUME NEW j \in Key, j \in dirty, j \notin dirty', seq[j] = 0
                  PROVE  j \in recorded
      BY <1>1 DEF TypeOK
    <2>1. PICK f \in Pod : gotV[f][j] = seq[j] /\ TakesOut(f, j)
      BY <1>1, LeavesDirty
    <2>2. stage[f][j] \in InFlight
      BY <2>1 DEF TakesOut, ContractRejects, BuryMissing, InLoop, CommitFlushed,
                  DeadLetterPermanent, InFlight, Stage
    <2>3. gotP[f][j] = Missing
      BY <1>1, <2>1, <2>2 DEF ReadIsWhole
    <2>4. stage[f][j] = "missing"
      BY <1>1, <2>1, <2>3 DEF TakesOut, ContractRejects, BuryMissing, CommitFlushed,
                              DeadLetterPermanent, ModelsArePayloads
    <2>. QED BY <1>1, <2>4 DEF MissingIsRecorded
  <1>2. Inv /\ [Next]_vars => [Loud]_vars
    BY <1>1
  <1>. QED BY <1>2, ReadInvariant, PTL DEF Spec, LossIsLoud
=============================================================================
