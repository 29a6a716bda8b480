------------------------- MODULE FlushOnePodProofs -------------------------
(***************************************************************************)
(* Proofs that the flush engine of one pod implements WriteBuffer: for any *)
(* keys, batch size, clock and number of writes, with cycles of any length *)
(* and with every failure of Redis, of the store and of the pod, the store *)
(* only moves forward and a settled key has its latest write in it.        *)
(***************************************************************************)
EXTENDS FlushRefinesBuffer, FlushEngineProofs, FiniteSetTheorems

\* The deployment the promise is for.  A second pod, a store write that lands
\* after its BulkWrite gave up, an evicted hash and a sink that names keys
\* outside the batch each break it.
OnePod ==
    /\ \A f, g \in Pod : f = g
    /\ ~LateWrites
    /\ MaxEvictions = 0
    /\ ~Misattribution

-----------------------------------------------------------------------------
(* Nothing is lost or late.                                                *)

LEMMA InitOnePodInv == Init => OnePodInv
  <1>. SUFFICES ASSUME Init PROVE OnePodInv
    OBVIOUS
  <1>1. FleetInv
    BY InitFleetInv
  <1>2. late = {} /\ evicted = {}
    BY DEF Init
  <1>3. HeldIsDirty /\ DirtyHasPayload /\ NothingIsMissing /\ OrderInv /\ SettledIsLatest
    BY DEF Init, HeldIsDirty, DirtyHasPayload, NothingIsMissing, OrderInv, SettledIsLatest,
           Blank, Zeros, InFlight, Stage
  <1>. QED BY <1>1, <1>2, <1>3 DEF FleetInv, OnePodInv, PodInv

LEMMA NothingLateOrLost ==
    ASSUME OnePod, TypeOK, late = {}, evicted = {}, [Next]_vars
    PROVE  late' = {} /\ evicted' = {}
  <1>1. \A k \in Key : ~ Evict(k)
    BY FS_EmptySet DEF Evict, OnePod
  <1>2. \A k \in Key, p \in Payload : ~ LateApply(k, p)
    BY DEF LateApply
  <1>3. \A f \in Pod : Abandoned(f) = {}
    BY DEF Abandoned, OnePod
  <1>4. ASSUME NEW k \in Key, Expire(k) \/ \E ts \in Timestamp : Write(k, ts)
        PROVE  UNCHANGED <<late, evicted>>
    BY <1>4 DEF Expire, Write, store
  <1>5. ASSUME NEW f \in Pod, NEW k \in Key,
               \/ ReadPayload(f, k) \/ ContractAccepts(f, k) \/ ContractRejects(f, k)
               \/ BuryMissing(f, k) \/ SinkApplies(f, k) \/ CommitFlushed(f, k)
               \/ DeadLetterPermanent(f, k) \/ ScriptFails(f, k)
        PROVE  UNCHANGED <<late, evicted>>
    BY <1>5 DEF ReadPayload, ContractAccepts, ContractRejects, BuryMissing, SinkApplies,
                CommitFlushed, DeadLetterPermanent, ScriptFails, store
  <1>6. ASSUME NEW f \in Pod,
               \/ EmptyTick(f) \/ ScanDirty(f) \/ DrainFails(f) \/ RecordMissing(f)
               \/ ReportMissing(f) \/ StartBulkWrite(f)
               \/ \E r \in Report : BulkWriteReturns(f, r)
               \/ FinishFlush(f)
        PROVE  UNCHANGED <<late, evicted>>
    BY <1>6 DEF EmptyTick, ScanDirty, DrainFails, RecordMissing, ReportMissing,
                StartBulkWrite, BulkWriteReturns, FinishFlush, store, vars
  <1>7. ASSUME NEW f \in Pod, BulkWriteFails(f) \/ Crash(f) PROVE UNCHANGED <<late, evicted>>
    BY <1>3, <1>7 DEF BulkWriteFails, Crash
  <1>. QED BY <1>1, <1>2, <1>4, <1>5, <1>6, <1>7, NextCases DEF vars, store

-----------------------------------------------------------------------------
(* What the pod holds is dirty.                                            *)

\* A cycle takes hold of a key only by scanning it.
LEMMA HoldSteps ==
    ASSUME TypeOK, ModelsArePayloads, ~Misattribution, [Next]_vars,
           NEW g \in Pod, NEW j \in Key, stage[g][j] = "none", stage'[g][j] # "none"
    PROVE  j \in dirty /\ dirty' = dirty
  <1>1. ASSUME NEW f \in Pod, ScanDirty(f) PROVE j \in dirty /\ dirty' = dirty
    <2>1. PICK B \in OldestDirty :
            stage' = [stage EXCEPT ![f] =
                        [k \in Key |-> IF k \in B THEN "scanned" ELSE "none"]]
      BY <1>1 DEF ScanDirty
    <2>. QED BY <1>1, <2>1 DEF ScanDirty, OldestDirty, TypeOK, journal
  <1>2. ASSUME NEW f \in Pod, NEW k \in Key,
               \/ ReadPayload(f, k) \/ ContractAccepts(f, k) \/ ContractRejects(f, k)
               \/ BuryMissing(f, k) \/ SinkApplies(f, k) \/ CommitFlushed(f, k)
               \/ DeadLetterPermanent(f, k) \/ ScriptFails(f, k)
        PROVE  FALSE
    <2>1. stage[f][k] # "none"
      BY <1>2 DEF ReadPayload, ContractAccepts, ContractRejects, BuryMissing, InLoop,
                  SinkApplies, CommitFlushed, DeadLetterPermanent, ScriptFails
    <2>2. PICK x : stage' = [stage EXCEPT ![f][k] = x]
      BY <1>2 DEF ReadPayload, ContractAccepts, ContractRejects, BuryMissing,
                  SinkApplies, CommitFlushed, DeadLetterPermanent, ScriptFails
    <2>. QED BY <2>1, <2>2 DEF TypeOK
  <1>3. ASSUME NEW f \in Pod, Quit(f) PROVE FALSE
    BY <1>3 DEF Quit, Blank, TypeOK
  <1>4. ASSUME NEW f \in Pod, NEW r \in Report, BulkWriteReturns(f, r) PROVE FALSE
    <2>1. CASE stage' = [stage EXCEPT ![f] = Partition(f, r)]
      <3>1. g = f /\ Partition(f, r)[j] # "none"
        BY <2>1 DEF TypeOK
      <3>. QED BY <1>4, <3>1, PartitionOfModels DEF BulkWriteReturns
    <2>. QED BY <1>3, <1>4, <2>1 DEF BulkWriteReturns
  <1>7. ASSUME NEW f \in Pod, RecordMissing(f) \/ ReportMissing(f) PROVE FALSE
    BY <1>7, AdvanceOf DEF RecordMissing, ReportMissing
  <1>5. ASSUME NEW f \in Pod,
               \/ EmptyTick(f) \/ StartBulkWrite(f) \/ FinishFlush(f)
               \/ DrainFails(f) \/ BulkWriteFails(f) \/ Crash(f)
        PROVE  FALSE
    BY <1>3, <1>5 DEF EmptyTick, StartBulkWrite, FinishFlush, DrainFails, BulkWriteFails,
                      Crash, vars, cycle
  <1>6. ASSUME NEW k \in Key,
               \/ \E ts \in Timestamp : Write(k, ts)
               \/ Expire(k)
               \/ Evict(k)
               \/ \E p \in Payload : LateApply(k, p)
        PROVE  FALSE
    BY <1>6 DEF Write, Expire, Evict, LateApply, cycle
  <1>. QED BY <1>1, <1>2, <1>4, <1>5, <1>6, <1>7, NextCases DEF vars, cycle

LEMMA StepHeldIsDirty ==
    ASSUME OnePod, TypeOK, MissingIsRecorded, ModelsArePayloads, HeldIsDirty,
           NothingIsMissing, [Next]_vars
    PROVE  HeldIsDirty'
  <1>. SUFFICES ASSUME NEW g \in Pod, NEW j \in Key, stage'[g][j] # "none"
                PROVE  j \in dirty'
    BY DEF HeldIsDirty
  <1>1. j \in dirty
    BY HoldSteps DEF OnePod, HeldIsDirty
  <1>2. ASSUME j \notin dirty' PROVE FALSE
    <2>1. PICK f \in Pod : TakesOut(f, j)
      BY <1>1, <1>2, LeavesDirty
    <2>2. f = g
      BY DEF OnePod
    <2>3. ~ BuryMissing(f, j)
      BY DEF BuryMissing, MissingIsRecorded, NothingIsMissing, InFlight, Stage
    <2>. QED BY <2>1, <2>2, <2>3 DEF TakesOut, ContractRejects, CommitFlushed,
                                     DeadLetterPermanent, TypeOK
  <1>. QED BY <1>2

LEMMA StepDirtyHasPayload ==
    ASSUME OnePod, PodInv, [Next]_vars
    PROVE  DirtyHasPayload'
  <1>. USE DEF PodInv
  <1>1. TypeOK' /\ UnflushedPersists' /\ evicted' = {}
    BY StepTypeOK, StepUnflushedPersists, NothingLateOrLost
  <1>. SUFFICES ASSUME NEW j \in Key, j \in dirty' PROVE payload'[j] # Missing
    BY <1>1 DEF DirtyHasPayload, TypeOK
  <1>2. CASE j \in dirty /\ UNCHANGED written
    BY <1>1, <1>2 DEF DirtyHasPayload, UnflushedPersists
  <1>3. ASSUME NEW k \in Key, JournalWrite(k) PROVE payload'[j] # Missing
    BY <1>3 DEF JournalWrite, AtomicWrite, DirtyHasPayload, Missing, TypeOK
  <1>. QED
    BY <1>2, <1>3, JournalSteps
       DEF JournalKept, JournalExpiry, JournalEviction, DropHash, JournalScript,
           CommitFlushedScript, DeadLetter, DeadLetterScript, journal

\* A cycle that holds dirty keys only reads payloads only.
LEMMA StepNothingIsMissing ==
    ASSUME OnePod, TypeOK, ModelsArePayloads, NothingIsMissing, [Next]_vars,
           HeldIsDirty', DirtyHasPayload'
    PROVE  NothingIsMissing'
  <1>. SUFFICES ASSUME NEW g \in Pod, NEW j \in Key, stage'[g][j] \in InFlight
                PROVE  gotP'[g][j] # Missing
    BY DEF NothingIsMissing
  <1>1. CASE JustRead(g, j)
    BY <1>1 DEF JustRead, JournalKept, HeldIsDirty, DirtyHasPayload, InFlight
  <1>2. CASE StillRead(g, j)
    BY <1>2 DEF StillRead, NothingIsMissing
  <1>. QED BY <1>1, <1>2, InFlightSteps DEF OnePod

-----------------------------------------------------------------------------
(* The store only moves forward.                                           *)

\* Only BulkWrite touches the documents, and only writers the history.
LEMMA SinkSteps ==
    ASSUME [Next]_vars, late = {}
    PROVE  sink' = sink \/ \E f \in Pod, k \in Key : SinkApplies(f, k)
  <1>1. ASSUME NEW k \in Key, Expire(k) \/ Evict(k) \/ \E ts \in Timestamp : Write(k, ts)
        PROVE  sink' = sink
    BY <1>1 DEF Expire, Evict, Write, store
  <1>2. ASSUME NEW f \in Pod, NEW k \in Key,
               \/ ReadPayload(f, k) \/ ContractAccepts(f, k) \/ ContractRejects(f, k)
               \/ BuryMissing(f, k) \/ CommitFlushed(f, k)
               \/ DeadLetterPermanent(f, k) \/ ScriptFails(f, k)
        PROVE  sink' = sink
    BY <1>2 DEF ReadPayload, ContractAccepts, ContractRejects, BuryMissing,
                CommitFlushed, DeadLetterPermanent, ScriptFails, store
  <1>3. ASSUME NEW f \in Pod,
               \/ EmptyTick(f) \/ ScanDirty(f) \/ DrainFails(f) \/ RecordMissing(f)
               \/ ReportMissing(f) \/ StartBulkWrite(f)
               \/ \E r \in Report : BulkWriteReturns(f, r)
               \/ BulkWriteFails(f) \/ FinishFlush(f) \/ Crash(f)
        PROVE  sink' = sink
    BY <1>3 DEF EmptyTick, ScanDirty, DrainFails, RecordMissing, ReportMissing,
                StartBulkWrite, BulkWriteReturns, BulkWriteFails, FinishFlush, Crash, store,
                vars
  <1>4. \A k \in Key, p \in Payload : ~ LateApply(k, p)
    BY DEF LateApply
  <1>. QED BY <1>1, <1>2, <1>3, <1>4, NextCases DEF vars, store

LEMMA WrittenGrows ==
    ASSUME TypeOK, [Next]_vars, NEW j \in Key
    PROVE  /\ written[j] <= written'[j]
           /\ written'[j] # written[j] => j \in dirty'
  <1>1. CASE UNCHANGED written
    BY <1>1 DEF TypeOK
  <1>2. ASSUME NEW k \in Key, JournalWrite(k)
        PROVE  /\ written[j] <= written'[j]
               /\ written'[j] # written[j] => j \in dirty'
    BY <1>2 DEF JournalWrite, AtomicWrite, TypeOK
  <1>. QED
    BY <1>1, <1>2, JournalSteps
       DEF JournalKept, JournalExpiry, JournalEviction, JournalScript

\* What a cycle has applied it applied in this step, or before.
LEMMA AppliedSteps ==
    ASSUME TypeOK, ModelsArePayloads, ~Misattribution, [Next]_vars,
           NEW g \in Pod, NEW j \in Key, stage'[g][j] \in {"applied", "commit"}
    PROVE  SinkApplies(g, j) \/ stage[g][j] \in {"applied", "commit"}
  <1>1. CASE UNCHANGED cycle
    BY <1>1 DEF cycle
  <1>2. ASSUME NEW f \in Pod, NEW k \in Key, NEW x \in Stage,
               stage' = [stage EXCEPT ![f][k] = x], x \notin {"applied", "commit"}
        PROVE  stage[g][j] \in {"applied", "commit"}
    BY <1>2 DEF TypeOK
  <1>3. ASSUME NEW f \in Pod, NEW k \in Key,
               \/ ReadPayload(f, k) \/ ContractAccepts(f, k) \/ ContractRejects(f, k)
               \/ BuryMissing(f, k) \/ CommitFlushed(f, k)
               \/ DeadLetterPermanent(f, k) \/ ScriptFails(f, k)
        PROVE  stage[g][j] \in {"applied", "commit"}
    <2>1. \E x \in {"read", "surfaced", "model", "none"} : stage' = [stage EXCEPT ![f][k] = x]
      BY <1>3 DEF ReadPayload, ContractAccepts, ContractRejects, BuryMissing,
                  CommitFlushed, DeadLetterPermanent, ScriptFails
    <2>. QED BY <1>2, <2>1 DEF Stage
  <1>4. ASSUME NEW f \in Pod, NEW k \in Key, SinkApplies(f, k)
        PROVE  SinkApplies(g, j) \/ stage[g][j] \in {"applied", "commit"}
    <2>1. stage' = [stage EXCEPT ![f][k] = "applied"]
      BY <1>4 DEF SinkApplies
    <2>2. (f = g /\ k = j) \/ stage'[g][j] = stage[g][j]
      BY <2>1 DEF TypeOK
    <2>. QED BY <1>4, <2>2
  <1>5. ASSUME NEW f \in Pod, Quit(f) PROVE stage[g][j] \in {"applied", "commit"}
    BY <1>5 DEF Quit, Blank, TypeOK
  <1>9. ASSUME NEW f \in Pod, ScanDirty(f) PROVE stage[g][j] \in {"applied", "commit"}
    <2>1. PICK B : stage' = [stage EXCEPT ![f] =
                               [k \in Key |-> IF k \in B THEN "scanned" ELSE "none"]]
      BY <1>9 DEF ScanDirty
    <2>. QED BY <2>1 DEF TypeOK
  <1>6. ASSUME NEW f \in Pod, NEW r \in Report, BulkWriteReturns(f, r)
        PROVE  stage[g][j] \in {"applied", "commit"}
    <2>1. CASE stage' = [stage EXCEPT ![f] = Partition(f, r)] /\ CheckAttribution(r)
      <3>1. CASE g # f
        BY <2>1, <3>1 DEF TypeOK
      <3>2. CASE g = f
        <4>1. stage'[g][j] = Partition(f, r)[j]
          BY <2>1, <3>2 DEF TypeOK
        <4>2. Partition(f, r)[j] = "commit"
          BY <4>1, PartitionType
        <4>. QED BY <1>6, <2>1, <3>2, <4>2, CommitsAreApplied DEF BulkWriteReturns
      <3>. QED BY <3>1, <3>2
    <2>. QED BY <1>5, <1>6, <2>1 DEF BulkWriteReturns
  <1>7. ASSUME NEW f \in Pod,
               \/ EmptyTick(f) \/ StartBulkWrite(f) \/ FinishFlush(f)
               \/ DrainFails(f) \/ BulkWriteFails(f) \/ Crash(f)
        PROVE  stage[g][j] \in {"applied", "commit"}
    BY <1>5, <1>7 DEF EmptyTick, StartBulkWrite, FinishFlush, DrainFails, BulkWriteFails,
                      Crash, vars, cycle
  <1>8. ASSUME NEW k \in Key,
               \/ \E ts \in Timestamp : Write(k, ts)
               \/ Expire(k)
               \/ Evict(k)
               \/ \E p \in Payload : LateApply(k, p)
        PROVE  UNCHANGED cycle
    BY <1>8 DEF Write, Expire, Evict, LateApply
  <1>10. ASSUME NEW f \in Pod, RecordMissing(f) \/ ReportMissing(f)
         PROVE  stage[g][j] \in {"applied", "commit"}
    BY <1>10, AdvanceOf DEF RecordMissing, ReportMissing
  <1>. QED BY <1>1, <1>3, <1>4, <1>6, <1>7, <1>8, <1>9, <1>10, NextCases DEF vars

\* One key of one cycle, against its document.
Ordered(g, j) ==
    /\ sink[j] <= written[j]
    /\ stage[g][j] \in InFlight => sink[j] <= gotP[g][j] /\ gotP[g][j] <= written[j]
    /\ stage[g][j] \in {"applied", "commit"} => sink[j] = gotP[g][j]

LEMMA StepOrderInv ==
    ASSUME OnePod, PodInv, [Next]_vars
    PROVE  OrderInv'
  <1>. USE DEF PodInv
  <1>1. ASSUME NEW g \in Pod, NEW j \in Key PROVE Ordered(g, j)'
    <2>a. Ordered(g, j)
      BY DEF OrderInv, Ordered
    <2>b. /\ gotP[g][j] \in Nat /\ written[j] \in Nat /\ sink[j] \in Nat /\ payload[j] \in Nat
          /\ written'[j] \in Nat
      BY StepTypeOK DEF TypeOK
    <2>c. written[j] <= written'[j]
      BY WrittenGrows
    <2>1. CASE SinkApplies(g, j)
      <3>1. stage[g][j] \in InFlight
        BY <2>1 DEF SinkApplies, InFlight, Stage
      <3>2. sink'[j] = gotP[g][j] /\ gotP' = gotP /\ written' = written
        BY <2>1 DEF SinkApplies, Apply, TypeOK
      <3>. QED BY <2>a, <2>b, <3>1, <3>2 DEF Ordered
    <2>2. CASE ~ SinkApplies(g, j)
      <3>1. sink'[j] = sink[j]
        <4>1. ASSUME NEW f \in Pod, NEW k \in Key, SinkApplies(f, k) PROVE sink'[j] = sink[j]
          <5>1. k # j
            BY <2>2, <4>1 DEF OnePod
          <5>. QED BY <4>1, <5>1 DEF SinkApplies, Apply, TypeOK
        <4>. QED BY <4>1, SinkSteps
      <3>2. stage'[g][j] \in InFlight => sink'[j] <= gotP'[g][j] /\ gotP'[g][j] <= written'[j]
        <4>. SUFFICES ASSUME stage'[g][j] \in InFlight
                      PROVE  sink'[j] <= gotP'[g][j] /\ gotP'[g][j] <= written'[j]
          OBVIOUS
        <4>1. CASE JustRead(g, j)
          <5>1. j \in dirty'
            BY StepHeldIsDirty DEF HeldIsDirty, InFlight
          <5>2. payload[j] = written[j] /\ written' = written
            BY <4>1, <5>1 DEF JustRead, JournalKept, UnflushedPersists
          <5>. QED BY <2>a, <2>b, <3>1, <4>1, <5>2 DEF JustRead, Ordered
        <4>2. CASE StillRead(g, j)
          BY <2>a, <2>b, <2>c, <3>1, <4>2 DEF StillRead, Ordered
        <4>. QED BY <4>1, <4>2, InFlightSteps DEF OnePod
      <3>3. stage'[g][j] \in {"applied", "commit"} => sink'[j] = gotP'[g][j]
        <4>. SUFFICES ASSUME stage'[g][j] \in {"applied", "commit"}
                      PROVE  sink'[j] = gotP'[g][j]
          OBVIOUS
        <4>1. stage[g][j] \in {"applied", "commit"}
          BY <2>2, AppliedSteps DEF OnePod
        <4>2. gotP'[g][j] = gotP[g][j]
          BY <4>1, InFlightSteps DEF OnePod, InFlight, Stage, JustRead, StillRead
        <4>. QED BY <2>a, <3>1, <4>1, <4>2 DEF Ordered
      <3>. QED BY <2>a, <2>b, <2>c, <3>1, <3>2, <3>3 DEF Ordered
    <2>. QED BY <2>1, <2>2
  <1>2. ASSUME NEW j \in Key PROVE sink'[j] <= written'[j]
    <2>1. CASE sink' = sink
      <3>1. sink[j] \in Nat /\ written[j] \in Nat /\ written'[j] \in Nat
        BY StepTypeOK DEF TypeOK
      <3>. QED BY <2>1, <3>1, WrittenGrows DEF OrderInv
    <2>. QED BY <1>1, <2>1, SinkSteps DEF Ordered
  <1>. QED BY <1>1, <1>2 DEF OrderInv, Ordered

LEMMA StepPodInv ==
    ASSUME OnePod, PodInv, [Next]_vars
    PROVE  PodInv'
  <1>1. TypeOK' /\ HashIsLatest' /\ UnflushedPersists'
    BY StepTypeOK, StepHashIsLatest, StepUnflushedPersists DEF PodInv
  <1>2. late' = {} /\ evicted' = {}
    BY NothingLateOrLost DEF PodInv
  <1>3. HeldIsDirty'
    BY StepHeldIsDirty DEF PodInv
  <1>4. ReadIsVersioned'
    <2>1. ASSUME NEW k \in Key, JournalExpiry(k) PROVE ~Held(k)
      BY <2>1 DEF PodInv, JournalExpiry, UnflushedPersists, HeldIsDirty, Held
    <2>. QED BY <2>1, StepReadIsVersioned DEF OnePod, PodInv
  <1>5. ReadIsWhole' /\ MissingIsRecorded'
    BY StepReadIsWhole, StepMissingIsRecorded DEF OnePod, PodInv
  <1>8. DirtyHasPayload' /\ NothingIsMissing'
    BY <1>3, StepDirtyHasPayload, StepNothingIsMissing DEF PodInv
  <1>6. ModelsArePayloads' /\ AppliedIsStored'
    BY StepModelledAndAccounted DEF OnePod, PodInv
  <1>7. OrderInv'
    BY StepOrderInv
  <1>. QED BY <1>1, <1>2, <1>3, <1>4, <1>5, <1>6, <1>7, <1>8 DEF PodInv

-----------------------------------------------------------------------------
(* A settled key has its latest write in the store.                        *)

\* The commit script finds the sequence the cycle read only when the document
\* is the latest write.
LEMMA CommitsTheLatest ==
    ASSUME PodInv, NEW f \in Pod, NEW j \in Key,
           stage[f][j] = "commit", gotV[f][j] = seq[j]
    PROVE  sink[j] = written[j]
  <1>. USE DEF PodInv
  <1>1. gotP[f][j] = payload[j] /\ gotP[f][j] # Missing
    BY DEF ReadIsVersioned, ModelsArePayloads, InFlight, Stage
  <1>2. payload[j] = written[j]
    BY <1>1 DEF HashIsLatest
  <1>. QED BY <1>1, <1>2 DEF OrderInv

LEMMA StepSettledIsLatest ==
    ASSUME OnePod, OnePodInv, [Next]_vars
    PROVE  SettledIsLatest'
  <1>. SUFFICES ASSUME NEW j \in Key, j \notin dirty', j \notin dlq'
                PROVE  sink'[j] = written'[j]
    BY DEF SettledIsLatest
  <1>. USE DEF OnePodInv, PodInv
  <1>1. written'[j] = written[j]
    BY WrittenGrows
  <1>2. dlq \subseteq dlq'
    BY JournalSteps
       DEF JournalKept, JournalWrite, AtomicWrite, JournalExpiry, JournalEviction, DropHash,
           JournalScript, CommitFlushedScript, DeadLetter, DeadLetterScript, journal
  <1>3. CASE j \notin dirty
    <2>1. \A f \in Pod : ~ SinkApplies(f, j)
      BY <1>3 DEF SinkApplies, HeldIsDirty
    <2>2. sink'[j] = sink[j]
      BY <2>1, SinkSteps DEF SinkApplies, Apply, TypeOK
    <2>. QED BY <1>1, <1>2, <1>3, <2>2 DEF SettledIsLatest
  <1>4. CASE j \in dirty
    <2>1. PICK f \in Pod : gotV[f][j] = seq[j] /\ TakesOut(f, j)
      BY <1>4, LeavesDirty
    <2>2. CommitFlushed(f, j)
      BY <1>4, <2>1 DEF TakesOut, ContractRejects, BuryMissing, DeadLetterPermanent,
                        DeadLetter, DeadLetterScript, journal
    <2>3. sink' = sink /\ stage[f][j] = "commit"
      BY <2>2 DEF CommitFlushed, store
    <2>. QED BY <1>1, <2>1, <2>3, CommitsTheLatest
  <1>. QED BY <1>3, <1>4

LEMMA StepOnePodInv ==
    ASSUME OnePod
    PROVE  OnePodInv /\ [Next]_vars => OnePodInv'
  BY StepPodInv, StepSettledIsLatest DEF OnePodInv

LEMMA OnePodInvariant ==
    ASSUME OnePod
    PROVE  Spec => []OnePodInv
  <1>1. OnePodInv /\ [Next]_vars => OnePodInv'
    BY StepOnePodInv
  <1>. QED BY InitOnePodInv, <1>1, PTL DEF Spec

\* engine.go:206-348 with one pod: a key that is neither dirty nor dead-lettered
\* has its latest write in the store now, whatever failed on the way and however
\* often a cycle was cut off and its keys applied again.
THEOREM SettledKeysAreLatest ==
    ASSUME OnePod
    PROVE  Spec => []SettledIsLatest
  <1>1. OnePodInv => SettledIsLatest
    BY DEF OnePodInv
  <1>. QED BY <1>1, OnePodInvariant, PTL

-----------------------------------------------------------------------------
(* The refinement: every step is a step of WriteBuffer, or none.           *)

\* A key that is not dirty is clean or quarantined, never lost.
LEMMA StatusOfAKey ==
    ASSUME SettledIsLatest, evicted = {}, NEW j \in Key
    PROVE  BufferStatus[j] = IF j \in dirty THEN "pending"
                             ELSE IF sink[j] = written[j] THEN "clean" ELSE "dead"
  BY DEF BufferStatus, SettledIsLatest

LEMMA InitRefines == Init => Buffer!BufferInit
  BY DEF Init, Buffer!BufferInit, BufferStatus, Zeros

\* A step that keeps the history, the documents and the two sets is none.
LEMMA StutterSteps ==
    ASSUME UNCHANGED <<written, sink, dirty, dlq>>
    PROVE  UNCHANGED Buffer!bufferVars
  BY DEF Buffer!bufferVars, BufferStatus

LEMMA WriteRefines ==
    ASSUME OnePodInv, OnePodInv', NEW k \in Key, NEW ts \in Timestamp, Write(k, ts)
    PROVE  Buffer!Accept(k)
  <1>1. /\ written[k] < MaxWrites
        /\ written' = [written EXCEPT ![k] = @ + 1]
        /\ dirty' = dirty \union {k} /\ dlq' = dlq /\ sink' = sink
    BY DEF Write, AtomicWrite, store
  <1>2. BufferStatus' = [BufferStatus EXCEPT ![k] = "pending"]
    BY <1>1 DEF BufferStatus, OnePodInv, PodInv, TypeOK
  <1>. QED BY <1>1, <1>2 DEF Buffer!Accept

LEMMA SinkAppliesRefines ==
    ASSUME OnePodInv, OnePodInv', NEW f \in Pod, NEW k \in Key, SinkApplies(f, k)
    PROVE  \E p \in 1..MaxWrites : Buffer!Persist(k, p)
  <1>1. stage[f][k] = "model" /\ UNCHANGED <<dirty, dlq, written>>
    BY DEF SinkApplies, journal
  <1>2. k \in dirty
    BY <1>1 DEF OnePodInv, PodInv, HeldIsDirty
  <1>3. /\ gotP[f][k] \in 1..MaxWrites
        /\ sink[k] <= gotP[f][k] /\ gotP[f][k] <= written[k]
    <2>1. stage[f][k] \in InFlight
      BY <1>1 DEF InFlight, Stage
    <2>2. gotP[f][k] \in 0..MaxWrites /\ gotP[f][k] # 0
      BY <1>1 DEF OnePodInv, PodInv, ModelsArePayloads, TypeOK, Missing
    <2>3. sink[k] <= gotP[f][k] /\ gotP[f][k] <= written[k]
      BY <2>1 DEF OnePodInv, PodInv, OrderInv
    <2>. QED BY <2>2, <2>3, BandAssumption
  <1>4. sink' = [sink EXCEPT ![k] = gotP[f][k]]
    BY DEF SinkApplies, Apply
  <1>5. BufferStatus[k] = "pending" /\ BufferStatus' = BufferStatus
    BY <1>1, <1>2, <1>4 DEF BufferStatus, OnePodInv, PodInv, TypeOK
  <1>6. Buffer!Persist(k, gotP[f][k])
    BY <1>1, <1>3, <1>4, <1>5 DEF Buffer!Persist
  <1>. QED BY <1>3, <1>6

\* A script that finds another sequence does nothing; one that takes the key out
\* settles it or, when the document is not the latest write, quarantines it.
LEMMA TakesOutRefines ==
    ASSUME OnePodInv, OnePodInv', NEW f \in Pod, NEW k \in Key, TakesOut(f, k)
    PROVE  Buffer!Settle(k) \/ Buffer!Quarantine(k) \/ UNCHANGED Buffer!bufferVars
  <1>1. sink' = sink /\ written' = written
    BY DEF TakesOut, ContractRejects, BuryMissing, CommitFlushed, DeadLetterPermanent, store
  <1>2. stage[f][k] # "none"
    BY DEF TakesOut, ContractRejects, BuryMissing, CommitFlushed, DeadLetterPermanent, InLoop
  <1>3. k \in dirty
    BY <1>2 DEF OnePodInv, PodInv, HeldIsDirty
  <1>4. \/ UNCHANGED <<dirty, dlq>>
        \/ dirty' = dirty \ {k} /\ dlq' \in {dlq, dlq \union {k}}
    BY DEF TakesOut, ContractRejects, BuryMissing, CommitFlushed, DeadLetterPermanent,
           CommitFlushedScript, DeadLetter, DeadLetterScript, journal
  <1>5. CASE UNCHANGED <<dirty, dlq>>
    BY <1>1, <1>5, StutterSteps
  <1>6. CASE dirty' = dirty \ {k} /\ dlq' \in {dlq, dlq \union {k}}
    <2>1. BufferStatus[k] = "pending"
      BY <1>3 DEF BufferStatus
    <2>2. BufferStatus'[k] = IF sink[k] = written[k] THEN "clean" ELSE "dead"
      <3>1. k \notin dirty' /\ evicted' = {} /\ SettledIsLatest'
        BY <1>6 DEF OnePodInv, PodInv
      <3>2. k \notin dlq' => sink'[k] = written'[k]
        BY <3>1 DEF SettledIsLatest
      <3>. QED BY <1>1, <3>1, <3>2 DEF BufferStatus
    <2>3. BufferStatus' = [BufferStatus EXCEPT ![k] = BufferStatus'[k]]
      BY <1>1, <1>6 DEF BufferStatus
    <2>4. CASE sink[k] = written[k]
      BY <1>1, <2>1, <2>2, <2>3, <2>4 DEF Buffer!Settle
    <2>5. CASE sink[k] # written[k]
      BY <1>1, <2>1, <2>2, <2>3, <2>5 DEF Buffer!Quarantine
    <2>. QED BY <2>4, <2>5
  <1>. QED BY <1>4, <1>5, <1>6

LEMMA StepRefines ==
    ASSUME OnePod, OnePodInv, OnePodInv', [Next]_vars
    PROVE  [Buffer!BufferNext]_Buffer!bufferVars
  <1>. USE DEF Buffer!BufferNext
  <1>1. ASSUME NEW k \in Key, NEW ts \in Timestamp, Write(k, ts)
        PROVE  Buffer!BufferNext
    BY <1>1, WriteRefines
  <1>2. ASSUME NEW f \in Pod, NEW k \in Key, SinkApplies(f, k)
        PROVE  Buffer!BufferNext
    BY <1>2, SinkAppliesRefines
  <1>3. ASSUME NEW f \in Pod, NEW k \in Key, TakesOut(f, k)
        PROVE  [Buffer!BufferNext]_Buffer!bufferVars
    BY <1>3, TakesOutRefines
  <1>4. ASSUME NEW k \in Key, Expire(k) \/ Evict(k)
        PROVE  UNCHANGED <<written, sink, dirty, dlq>>
    BY <1>4 DEF Expire, Evict, DropHash, store
  <1>5. \A k \in Key, p \in Payload : ~ LateApply(k, p)
    BY DEF LateApply, OnePodInv, PodInv
  <1>6. ASSUME NEW f \in Pod, NEW k \in Key,
               ReadPayload(f, k) \/ ContractAccepts(f, k) \/ ScriptFails(f, k)
        PROVE  UNCHANGED <<written, sink, dirty, dlq>>
    BY <1>6 DEF ReadPayload, ContractAccepts, ScriptFails, journal, store
  <1>7. ASSUME NEW f \in Pod,
               \/ EmptyTick(f) \/ ScanDirty(f) \/ DrainFails(f) \/ RecordMissing(f)
               \/ ReportMissing(f) \/ StartBulkWrite(f)
               \/ \E r \in Report : BulkWriteReturns(f, r)
               \/ BulkWriteFails(f) \/ FinishFlush(f) \/ Crash(f)
        PROVE  UNCHANGED <<written, sink, dirty, dlq>>
    BY <1>7 DEF EmptyTick, ScanDirty, DrainFails, RecordMissing, ReportMissing,
                StartBulkWrite, BulkWriteReturns, BulkWriteFails, FinishFlush, Crash, vars,
                journal, store
  <1>8. CASE UNCHANGED vars
    BY <1>8, StutterSteps DEF vars, journal, store
  <1>. QED
    BY <1>1, <1>2, <1>3, <1>4, <1>5, <1>6, <1>7, <1>8, StutterSteps, NextCases DEF TakesOut

\* README.md "Durability model": the flush engine of one pod, with its scripts,
\* cut-off cycles, crashes, store errors and expiry, implements WriteBuffer.
THEOREM EngineImplementsBuffer ==
    ASSUME OnePod
    PROVE  Spec => ImplementsBuffer
  <1>1. OnePodInv /\ OnePodInv' /\ [Next]_vars => [Buffer!BufferNext]_Buffer!bufferVars
    BY StepRefines
  <1>. QED
    BY <1>1, InitRefines, OnePodInvariant, PTL DEF Spec, ImplementsBuffer, Buffer!BufferSpec
=============================================================================
