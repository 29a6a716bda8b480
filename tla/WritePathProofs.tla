--------------------------- MODULE WritePathProofs ---------------------------
(***************************************************************************)
(* Proofs, for any keys, callers, readers and contents, of the safety      *)
(* properties of WritePath: what is to be flushed stays in the journal,    *)
(* documents only move forward in time, and what was acknowledged is kept. *)
(*                                                                         *)
(* The steps of the flush engine are those FlushEngineProofs speaks of, so *)
(* its lemmas about a step hold here; only its inductive invariants do     *)
(* not, since the journal is no longer the latest write or nothing.        *)
(***************************************************************************)
EXTENDS WritePath, FlushOnePodProofs

\* What callers and readers have in hand.
CallType ==
    {NoCall} \cup [at : {"guarded"}, key : Key, msg : Message]
             \cup [at : Degraded, key : Key, msg : Message \cup {NoMessage}, n : Payload]

FetchType == {NoFetch} \cup [at : {"hydrate"}, key : Key, p : Payload]

HistoryType ==
    /\ earlier \in [Key -> [Payload -> SUBSET (0..MaxWrites)]]
    /\ acked \in [Key -> SUBSET Payload]
    /\ journaled \in [Key -> 0..MaxWrites]
    /\ mismatched \subseteq Key

\* Only a hash with a payload has a content hash.
HashType ==
    /\ contentHash \in [Key -> Content \cup {None}]
    /\ \A k \in Key : contentHash[k] # None => payload[k] # Missing

PathTypeInv ==
    /\ TypeOK
    /\ HashType
    /\ call \in [Caller -> CallType]
    /\ fetch \in [Reader -> FetchType]
    /\ guard \subseteq Message
    /\ HistoryType

\* A dirty key has a payload, so that no hydration fills it.
JournalInv ==
    \A k \in dirty \ evicted :
        payload[k] # Missing /\ payload[k] = journaled[k] /\ ~expiring[k]

-----------------------------------------------------------------------------
(* Time.                                                                   *)

\* Write a of k was over when write b began.
OverBefore(k, a, b) == b # Missing /\ a \in earlier[k][b]

InDegradedWrite(c, k) == call[c].at \in Degraded /\ call[c].key = k

\* A degraded write that has found its key clean.
PastProbe(c, k) == call[c].at \in {"dead", "store"} /\ call[c].key = k

\* Nothing is of the future.
NumbersInv ==
    \A k \in Key :
        /\ payload[k] <= written[k] /\ sink[k] <= written[k]
        /\ \A f \in Pod : stage[f][k] \in InFlight => gotP[f][k] <= written[k]
        /\ \A r \in Reader : fetch[r].at = "hydrate" /\ fetch[r].key = k => fetch[r].p <= written[k]
        /\ \A m \in Payload : earlier[k][m] \subseteq 0..written[k] /\ m \notin earlier[k][m]

\* A write that is still in its degraded phase is over before none.
DegradedInv ==
    \A c \in Caller, k \in Key :
        InDegradedWrite(c, k) =>
            /\ call[c].n <= written[k]
            /\ \A m \in Payload : call[c].n \notin earlier[k][m]

\* What is to be flushed began too late to be over before the document, or
\* before what a degraded write is about to make the document.
DirtyInv ==
    \A k \in dirty :
        /\ ~ OverBefore(k, payload[k], sink[k])
        /\ \A c \in Caller : PastProbe(c, k) =>
            /\ call[c].n # payload[k]
            /\ ~ OverBefore(k, payload[k], call[c].n)

\* The same of what a cycle has in hand, once it has been written over.
FlightInv ==
    \A f \in Pod, k \in Key :
        stage[f][k] \in InFlight /\ gotP[f][k] # payload[k] =>
            /\ ~ OverBefore(k, gotP[f][k], sink[k])
            /\ ~ OverBefore(k, payload[k], gotP[f][k])
            /\ sink[k] # payload[k]
            /\ \A c \in Caller : PastProbe(c, k) => ~ OverBefore(k, gotP[f][k], call[c].n)

TimeInv ==
    /\ PathTypeInv
    /\ JournalInv
    /\ late = {} /\ evicted = {}
    /\ ModelsArePayloads
    /\ AppliedIsStored
    /\ HeldIsDirty
    /\ MissingIsRecorded
    /\ NothingIsMissing
    /\ NumbersInv
    /\ DegradedInv
    /\ DirtyInv
    /\ FlightInv

-----------------------------------------------------------------------------
(* What was acknowledged.                                                  *)

\* A key on its way to the store carries a write no acknowledged one has
\* superseded, one that has got there has left such a write behind.
KeptInv ==
    \A k \in Key :
        /\ acked[k] \subseteq 1..written[k]
        /\ k \in dirty => payload[k] \notin Superseded(k)
        /\ k \notin dirty \cup dlq \cup mismatched => sink[k] \notin Superseded(k)
        /\ \A f \in Pod :
            stage[f][k] \in {"applied", "commit"} /\ gotV[f][k] = seq[k] /\ k \notin mismatched
                => sink[k] \notin Superseded(k)

AckInv == TimeInv /\ ReadIsVersioned /\ KeptInv

-----------------------------------------------------------------------------
(* The steps of the system.                                                *)

\* An attempt of a Write takes the next number, journaled or not.
Attempts(k) ==
    /\ written[k] < MaxWrites
    /\ written' = [written EXCEPT ![k] = @ + 1]
    /\ Begin(k, written[k] + 1)
    /\ UNCHANGED <<store, cycle, evicted, reports, fetch, guard, mismatched>>

Journals(k) ==
    /\ Attempts(k)
    /\ \E x \in Content : Journal(k, written[k] + 1, x, score'[k])
    /\ \E ts \in Timestamp : Write(k, ts)
    /\ Acknowledge(k, written[k] + 1) \/ UNCHANGED acked

FailsUnseen(k) == Attempts(k) /\ UNCHANGED <<journal, contentHash, journaled, acked>>

Skips(k) ==
    /\ payload[k] # Missing
    /\ BeginAgain(k, payload[k])
    /\ Acknowledge(k, payload[k])
    /\ mismatched' = IF sink[k] = payload[k] \/ StillToBeStored(k)
                     THEN mismatched ELSE mismatched \union {k}
    /\ UNCHANGED <<vars, contentHash, fetch, guard, journaled>>

\* What leaves journal, store, cycles and history alone.
Looks == UNCHANGED <<vars, contentHash, history>>

LEMMA FailedAttempt ==
    ASSUME PathTypeInv, NEW c \in Caller, NEW k \in Key, NEW m, NEW x \in Content,
           NEW ts \in Timestamp, WriteFails(c, k, m, x, ts)
    PROVE  Journals(k) \/ FailsUnseen(k)
  <1>1. Attempts(k) /\ UNCHANGED acked
    BY DEF WriteFails, Attempts
  <1>2. CASE UNCHANGED <<journal, contentHash, journaled>>
    BY <1>1, <1>2 DEF FailsUnseen
  <1>3. CASE Journal(k, written[k] + 1, x, ts)
    <2>1. Write(k, ts)
      BY <1>3 DEF WriteFails, Journal, Write
    <2>2. score'[k] = ts
      BY <2>1 DEF Write, AtomicWrite, PathTypeInv, TypeOK
    <2>. QED BY <1>1, <1>3, <2>1, <2>2 DEF Journals
  <1>. QED BY <1>2, <1>3 DEF WriteFails

LEMMA PathSteps ==
    ASSUME PathTypeInv, [PathNext]_pathVars
    PROVE  \/ EngineStep
           \/ Looks
           \/ \E k \in Key : Journals(k) \/ FailsUnseen(k) \/ Skips(k)
           \/ \E c \in Caller : StoreWrite(c)
           \/ \E r \in Reader : Hydrate(r)
  <1>1. ASSUME NEW c \in Caller,
               \/ \E k \in Key, m \in Message : SetGuard(c, k, m)
               \/ \E m \in Message : RefuseDuplicate(c, m)
               \/ GiveUp(c) \/ ProbeDirty(c) \/ ProbeDead(c)
        PROVE  Looks
    BY <1>1 DEF SetGuard, RefuseDuplicate, GiveUp, ProbeDirty, ProbeDead, Looks, pathVars
  <1>2. ASSUME NEW r \in Reader, FetchFails(r) \/ \E k \in Key : SourceRead(r, k)
        PROVE  Looks
    BY <1>2 DEF FetchFails, SourceRead, Looks
  <1>3. ASSUME NEW c \in Caller, NEW k \in Key, NEW m, NEW x \in Content, NEW ts \in Timestamp,
               WriteJournaled(c, k, m, x, ts)
        PROVE  Journals(k)
    <2>1. Attempts(k)
      BY <1>3 DEF WriteJournaled, Attempts
    <2>2. Write(k, ts)
      BY <1>3 DEF WriteJournaled, Journal, Write
    <2>3. score'[k] = ts
      BY <2>2 DEF Write, AtomicWrite, PathTypeInv, TypeOK
    <2>. QED BY <1>3, <2>1, <2>2, <2>3 DEF WriteJournaled, Journals
  <1>4. ASSUME NEW c \in Caller, NEW k \in Key, NEW m, NEW x \in Content, NEW ts \in Timestamp,
               WriteFails(c, k, m, x, ts)
        PROVE  Journals(k) \/ FailsUnseen(k)
    BY <1>4, FailedAttempt
  <1>5. ASSUME NEW c \in Caller, NEW k \in Key, NEW m, NEW x \in Content, WriteSkipped(c, k, m, x)
        PROVE  Skips(k)
    <2>1. contentHash[k] = x /\ x # None
      BY <1>5, CallerAssumption DEF WriteSkipped, Duplicate
    <2>. QED BY <1>5, <2>1 DEF WriteSkipped, Skips, PathTypeInv, HashType
  <1>. QED
    BY <1>1, <1>2, <1>3, <1>4, <1>5 DEF PathNext, CallStep, FetchStep, Looks, pathVars

\* The engine, and a write that is journaled, make steps of FlushEngine.
LEMMA EngineNext ==
    ASSUME EngineStep
    PROVE  Next /\ written' = written /\ UNCHANGED <<call, fetch, guard, history>>
  <1>1. Next
    BY DEF EngineStep, Next, Environment
  <1>2. ASSUME NEW k \in Key, Expire(k) \/ Evict(k) \/ \E p \in Payload : LateApply(k, p)
        PROVE  written' = written
    BY <1>2 DEF Expire, Evict, LateApply
  <1>3. ASSUME NEW f \in Pod, NEW k \in Key,
               \/ ReadPayload(f, k) \/ ContractAccepts(f, k) \/ ContractRejects(f, k)
               \/ BuryMissing(f, k) \/ SinkApplies(f, k) \/ CommitFlushed(f, k)
               \/ DeadLetterPermanent(f, k) \/ ScriptFails(f, k)
        PROVE  written' = written
    BY <1>3 DEF ReadPayload, ContractAccepts, ContractRejects, BuryMissing, SinkApplies,
                CommitFlushed, DeadLetterPermanent, ScriptFails
  <1>4. ASSUME NEW f \in Pod,
               \/ EmptyTick(f) \/ ScanDirty(f) \/ DrainFails(f) \/ RecordMissing(f)
               \/ ReportMissing(f) \/ StartBulkWrite(f)
               \/ \E r \in Report : BulkWriteReturns(f, r)
               \/ BulkWriteFails(f) \/ FinishFlush(f) \/ Crash(f)
        PROVE  written' = written
    BY <1>4 DEF EmptyTick, ScanDirty, DrainFails, RecordMissing, ReportMissing,
                StartBulkWrite, BulkWriteReturns, BulkWriteFails, FinishFlush, Crash, vars
  <1>5. ASSUME NEW f \in Pod, FlushBand(f) PROVE written' = written
    BY <1>3, <1>4, <1>5 DEF FlushBand
  <1>. QED BY <1>1, <1>2, <1>4, <1>5 DEF EngineStep, callVars

LEMMA WriteNext ==
    ASSUME NEW k \in Key, Journals(k)
    PROVE  Next
  BY DEF Journals, Next, Environment

\* What becomes of a call: it ends, or goes from one stage to the next.
Ends(c) == call' = [call EXCEPT ![c] = NoCall]

TurnsDegraded(c, k) ==
    /\ FailsUnseen(k) \/ Journals(k)
    /\ \E m \in Message \cup {NoMessage} :
         call' = [call EXCEPT ![c] = [at |-> "dirty", key |-> k, msg |-> m, n |-> written[k] + 1]]

LEMMA CallSteps ==
    ASSUME PathTypeInv, [PathNext]_pathVars
    PROVE  \/ call' = call
           \/ \E c \in Caller :
                \/ Ends(c)
                \/ \E k \in Key, m \in Message : SetGuard(c, k, m)
                \/ \E k \in Key : TurnsDegraded(c, k)
                \/ ProbeDirty(c) \/ ProbeDead(c)
  <1>1. ASSUME NEW c \in Caller, NEW k \in Key, NEW m \in Message \cup {NoMessage},
               NEW x \in Content, NEW ts \in Timestamp, WriteFails(c, k, m, x, ts)
        PROVE  Ends(c) \/ TurnsDegraded(c, k)
    <2>1. Journals(k) \/ FailsUnseen(k)
      BY <1>1, FailedAttempt
    <2>. QED BY <1>1, <2>1 DEF WriteFails, TurnsDegraded, Ends
  <1>2. ASSUME NEW c \in Caller,
               \/ \E k \in Key : \E m, x, ts : WriteJournaled(c, k, m, x, ts)
               \/ \E k \in Key : \E m, x : WriteSkipped(c, k, m, x)
               \/ GiveUp(c) \/ StoreWrite(c)
        PROVE  Ends(c)
    BY <1>2 DEF WriteJournaled, WriteSkipped, GiveUp, StoreWrite, Ends
  <1>3. ASSUME NEW c \in Caller, NEW m \in Message, RefuseDuplicate(c, m)
        PROVE  call' = call
    BY <1>3 DEF RefuseDuplicate, pathVars, callVars
  <1>4. ASSUME EngineStep PROVE call' = call
    BY <1>4, EngineNext
  <1>5. ASSUME NEW r \in Reader, FetchStep(r) PROVE call' = call
    BY <1>5 DEF FetchStep, SourceRead, Hydrate, FetchFails, callVars
  <1>. QED
    BY <1>1, <1>2, <1>3, <1>4, <1>5 DEF PathNext, CallStep, pathVars, callVars

LEMMA StepCallType ==
    ASSUME PathTypeInv, [PathNext]_pathVars
    PROVE  call' \in [Caller -> CallType]
  <1>0. call \in [Caller -> CallType]
    BY DEF PathTypeInv
  <1>1. ASSUME NEW c \in Caller, Ends(c) PROVE call' \in [Caller -> CallType]
    BY <1>0, <1>1 DEF Ends, CallType
  <1>2. ASSUME NEW c \in Caller, NEW k \in Key, NEW m \in Message, SetGuard(c, k, m)
        PROVE  call' \in [Caller -> CallType]
    BY <1>0, <1>2 DEF SetGuard, CallType
  <1>3. ASSUME NEW c \in Caller, NEW k \in Key, TurnsDegraded(c, k)
        PROVE  call' \in [Caller -> CallType]
    <2>1. written[k] + 1 \in Payload
      BY <1>3, BandAssumption DEF TurnsDegraded, FailsUnseen, Journals, Attempts, PathTypeInv, TypeOK, Payload
    <2>2. PICK m \in Message \cup {NoMessage} :
            call' = [call EXCEPT ![c] = [at |-> "dirty", key |-> k, msg |-> m, n |-> written[k] + 1]]
      BY <1>3 DEF TurnsDegraded
    <2>3. [at |-> "dirty", key |-> k, msg |-> m, n |-> written[k] + 1] \in CallType
      BY <2>1 DEF CallType, Degraded
    <2>. QED BY <1>0, <2>2, <2>3
  <1>4. ASSUME NEW c \in Caller, ProbeDirty(c) \/ ProbeDead(c)
        PROVE  call' \in [Caller -> CallType]
    <2>1. call[c].at \in {"dirty", "dead"}
      BY <1>4 DEF ProbeDirty, ProbeDead
    <2>2. call[c] \in [at : Degraded, key : Key, msg : Message \cup {NoMessage}, n : Payload]
      BY <1>0, <2>1 DEF CallType, NoCall
    <2>3. PICK a \in Degraded : call' = [call EXCEPT ![c].at = a]
      BY <1>4 DEF ProbeDirty, ProbeDead, Degraded
    <2>4. [call[c] EXCEPT !.at = a] \in CallType
      BY <2>2 DEF CallType
    <2>5. call' = [call EXCEPT ![c] = [call[c] EXCEPT !.at = a]]
      BY <2>3
    <2>. QED BY <1>0, <2>4, <2>5
  <1>. QED BY <1>0, <1>1, <1>2, <1>3, <1>4, CallSteps

LEMMA FetchSteps ==
    ASSUME [PathNext]_pathVars
    PROVE  \/ fetch' = fetch
           \/ \E r \in Reader :
                \/ fetch' = [fetch EXCEPT ![r] = NoFetch]
                \/ \E k \in Key : SourceRead(r, k)
  <1>1. ASSUME NEW c \in Caller, CallStep(c) PROVE fetch' = fetch
    BY <1>1 DEF CallStep, SetGuard, RefuseDuplicate, WriteJournaled, WriteSkipped, WriteFails,
                GiveUp, ProbeDirty, ProbeDead, StoreWrite, pathVars
  <1>2. ASSUME EngineStep PROVE fetch' = fetch
    BY <1>2, EngineNext
  <1>3. ASSUME NEW r \in Reader, Hydrate(r) \/ FetchFails(r)
        PROVE  fetch' = [fetch EXCEPT ![r] = NoFetch]
    BY <1>3 DEF Hydrate, FetchFails
  <1>. QED BY <1>1, <1>2, <1>3 DEF PathNext, FetchStep, pathVars

LEMMA StepFetchType ==
    ASSUME PathTypeInv, [PathNext]_pathVars
    PROVE  fetch' \in [Reader -> FetchType]
  <1>0. fetch \in [Reader -> FetchType]
    BY DEF PathTypeInv
  <1>1. ASSUME NEW r \in Reader, fetch' = [fetch EXCEPT ![r] = NoFetch]
        PROVE  fetch' \in [Reader -> FetchType]
    BY <1>0, <1>1 DEF FetchType
  <1>2. ASSUME NEW r \in Reader, NEW k \in Key, SourceRead(r, k)
        PROVE  fetch' \in [Reader -> FetchType]
    <2>1. sink[k] \in Payload
      BY <1>2 DEF SourceRead, PathTypeInv, TypeOK, Payload, Missing
    <2>. QED BY <1>0, <1>2, <2>1 DEF SourceRead, FetchType
  <1>. QED BY <1>0, <1>1, <1>2, FetchSteps

LEMMA StepGuardType ==
    ASSUME PathTypeInv, [PathNext]_pathVars
    PROVE  guard' \subseteq Message
  <1>0. guard \subseteq Message
    BY DEF PathTypeInv
  <1>1. ASSUME NEW c \in Caller, CallStep(c)
        PROVE  guard' = guard \/ \E m \in Message : guard' = guard \cup {m}
    BY <1>1 DEF CallStep, SetGuard, RefuseDuplicate, WriteJournaled, WriteSkipped, WriteFails,
                GiveUp, ProbeDirty, ProbeDead, StoreWrite, pathVars, callVars
  <1>2. ASSUME EngineStep PROVE guard' = guard
    BY <1>2, EngineNext
  <1>3. ASSUME NEW r \in Reader, FetchStep(r) PROVE guard' = guard
    BY <1>3 DEF FetchStep, SourceRead, Hydrate, FetchFails, callVars
  <1>. QED BY <1>0, <1>1, <1>2, <1>3 DEF PathNext, pathVars, callVars

-----------------------------------------------------------------------------
(* Type correctness.                                                       *)

\* Most steps are steps of FlushEngine; the others are the attempt the journal
\* does not take, the degraded write and the hydration.
LEMMA EngineOrNot ==
    ASSUME PathTypeInv, [PathNext]_pathVars
    PROVE  \/ [Next]_vars
           \/ \E k \in Key : FailsUnseen(k)
           \/ \E c \in Caller : StoreWrite(c)
           \/ \E r \in Reader : Hydrate(r)
  BY PathSteps, EngineNext, WriteNext DEF Looks, Skips

LEMMA StepPathTypeOK ==
    ASSUME PathTypeInv, [PathNext]_pathVars
    PROVE  TypeOK'
  <1>0. TypeOK
    BY DEF PathTypeInv
  <1>1. ASSUME NEW k \in Key, FailsUnseen(k) PROVE TypeOK'
    BY <1>0, <1>1, BandAssumption
       DEF FailsUnseen, Attempts, TypeOK, journal, store, cycle, reports
  <1>2. ASSUME NEW c \in Caller, StoreWrite(c) PROVE TypeOK'
    <2>1. call[c].key \in Key /\ call[c].n \in 0..MaxWrites
      BY <1>2 DEF StoreWrite, PathTypeInv, CallType, NoCall, Payload
    <2>. QED BY <1>0, <1>2, <2>1 DEF StoreWrite, Apply, TypeOK, journal, cycle, reports
  <1>3. ASSUME NEW r \in Reader, Hydrate(r) PROVE TypeOK'
    <2>1. fetch[r].key \in Key /\ fetch[r].p \in 0..MaxWrites
      BY <1>3 DEF Hydrate, PathTypeInv, FetchType, NoFetch, Payload
    <2>. QED BY <1>0, <1>3, <2>1 DEF Hydrate, HydrateScript, TypeOK, journal, store, cycle, reports
  <1>. QED BY <1>0, <1>1, <1>2, <1>3, EngineOrNot, StepTypeOK

LEMMA StepHashType ==
    ASSUME PathTypeInv, [PathNext]_pathVars
    PROVE  HashType'
  <1>0. HashType /\ payload \in [Key -> 0..MaxWrites] /\ written \in [Key -> 0..MaxWrites]
    BY DEF PathTypeInv, TypeOK
  <1>1. CASE UNCHANGED <<payload, contentHash>>
    BY <1>0, <1>1 DEF HashType
  <1>2. CASE EngineStep
    BY <1>0, <1>2, CallerAssumption DEF EngineStep, HashType
  <1>3. ASSUME NEW k \in Key, Journals(k) PROVE HashType'
    <2>1. PICK x \in Content : SetContentHash(k, x)
      BY <1>3 DEF Journals, Journal
    <2>2. payload' = [payload EXCEPT ![k] = written[k] + 1] /\ written[k] + 1 # Missing
      BY <1>0, <1>3 DEF Journals, Journal, AtomicWrite, Missing
    <2>. QED BY <1>0, <2>1, <2>2 DEF SetContentHash, HashType
  <1>4. ASSUME NEW r \in Reader, Hydrate(r) PROVE HashType'
    <2>1. fetch[r].key \in Key
      BY <1>4 DEF Hydrate, PathTypeInv, FetchType, NoFetch
    <2>. QED BY <1>0, <1>1, <1>4, <2>1 DEF Hydrate, HydrateScript, HashType, journal
  <1>. QED
    BY <1>1, <1>2, <1>3, <1>4, PathSteps
       DEF Looks, FailsUnseen, Skips, StoreWrite, vars, journal

LEMMA BeginTypes ==
    ASSUME PathTypeInv, NEW k \in Key, NEW n, Begin(k, n) \/ BeginAgain(k, n)
    PROVE  earlier' \in [Key -> [Payload -> SUBSET (0..MaxWrites)]]
  <1>0. earlier \in [Key -> [Payload -> SUBSET (0..MaxWrites)]] /\ written[k] \in 0..MaxWrites
    BY DEF PathTypeInv, HistoryType, TypeOK
  <1>1. 0..written[k] \subseteq 0..MaxWrites
    BY <1>0, BandAssumption
  <1>2. CASE Begin(k, n)
    <2>1. [earlier[k] EXCEPT ![n] = (0..written[k]) \ {call[c].n : c \in InDegraded(k)}]
            \in [Payload -> SUBSET (0..MaxWrites)]
      BY <1>0, <1>1
    <2>2. earlier' = [earlier EXCEPT ![k] =
            [earlier[k] EXCEPT ![n] = (0..written[k]) \ {call[c].n : c \in InDegraded(k)}]]
      BY <1>2 DEF Begin
    <2>. QED BY <1>0, <2>1, <2>2
  <1>3. CASE BeginAgain(k, n)
    <2>. DEFINE E == [i \in Payload |->
                       IF i = n THEN (0..written[k]) \ ({n} \union {call[c].n : c \in InDegraded(k)})
                       ELSE earlier[k][i] \ {n}]
    <2>1. E \in [Payload -> SUBSET (0..MaxWrites)]
      BY <1>0, <1>1
    <2>2. earlier' = [earlier EXCEPT ![k] = E]
      BY <1>3 DEF BeginAgain
    <2>. QED BY <1>0, <2>1, <2>2
  <1>. QED BY <1>2, <1>3

LEMMA StepHistoryType ==
    ASSUME PathTypeInv, [PathNext]_pathVars
    PROVE  HistoryType'
  <1>0. HistoryType /\ TypeOK
    BY DEF PathTypeInv
  <1>1. CASE UNCHANGED history
    BY <1>0, <1>1 DEF HistoryType, history
  <1>2. ASSUME NEW k \in Key, Journals(k) \/ FailsUnseen(k) PROVE HistoryType'
    <2>1. Attempts(k) /\ written[k] + 1 \in Payload
      BY <1>0, <1>2, BandAssumption DEF Journals, FailsUnseen, Attempts, TypeOK, Payload
    <2>2. earlier' \in [Key -> [Payload -> SUBSET (0..MaxWrites)]] /\ mismatched' = mismatched
      BY <2>1, BeginTypes DEF Attempts
    <2>3. acked' = acked \/ Acknowledge(k, written[k] + 1)
      BY <1>2 DEF Journals, FailsUnseen
    <2>4. journaled' = journaled \/ journaled' = [journaled EXCEPT ![k] = written[k] + 1]
      BY <1>2 DEF Journals, Journal, FailsUnseen
    <2>5. acked' \in [Key -> SUBSET Payload]
      BY <1>0, <2>1, <2>3 DEF HistoryType, Acknowledge
    <2>6. journaled' \in [Key -> 0..MaxWrites]
      BY <1>0, <2>1, <2>4 DEF HistoryType, Payload
    <2>. QED BY <1>0, <2>2, <2>5, <2>6 DEF HistoryType
  <1>3. ASSUME NEW k \in Key, Skips(k) PROVE HistoryType'
    <2>1. payload[k] \in Payload
      BY <1>0, <1>3 DEF Skips, TypeOK, Payload, Missing
    <2>2. acked' \in [Key -> SUBSET Payload]
      BY <1>0, <1>3, <2>1 DEF Skips, Acknowledge, HistoryType
    <2>3. earlier' \in [Key -> [Payload -> SUBSET (0..MaxWrites)]]
      BY <1>3, BeginTypes DEF Skips
    <2>4. mismatched' \subseteq Key /\ journaled' = journaled
      BY <1>0, <1>3 DEF Skips, HistoryType
    <2>. QED BY <1>0, <2>2, <2>3, <2>4 DEF HistoryType
  <1>4. ASSUME NEW c \in Caller, StoreWrite(c) PROVE HistoryType'
    <2>1. call[c].key \in Key /\ call[c].n \in Payload
      BY <1>4 DEF StoreWrite, PathTypeInv, CallType, NoCall
    <2>. QED BY <1>0, <1>4, <2>1 DEF StoreWrite, Acknowledge, HistoryType
  <1>5. ASSUME NEW r \in Reader, Hydrate(r) PROVE HistoryType'
    BY <1>1, <1>5 DEF Hydrate
  <1>6. CASE EngineStep
    BY <1>1, <1>6, EngineNext
  <1>. QED BY <1>1, <1>2, <1>3, <1>4, <1>5, <1>6, PathSteps DEF Looks

LEMMA InitPathType == PathInit => PathTypeInv
  <1>. SUFFICES ASSUME PathInit PROVE PathTypeInv
    OBVIOUS
  <1>1. TypeOK
    BY InitTypeOK DEF PathInit
  <1>2. HashType
    BY DEF PathInit, HashType
  <1>3. HistoryType
    BY BandAssumption DEF PathInit, HistoryType, Zeros
  <1>. QED BY <1>1, <1>2, <1>3 DEF PathInit, PathTypeInv, CallType, FetchType

LEMMA PathTypeInvariant == PathSpec => []PathTypeInv
  <1>1. PathTypeInv /\ [PathNext]_pathVars => PathTypeInv'
    BY StepPathTypeOK, StepHashType, StepCallType, StepFetchType, StepGuardType, StepHistoryType
       DEF PathTypeInv
  <1>. QED BY <1>1, InitPathType, PTL DEF PathSpec

\* sluice.go:649-735, 739-797, 1134 and shield/types.go: calls and fetches carry writes that
\* were attempted and documents that exist, and an acknowledgement is of a payload, also
\* when the script only compared hashes.
THEOREM PathTypeCorrect == PathSpec => []PathTypeOK
  <1>1. PathTypeInv => PathTypeOK
    <2>. SUFFICES ASSUME PathTypeInv PROVE PathTypeOK
      OBVIOUS
    <2>1. \A c \in Caller : /\ call[c].at \in {"idle", "guarded"} \union Degraded
                            /\ call[c].at \in Degraded => call[c].n \in Payload
      BY DEF PathTypeInv, CallType, NoCall, Degraded
    <2>2. \A r \in Reader : fetch[r].at = "hydrate" => fetch[r].p \in Payload
      BY DEF PathTypeInv, FetchType, NoFetch
    <2>. QED BY <2>1, <2>2 DEF PathTypeInv, PathTypeOK, HashType, HistoryType
  <1>. QED BY <1>1, PathTypeInvariant, PTL

-----------------------------------------------------------------------------
(* What is to be flushed stays in the journal.                             *)

LEMMA StepJournalInv ==
    ASSUME PathTypeInv, JournalInv, [PathNext]_pathVars
    PROVE  JournalInv'
  <1>. SUFFICES ASSUME NEW j \in Key, j \in dirty', j \notin evicted'
                PROVE  payload'[j] # Missing /\ payload'[j] = journaled'[j] /\ ~expiring'[j]
    BY StepPathTypeOK DEF JournalInv, TypeOK
  <1>0. TypeOK /\ HistoryType
    BY DEF PathTypeInv
  <1>1. CASE UNCHANGED <<journal, evicted, journaled>>
    BY <1>1 DEF JournalInv, journal
  <1>2. CASE EngineStep
    <2>1. [Next]_vars /\ written' = written /\ journaled' = journaled
      BY <1>2, EngineNext DEF history
    <2>2. CASE JournalKept
      BY <2>1, <2>2 DEF JournalKept, JournalInv
    <2>3. ASSUME NEW k \in Key, JournalWrite(k) PROVE FALSE
      BY <1>0, <2>1, <2>3 DEF JournalWrite, TypeOK
    <2>4. ASSUME NEW k \in Key, JournalExpiry(k) \/ JournalEviction(k)
          PROVE  payload'[j] # Missing /\ payload'[j] = journaled'[j] /\ ~expiring'[j]
      <3>1. j # k /\ j \in dirty \ evicted
        BY <2>4 DEF JournalExpiry, JournalEviction, DropHash, JournalInv
      <3>. QED
        BY <1>0, <2>1, <2>4, <3>1 DEF JournalExpiry, JournalEviction, DropHash, JournalInv, TypeOK
    <2>5. ASSUME NEW k \in Key, NEW v, JournalScript(k, v)
          PROVE  payload'[j] # Missing /\ payload'[j] = journaled'[j] /\ ~expiring'[j]
      <3>1. UNCHANGED journal \/ (j # k /\ j \in dirty)
        BY <2>5 DEF JournalScript, CommitFlushedScript, DeadLetter, DeadLetterScript
      <3>2. UNCHANGED payload /\ (expiring'[j] = expiring[j] \/ j = k)
        BY <1>0, <2>5, ScriptsKeepHashes
           DEF JournalScript, CommitFlushedScript, DeadLetter, DeadLetterScript, journal, TypeOK
      <3>. QED BY <2>1, <2>5, <3>1, <3>2 DEF JournalScript, JournalInv, journal
    <2>. QED BY <2>1, <2>2, <2>3, <2>4, <2>5, JournalSteps
  <1>3. ASSUME NEW k \in Key, Journals(k)
        PROVE  payload'[j] # Missing /\ payload'[j] = journaled'[j] /\ ~expiring'[j]
    <2>1. /\ payload' = [payload EXCEPT ![k] = written[k] + 1]
          /\ journaled' = [journaled EXCEPT ![k] = written[k] + 1]
          /\ expiring' = [expiring EXCEPT ![k] = FALSE]
          /\ dirty' = dirty \cup {k} /\ evicted' = evicted /\ written[k] + 1 # Missing
      BY <1>0, <1>3 DEF Journals, Journal, AtomicWrite, Attempts, TypeOK, Missing
    <2>. QED BY <1>0, <2>1 DEF JournalInv, TypeOK, HistoryType
  <1>4. ASSUME NEW r \in Reader, Hydrate(r)
        PROVE  payload'[j] # Missing /\ payload'[j] = journaled'[j] /\ ~expiring'[j]
    <2>1. fetch[r].key \in Key
      BY <1>4 DEF Hydrate, PathTypeInv, FetchType, NoFetch
    <2>2. /\ dirty' = dirty /\ evicted' = evicted /\ journaled' = journaled
          /\ payload[j] # Missing => payload'[j] = payload[j] /\ expiring'[j] = expiring[j]
      BY <1>0, <1>4, <2>1 DEF Hydrate, HydrateScript, TypeOK, journal, history
    <2>. QED BY <2>2 DEF JournalInv
  <1>. QED
    BY <1>1, <1>2, <1>3, <1>4, PathSteps
       DEF Looks, FailsUnseen, Attempts, Skips, StoreWrite, vars, history

\* README.md:525 and hydrateLua, for every sink, fleet of pods, failure and length of a
\* cycle: neither a degraded write nor a Source document, however old, touches what is
\* still to be flushed; no deduplication, commit or expiry does.
THEOREM JournaledWritesPersist == PathSpec => []JournaledPersists
  <1>1. PathInit => PathTypeInv /\ JournalInv
    BY InitPathType DEF PathInit, Init, JournalInv
  <1>2. PathTypeInv /\ JournalInv /\ [PathNext]_pathVars => (PathTypeInv /\ JournalInv)'
    BY StepJournalInv, StepPathTypeOK, StepHashType, StepCallType, StepFetchType, StepGuardType,
       StepHistoryType DEF PathTypeInv
  <1>3. JournalInv => JournaledPersists
    BY DEF JournalInv, JournaledPersists
  <1>. QED BY <1>1, <1>2, <1>3, PTL DEF PathSpec

-----------------------------------------------------------------------------
(* The steps again, by what they do to one key.                            *)

\* Numbers are only added.
LEMMA WrittenSteps ==
    ASSUME PathTypeInv, [PathNext]_pathVars, NEW j \in Key
    PROVE  /\ written[j] \in 0..MaxWrites /\ written'[j] \in 0..MaxWrites
           /\ written'[j] = written[j] \/ (Attempts(j) /\ written'[j] = written[j] + 1)
  <1>1. written \in [Key -> 0..MaxWrites] /\ written'[j] \in 0..MaxWrites
    BY StepPathTypeOK DEF PathTypeInv, TypeOK
  <1>2. ASSUME NEW k \in Key, Attempts(k)
        PROVE  written'[j] = written[j] \/ (Attempts(j) /\ written'[j] = written[j] + 1)
    <2>1. CASE k = j
      BY <1>1, <1>2, <2>1 DEF Attempts
    <2>2. CASE k # j
      BY <1>1, <1>2, <2>2 DEF Attempts
    <2>. QED BY <2>1, <2>2
  <1>3. \/ written' = written
        \/ \E k \in Key : Attempts(k)
    BY PathSteps, EngineNext DEF Looks, Journals, FailsUnseen, Skips, StoreWrite, Hydrate, vars
  <1>. QED BY <1>1, <1>2, <1>3

\* A degraded write goes on with its number, or takes a new one.
LEMMA DegradedSteps ==
    ASSUME PathTypeInv, [PathNext]_pathVars, NEW c \in Caller, NEW j \in Key,
           InDegradedWrite(c, j)'
    PROVE  \/ /\ InDegradedWrite(c, j) /\ call'[c].n = call[c].n
              /\ PastProbe(c, j)' => PastProbe(c, j) \/ (j \notin dirty /\ UNCHANGED vars)
           \/ Attempts(j) /\ call'[c].n = written[j] + 1 /\ ~ PastProbe(c, j)'
  <1>0. call \in [Caller -> CallType]
    BY DEF PathTypeInv
  <1>1. CASE call'[c] = call[c]
    BY <1>1 DEF InDegradedWrite, PastProbe
  <1>2. CASE Ends(c)
    BY <1>0, <1>2 DEF Ends, InDegradedWrite, NoCall, Degraded
  <1>3. ASSUME NEW k \in Key, NEW m, SetGuard(c, k, m) PROVE FALSE
    BY <1>0, <1>3 DEF SetGuard, InDegradedWrite, Degraded
  <1>4. ASSUME NEW k \in Key, TurnsDegraded(c, k)
        PROVE  Attempts(j) /\ call'[c].n = written[j] + 1 /\ ~ PastProbe(c, j)'
    <2>1. PICK m \in Message \cup {NoMessage} :
            call'[c] = [at |-> "dirty", key |-> k, msg |-> m, n |-> written[k] + 1]
      BY <1>0, <1>4 DEF TurnsDegraded
    <2>2. k = j
      BY <2>1 DEF InDegradedWrite
    <2>. QED BY <1>4, <2>1, <2>2 DEF TurnsDegraded, Journals, FailsUnseen, PastProbe
  <1>5. CASE ProbeDirty(c) \/ ProbeDead(c)
    <2>1. call[c] \in [at : Degraded, key : Key, msg : Message \cup {NoMessage}, n : Payload]
      BY <1>0, <1>5 DEF ProbeDirty, ProbeDead, CallType, NoCall
    <2>2. call'[c].key = call[c].key /\ call'[c].n = call[c].n
      BY <1>0, <1>5, <2>1 DEF ProbeDirty, ProbeDead
    <2>3. call[c].at = "dead" \/ (call[c].key \notin dirty /\ UNCHANGED vars)
      BY <1>5 DEF ProbeDirty, ProbeDead
    <2>. QED BY <2>1, <2>2, <2>3 DEF InDegradedWrite, PastProbe
  <1>. QED
    <2>1. ASSUME NEW d \in Caller, d # c,
                 \/ Ends(d)
                 \/ \E k \in Key, m \in Message : SetGuard(d, k, m)
                 \/ \E k \in Key : TurnsDegraded(d, k)
                 \/ ProbeDirty(d) \/ ProbeDead(d)
          PROVE  call'[c] = call[c]
      BY <1>0, <2>1 DEF Ends, SetGuard, TurnsDegraded, ProbeDirty, ProbeDead
    <2>. QED BY <1>1, <1>2, <1>3, <1>4, <1>5, <2>1, CallSteps

\* The payload of a dirty key changes, and a key gets dirty, only by a write.
LEMMA DirtySteps ==
    ASSUME PathTypeInv, JournalInv, evicted = {}, evicted' = {}, [PathNext]_pathVars, NEW j \in Key
    PROVE  /\ j \in dirty' => (j \in dirty /\ payload'[j] = payload[j]) \/ Journals(j)
           /\ j \in dirty => payload'[j] = payload[j] \/ Journals(j)
  <1>0. TypeOK
    BY DEF PathTypeInv
  <1>1. CASE UNCHANGED <<payload, dirty>>
    BY <1>1
  <1>2. CASE EngineStep
    <2>1. [Next]_vars /\ written' = written
      BY <1>2, EngineNext
    <2>2. ASSUME NEW k \in Key, JournalWrite(k) PROVE FALSE
      BY <1>0, <2>1, <2>2 DEF JournalWrite, TypeOK
    <2>3. ASSUME NEW k \in Key, JournalExpiry(k)
          PROVE  dirty' = dirty /\ (j \in dirty => payload'[j] = payload[j])
      BY <1>0, <2>3 DEF JournalExpiry, DropHash, JournalInv, TypeOK
    <2>4. ASSUME NEW k \in Key, JournalEviction(k) PROVE FALSE
      BY <2>4 DEF JournalEviction
    <2>5. ASSUME NEW k \in Key, NEW v, JournalScript(k, v)
          PROVE  dirty' \subseteq dirty /\ payload' = payload
      BY <2>5, ScriptsKeepHashes
         DEF JournalScript, CommitFlushedScript, DeadLetter, DeadLetterScript, journal
    <2>. QED BY <2>1, <2>2, <2>3, <2>4, <2>5, JournalSteps DEF JournalKept
  <1>3. ASSUME NEW k \in Key, Journals(k), k # j PROVE UNCHANGED payload[j] /\ (j \in dirty' => j \in dirty)
    BY <1>0, <1>3 DEF Journals, Journal, AtomicWrite, TypeOK
  <1>4. ASSUME NEW r \in Reader, Hydrate(r)
        PROVE  dirty' = dirty /\ (j \in dirty => payload'[j] = payload[j])
    <2>1. fetch[r].key \in Key
      BY <1>4 DEF Hydrate, PathTypeInv, FetchType, NoFetch
    <2>. QED BY <1>0, <1>4, <2>1 DEF Hydrate, HydrateScript, JournalInv, TypeOK, journal
  <1>. QED
    BY <1>1, <1>2, <1>3, <1>4, PathSteps
       DEF Looks, FailsUnseen, Attempts, Skips, StoreWrite, vars, journal

\* A document changes by the cycle that has its key, or by a degraded write.
StoresFor(c, k) == StoreWrite(c) /\ call[c].key = k /\ PastProbe(c, k)

LEMMA DocumentSteps ==
    ASSUME PathTypeInv, late = {}, [PathNext]_pathVars, NEW j \in Key
    PROVE  \/ sink'[j] = sink[j]
           \/ \E f \in Pod : SinkApplies(f, j) /\ EngineStep /\ sink'[j] = gotP[f][j]
           \/ \E c \in Caller : StoresFor(c, j) /\ sink'[j] = call[c].n
  <1>0. TypeOK
    BY DEF PathTypeInv
  <1>1. CASE EngineStep
    <2>1. [Next]_vars
      BY <1>1, EngineNext
    <2>2. ASSUME NEW f \in Pod, NEW k \in Key, SinkApplies(f, k), sink'[j] # sink[j]
          PROVE  k = j /\ sink'[j] = gotP[f][j]
      BY <1>0, <2>2 DEF SinkApplies, Apply, TypeOK
    <2>. QED BY <1>1, <2>1, <2>2, SinkSteps
  <1>2. ASSUME NEW c \in Caller, StoreWrite(c)
        PROVE  sink'[j] = sink[j] \/ (StoresFor(c, j) /\ sink'[j] = call[c].n)
    BY <1>0, <1>2 DEF StoreWrite, Apply, StoresFor, PastProbe, TypeOK
  <1>3. CASE sink' = sink
    BY <1>3
  <1>. QED
    BY <1>1, <1>2, <1>3, PathSteps
       DEF Looks, Journals, FailsUnseen, Attempts, Skips, Hydrate, vars, store

-----------------------------------------------------------------------------
(* What was over when a write began.                                       *)

LEMMA BeginMembers ==
    ASSUME PathTypeInv, NEW k \in Key, NEW n \in Payload, Begin(k, n),
           NEW j \in Key, NEW m \in Payload, NEW a
    PROVE  a \in earlier'[j][m] <=>
             IF j = k /\ m = n
             THEN a \in 0..written[k] /\ \A c \in Caller : InDegradedWrite(c, k) => a # call[c].n
             ELSE a \in earlier[j][m]
  <1>0. earlier \in [Key -> [Payload -> SUBSET (0..MaxWrites)]]
    BY DEF PathTypeInv, HistoryType
  <1>1. CASE j = k /\ m = n
    <2>1. earlier'[j][m] = (0..written[k]) \ {call[c].n : c \in InDegraded(k)}
      BY <1>0, <1>1 DEF Begin
    <2>. QED BY <1>1, <2>1 DEF InDegraded, InDegradedWrite
  <1>2. CASE ~ (j = k /\ m = n)
    BY <1>0, <1>2 DEF Begin
  <1>. QED BY <1>1, <1>2

LEMMA BeginAgainMembers ==
    ASSUME PathTypeInv, NEW k \in Key, NEW p \in Payload, BeginAgain(k, p),
           NEW j \in Key, NEW m \in Payload, NEW a
    PROVE  a \in earlier'[j][m] <=>
             IF j = k /\ m = p
             THEN /\ a \in 0..written[k] /\ a # p
                  /\ \A c \in Caller : InDegradedWrite(c, k) => a # call[c].n
             ELSE a \in earlier[j][m] /\ (j = k => a # p)
  <1>0. earlier \in [Key -> [Payload -> SUBSET (0..MaxWrites)]]
    BY DEF PathTypeInv, HistoryType
  <1>1. CASE j # k
    BY <1>0, <1>1 DEF BeginAgain
  <1>2. CASE j = k
    <2>1. earlier'[j][m] = IF m = p THEN (0..written[k]) \ ({p} \union {call[c].n : c \in InDegraded(k)})
                           ELSE earlier[k][m] \ {p}
      BY <1>0, <1>2 DEF BeginAgain
    <2>. QED BY <1>2, <2>1 DEF InDegraded, InDegradedWrite
  <1>. QED BY <1>1, <1>2

LEMMA OrderSteps ==
    ASSUME PathTypeInv, [PathNext]_pathVars
    PROVE  UNCHANGED earlier \/ \E k \in Key : Attempts(k) \/ Skips(k)
  BY PathSteps, EngineNext
     DEF Looks, Journals, FailsUnseen, StoreWrite, Hydrate, history

OverNext(k, a, b) == b # Missing /\ a \in earlier'[k][b]

\* The order of two writes stays what it was, unless the later of them is skipped
\* as a duplicate and so begins again.
LEMMA OrderStays ==
    ASSUME PathTypeInv, NumbersInv, [PathNext]_pathVars,
           NEW j \in Key, NEW a, NEW b \in 0..written[j], ~ OverBefore(j, a, b),
           Skips(j) => b # payload[j] \/ a = b
    PROVE  ~ OverNext(j, a, b)
  <1>0. b # Missing => b \in Payload
    BY BandAssumption DEF PathTypeInv, TypeOK, Payload, Missing
  <1>1. ASSUME NEW k \in Key, Attempts(k), b # Missing PROVE a \notin earlier'[j][b]
    <2>1. written[k] + 1 \in Payload
      BY <1>1, BandAssumption DEF Attempts, PathTypeInv, TypeOK, Payload
    <2>2. ~ (j = k /\ b = written[k] + 1)
      BY DEF PathTypeInv, TypeOK
    <2>. QED BY <1>0, <1>1, <2>1, <2>2, BeginMembers DEF Attempts, OverBefore
  <1>2. ASSUME NEW k \in Key, Skips(k), b # Missing PROVE a \notin earlier'[j][b]
    <2>1. payload[k] \in Payload
      BY <1>2 DEF Skips, PathTypeInv, TypeOK, Payload, Missing
    <2>. QED BY <1>0, <1>2, <2>1, BeginAgainMembers DEF Skips, OverBefore
  <1>. QED BY <1>1, <1>2, OrderSteps DEF OverBefore, OverNext

\* A new number was over before nothing that has begun.
LEMMA NewIsNotOver ==
    ASSUME PathTypeInv, NumbersInv, NEW j \in Key, Attempts(j), NEW b \in 0..written[j]
    PROVE  ~ OverNext(j, written[j] + 1, b)
  <1>0. /\ b # Missing => b \in Payload
        /\ written[j] + 1 \in Payload /\ written[j] \in Nat
    BY BandAssumption DEF Attempts, PathTypeInv, TypeOK, Payload, Missing
  <1>. SUFFICES ASSUME b # Missing PROVE written[j] + 1 \notin earlier'[j][b]
    BY DEF OverNext
  <1>1. b # written[j] + 1
    BY <1>0
  <1>2. written[j] + 1 \notin earlier[j][b]
    BY <1>0 DEF NumbersInv
  <1>. QED BY <1>0, <1>1, <1>2, BeginMembers DEF Attempts

-----------------------------------------------------------------------------
(* The invariant of time.                                                  *)

\* What FlushOnePodProofs shows of the engine's steps holds of the others too.
CycleInv ==
    /\ late = {} /\ evicted = {}
    /\ ModelsArePayloads
    /\ AppliedIsStored
    /\ HeldIsDirty
    /\ MissingIsRecorded
    /\ NothingIsMissing

LEMMA OtherStepsKeepCycles ==
    ASSUME PathTypeInv, [PathNext]_pathVars, ~ [Next]_vars
    PROVE  UNCHANGED <<cycle, reports, late, evicted, seq, dirty, dlq>>
  BY EngineOrNot DEF FailsUnseen, Attempts, StoreWrite, Hydrate, HydrateScript, journal, store

LEMMA StepCycleInv ==
    ASSUME OnePod, PathTypeInv, CycleInv, [PathNext]_pathVars, JournalInv'
    PROVE  CycleInv'
  <1>0. TypeOK
    BY DEF PathTypeInv
  <1>1. CASE [Next]_vars
    <2>1. late' = {} /\ evicted' = {}
      BY <1>0, <1>1, NothingLateOrLost DEF CycleInv
    <2>2. ModelsArePayloads' /\ AppliedIsStored'
      BY <1>0, <1>1, StepModelledAndAccounted DEF CycleInv, OnePod
    <2>3. HeldIsDirty' /\ MissingIsRecorded'
      BY <1>0, <1>1, StepHeldIsDirty, StepMissingIsRecorded DEF CycleInv
    <2>4. DirtyHasPayload'
      BY <2>1 DEF DirtyHasPayload, JournalInv
    <2>5. NothingIsMissing'
      BY <1>0, <1>1, <2>3, <2>4, StepNothingIsMissing DEF CycleInv
    <2>. QED BY <2>1, <2>2, <2>3, <2>5 DEF CycleInv
  <1>2. CASE ~ [Next]_vars
    <2>1. UNCHANGED <<cycle, reports, late, evicted, dirty>>
      BY <1>2, OtherStepsKeepCycles
    <2>2. \A k \in Key : stored[k] \subseteq stored'[k]
      BY <1>0, <1>2, EngineOrNot
         DEF FailsUnseen, Attempts, StoreWrite, Apply, Hydrate, store, TypeOK
    <2>. QED
      BY <2>1, <2>2 DEF CycleInv, ModelsArePayloads, AppliedIsStored, HeldIsDirty,
                        MissingIsRecorded, NothingIsMissing, cycle, reports
  <1>. QED BY <1>1, <1>2

\* A cycle that has a key in flight has just read it, or goes on with what it has.
LEMMA FlightSteps ==
    ASSUME OnePod, PathTypeInv, CycleInv, [PathNext]_pathVars,
           NEW f \in Pod, NEW j \in Key, stage'[f][j] \in InFlight
    PROVE  JustRead(f, j) \/ StillRead(f, j)
  <1>1. CASE [Next]_vars
    BY <1>1, InFlightSteps DEF OnePod, PathTypeInv, CycleInv
  <1>2. CASE ~ [Next]_vars
    BY <1>2, OtherStepsKeepCycles DEF StillRead, cycle
  <1>. QED BY <1>1, <1>2

LEMMA StepNumbersInv ==
    ASSUME OnePod, PathTypeInv, JournalInv, CycleInv, NumbersInv, DegradedInv, [PathNext]_pathVars
    PROVE  NumbersInv'
  <1>. SUFFICES ASSUME NEW j \in Key
                PROVE  /\ payload'[j] <= written'[j] /\ sink'[j] <= written'[j]
                       /\ \A f \in Pod : stage'[f][j] \in InFlight => gotP'[f][j] <= written'[j]
                       /\ \A r \in Reader : fetch'[r].at = "hydrate" /\ fetch'[r].key = j
                                              => fetch'[r].p <= written'[j]
                       /\ \A m \in Payload :
                            earlier'[j][m] \subseteq 0..written'[j] /\ m \notin earlier'[j][m]
    BY DEF NumbersInv
  <1>0. TypeOK /\ TypeOK'
    BY StepPathTypeOK DEF PathTypeInv
  <1>b. /\ written[j] \in Nat /\ written'[j] \in Nat
        /\ payload[j] \in Nat /\ payload'[j] \in Nat /\ sink[j] \in Nat /\ sink'[j] \in Nat
    BY <1>0 DEF TypeOK
  <1>c. written'[j] = written[j] \/ written'[j] = written[j] + 1
    BY WrittenSteps
  <1>a. /\ written[j] \in Nat /\ written'[j] \in Nat /\ written[j] <= written'[j]
        /\ payload[j] \in Nat /\ payload'[j] \in Nat /\ sink[j] \in Nat /\ sink'[j] \in Nat
    BY <1>b, <1>c
  <1>1. payload'[j] <= written'[j]
    <2>1. CASE payload'[j] = payload[j] \/ payload'[j] = 0
      BY <1>a, <2>1 DEF NumbersInv
    <2>2. CASE EngineStep
      <3>1. [Next]_vars /\ written' = written
        BY <2>2, EngineNext
      <3>2. ASSUME NEW k \in Key, JournalWrite(k) PROVE FALSE
        BY <1>0, <3>1, <3>2 DEF JournalWrite, TypeOK
      <3>3. ASSUME NEW k \in Key, JournalExpiry(k) \/ JournalEviction(k)
            PROVE  payload'[j] = payload[j] \/ payload'[j] = 0
        BY <1>0, <3>3 DEF JournalExpiry, JournalEviction, DropHash, TypeOK, Missing
      <3>4. ASSUME NEW k \in Key, NEW v, JournalScript(k, v) PROVE payload' = payload
        BY <3>4, ScriptsKeepHashes DEF JournalScript
      <3>. QED BY <2>1, <3>1, <3>2, <3>3, <3>4, JournalSteps DEF JournalKept
    <2>3. ASSUME NEW k \in Key, Journals(k)
          PROVE  payload'[j] = payload[j] \/ payload'[j] <= written'[j]
      BY <1>0, <2>3 DEF Journals, Journal, AtomicWrite, Attempts, TypeOK
    <2>4. ASSUME NEW r \in Reader, Hydrate(r)
          PROVE  payload'[j] = payload[j] \/ payload'[j] <= written'[j]
      <3>1. fetch[r].key \in Key /\ fetch[r].p \in Nat
        BY <2>4 DEF Hydrate, PathTypeInv, FetchType, NoFetch, Payload
      <3>2. payload'[j] = payload[j] \/ (fetch[r].key = j /\ payload'[j] = fetch[r].p)
        BY <1>0, <2>4, <3>1 DEF Hydrate, HydrateScript, TypeOK, journal
      <3>. QED BY <1>a, <2>4, <3>1, <3>2 DEF Hydrate, NumbersInv
    <2>. QED
      BY <2>1, <2>2, <2>3, <2>4, PathSteps
         DEF Looks, FailsUnseen, Attempts, Skips, StoreWrite, vars, journal
  <1>2. sink'[j] <= written'[j]
    <2>1. ASSUME NEW f \in Pod, SinkApplies(f, j) PROVE gotP[f][j] \in Nat /\ gotP[f][j] <= written[j]
      <3>1. stage[f][j] \in InFlight
        BY <2>1 DEF SinkApplies, InFlight, Stage
      <3>2. gotP[f][j] \in Nat
        BY <1>0 DEF TypeOK
      <3>. QED BY <3>1, <3>2 DEF NumbersInv
    <2>2. ASSUME NEW c \in Caller, StoresFor(c, j) PROVE call[c].n \in Nat /\ call[c].n <= written[j]
      <3>1. InDegradedWrite(c, j)
        BY <2>2 DEF StoresFor, PastProbe, InDegradedWrite, Degraded
      <3>2. call[c].n \in Payload
        BY <3>1 DEF InDegradedWrite, PathTypeInv, CallType, NoCall, Degraded
      <3>. QED BY <3>1, <3>2 DEF DegradedInv, Payload
    <2>. QED BY <1>a, <2>1, <2>2, DocumentSteps DEF NumbersInv, CycleInv
  <1>3. ASSUME NEW f \in Pod, stage'[f][j] \in InFlight PROVE gotP'[f][j] <= written'[j]
    <2>1. gotP[f][j] \in Nat
      BY <1>0 DEF TypeOK
    <2>. QED BY <1>3, <1>a, <2>1, FlightSteps DEF JustRead, StillRead, NumbersInv
  <1>4. ASSUME NEW r \in Reader, fetch'[r].at = "hydrate", fetch'[r].key = j
        PROVE  fetch'[r].p <= written'[j]
    <2>0. fetch \in [Reader -> FetchType]
      BY DEF PathTypeInv
    <2>1. CASE fetch'[r] = fetch[r]
      <3>1. fetch[r].p \in Nat
        BY <1>4, <2>0, <2>1 DEF FetchType, NoFetch, Payload
      <3>. QED BY <1>4, <1>a, <2>1, <3>1 DEF NumbersInv
    <2>2. ASSUME NEW k \in Key, SourceRead(r, k) PROVE fetch'[r].p <= written'[j]
      <3>1. fetch'[r] = [at |-> "hydrate", key |-> k, p |-> sink[k]]
        BY <2>0, <2>2 DEF SourceRead
      <3>2. k = j
        BY <1>4, <3>1
      <3>. QED BY <1>a, <3>1, <3>2 DEF NumbersInv
    <2>3. CASE fetch'[r] = NoFetch
      BY <1>4, <2>3 DEF NoFetch
    <2>4. ASSUME NEW s \in Reader, s # r,
                 fetch' = [fetch EXCEPT ![s] = NoFetch] \/ \E k \in Key : SourceRead(s, k)
          PROVE  fetch'[r] = fetch[r]
      BY <2>0, <2>4 DEF SourceRead
    <2>. QED BY <2>0, <2>1, <2>2, <2>3, <2>4, FetchSteps
  <1>5. ASSUME NEW m \in Payload
        PROVE  earlier'[j][m] \subseteq 0..written'[j] /\ m \notin earlier'[j][m]
    <2>0. earlier[j][m] \subseteq 0..written[j] /\ m \notin earlier[j][m]
      BY DEF NumbersInv
    <2>1. CASE UNCHANGED earlier
      BY <1>a, <2>0, <2>1
    <2>2. ASSUME NEW k \in Key, Attempts(k)
          PROVE  \A a \in earlier'[j][m] : a \in 0..written[j] /\ a # m
      <3>1. written[k] + 1 \in Payload
        BY <1>0, <2>2, BandAssumption DEF Attempts, TypeOK, Payload
      <3>. QED BY <1>a, <2>0, <2>2, <3>1, BeginMembers DEF Attempts
    <2>3. ASSUME NEW k \in Key, Skips(k)
          PROVE  \A a \in earlier'[j][m] : a \in 0..written[j] /\ a # m
      <3>1. payload[k] \in Payload
        BY <1>0, <2>3 DEF Skips, TypeOK, Payload, Missing
      <3>. QED BY <2>0, <2>3, <3>1, BeginAgainMembers DEF Skips
    <2>. QED BY <1>a, <2>1, <2>2, <2>3, OrderSteps
  <1>. QED BY <1>1, <1>2, <1>3, <1>4, <1>5

LEMMA StepDegradedInv ==
    ASSUME PathTypeInv, NumbersInv, DegradedInv, [PathNext]_pathVars
    PROVE  DegradedInv'
  <1>. SUFFICES ASSUME NEW c \in Caller, NEW j \in Key, InDegradedWrite(c, j)'
                PROVE  /\ call'[c].n <= written'[j]
                       /\ \A m \in Payload : call'[c].n \notin earlier'[j][m]
    BY DEF DegradedInv
  <1>0. written[j] \in Nat /\ (written'[j] = written[j] \/ (Attempts(j) /\ written'[j] = written[j] + 1))
    BY WrittenSteps DEF PathTypeInv, TypeOK
  <1>1. CASE InDegradedWrite(c, j) /\ call'[c].n = call[c].n
    <2>1. call[c].n \in Nat
      BY <1>1 DEF InDegradedWrite, PathTypeInv, CallType, NoCall, Degraded, Payload
    <2>2. call[c].n <= written[j] /\ \A m \in Payload : call[c].n \notin earlier[j][m]
      BY <1>1 DEF DegradedInv
    <2>3. ASSUME NEW k \in Key, Attempts(k), NEW m \in Payload PROVE call[c].n \notin earlier'[j][m]
      <3>1. written[k] + 1 \in Payload
        BY <2>3, BandAssumption DEF Attempts, PathTypeInv, TypeOK, Payload
      <3>. QED BY <1>1, <2>2, <2>3, <3>1, BeginMembers DEF Attempts
    <2>4. ASSUME NEW k \in Key, Skips(k), NEW m \in Payload PROVE call[c].n \notin earlier'[j][m]
      <3>1. payload[k] \in Payload
        BY <2>4 DEF Skips, PathTypeInv, TypeOK, Payload, Missing
      <3>. QED BY <1>1, <2>2, <2>4, <3>1, BeginAgainMembers DEF Skips
    <2>5. \A m \in Payload : call[c].n \notin earlier'[j][m]
      BY <2>2, <2>3, <2>4, OrderSteps
    <2>. QED BY <1>0, <1>1, <2>1, <2>2, <2>5
  <1>2. CASE Attempts(j) /\ call'[c].n = written[j] + 1
    <2>1. written[j] + 1 \in Payload /\ written'[j] = written[j] + 1
      BY <1>2, BandAssumption DEF Attempts, PathTypeInv, TypeOK, Payload
    <2>2. ASSUME NEW m \in Payload PROVE written[j] + 1 \notin earlier'[j][m]
      <3>1. written[j] + 1 \notin earlier[j][m]
        BY <1>0 DEF NumbersInv
      <3>. QED BY <1>0, <1>2, <2>1, <3>1, BeginMembers DEF Attempts
    <2>. QED BY <1>0, <1>2, <2>1, <2>2
  <1>. QED BY <1>1, <1>2, DegradedSteps

\* A degraded write that is past its probes has been there for the whole time the
\* key has been dirty.
LEMMA PastSteps ==
    ASSUME PathTypeInv, DegradedInv, [PathNext]_pathVars, NEW c \in Caller, NEW j \in Key,
           PastProbe(c, j)', j \in dirty'
    PROVE  PastProbe(c, j) /\ call'[c].n = call[c].n /\ call[c].n \in 0..written[j]
  <1>1. InDegradedWrite(c, j)'
    BY DEF PastProbe, InDegradedWrite, Degraded
  <1>2. PastProbe(c, j) /\ call'[c].n = call[c].n
    BY <1>1, DegradedSteps DEF vars, journal
  <1>3. InDegradedWrite(c, j)
    BY <1>2 DEF PastProbe, InDegradedWrite, Degraded
  <1>4. call[c].n \in Payload
    BY <1>3 DEF InDegradedWrite, PathTypeInv, CallType, NoCall, Degraded
  <1>5. call[c].n <= written[j] /\ written[j] \in Nat
    BY <1>3 DEF DegradedInv, PathTypeInv, TypeOK
  <1>. QED BY <1>2, <1>4, <1>5 DEF Payload

LEMMA NewPayload ==
    ASSUME PathTypeInv, NEW j \in Key, Journals(j)
    PROVE  /\ payload'[j] = written[j] + 1 /\ written[j] \in Nat
           /\ sink'[j] = sink[j] /\ Attempts(j)
  BY DEF Journals, Journal, AtomicWrite, Attempts, PathTypeInv, TypeOK, store

LEMMA StepDirtyInv ==
    ASSUME OnePod, TimeInv, evicted' = {}, [PathNext]_pathVars
    PROVE  DirtyInv'
  <1>. USE DEF TimeInv
  <1>. SUFFICES ASSUME NEW j \in Key, j \in dirty'
                PROVE  /\ ~ OverNext(j, payload'[j], sink'[j])
                       /\ \A c \in Caller : PastProbe(c, j)' =>
                            /\ call'[c].n # payload'[j]
                            /\ ~ OverNext(j, payload'[j], call'[c].n)
    BY StepPathTypeOK DEF DirtyInv, TypeOK, OverBefore, OverNext
  <1>0. sink[j] \in 0..written[j] /\ payload[j] \in 0..written[j] /\ written[j] \in Nat
    BY DEF NumbersInv, PathTypeInv, TypeOK
  <1>1. CASE Journals(j)
    <2>1. ~ OverNext(j, payload'[j], sink'[j])
      BY <1>0, <1>1, NewPayload, NewIsNotOver
    <2>2. ASSUME NEW c \in Caller, PastProbe(c, j)'
          PROVE  call'[c].n # payload'[j] /\ ~ OverNext(j, payload'[j], call'[c].n)
      BY <1>0, <1>1, <2>2, NewPayload, NewIsNotOver, PastSteps
    <2>. QED BY <2>1, <2>2
  <1>2. CASE j \in dirty /\ payload'[j] = payload[j]
    <2>0. ~ OverBefore(j, payload[j], sink[j])
      BY <1>2 DEF DirtyInv
    <2>1. ~ OverNext(j, payload[j], sink'[j])
      <3>1. CASE sink'[j] = sink[j]
        BY <1>0, <2>0, <3>1, OrderStays
      <3>2. ASSUME NEW f \in Pod, SinkApplies(f, j), EngineStep, sink'[j] = gotP[f][j]
            PROVE  ~ OverNext(j, payload[j], sink'[j])
        <4>1. stage[f][j] \in InFlight /\ earlier' = earlier
          BY <3>2, EngineNext DEF SinkApplies, InFlight, Stage, history
        <4>2. CASE gotP[f][j] = payload[j]
          <5>1. payload[j] # Missing => payload[j] \in Payload
            BY BandAssumption DEF PathTypeInv, TypeOK, Payload, Missing
          <5>. QED BY <3>2, <4>1, <4>2, <5>1 DEF NumbersInv, OverNext
        <4>3. CASE gotP[f][j] # payload[j]
          BY <3>2, <4>1, <4>3 DEF FlightInv, OverBefore, OverNext
        <4>. QED BY <4>2, <4>3
      <3>3. ASSUME NEW c \in Caller, StoresFor(c, j), sink'[j] = call[c].n
            PROVE  ~ OverNext(j, payload[j], sink'[j])
        <4>1. earlier' = earlier /\ PastProbe(c, j)
          BY <3>3 DEF StoresFor, StoreWrite
        <4>. QED BY <1>2, <3>3, <4>1 DEF DirtyInv, OverBefore, OverNext
      <3>. QED BY <3>1, <3>2, <3>3, DocumentSteps
    <2>2. ASSUME NEW c \in Caller, PastProbe(c, j)'
          PROVE  call'[c].n # payload'[j] /\ ~ OverNext(j, payload'[j], call'[c].n)
      <3>1. PastProbe(c, j) /\ call'[c].n = call[c].n /\ call[c].n \in 0..written[j]
        BY <2>2, PastSteps
      <3>2. call[c].n # payload[j] /\ ~ OverBefore(j, payload[j], call[c].n)
        BY <1>2, <3>1 DEF DirtyInv
      <3>. QED BY <1>2, <3>1, <3>2, OrderStays
    <2>. QED BY <1>2, <2>1, <2>2
  <1>. QED BY <1>1, <1>2, DirtySteps

LEMMA StepFlightInv ==
    ASSUME OnePod, TimeInv, evicted' = {}, [PathNext]_pathVars
    PROVE  FlightInv'
  <1>. USE DEF TimeInv
  <1>. SUFFICES ASSUME NEW f \in Pod, NEW j \in Key, stage'[f][j] \in InFlight,
                       gotP'[f][j] # payload'[j]
                PROVE  /\ ~ OverNext(j, gotP'[f][j], sink'[j])
                       /\ ~ OverNext(j, payload'[j], gotP'[f][j])
                       /\ sink'[j] # payload'[j]
                       /\ \A c \in Caller : PastProbe(c, j)' => ~ OverNext(j, gotP'[f][j], call'[c].n)
    BY DEF FlightInv, OverBefore, OverNext
  <1>. DEFINE q == gotP[f][j]
  <1>0. /\ sink[j] \in 0..written[j] /\ payload[j] \in 0..written[j] /\ written[j] \in Nat
        /\ q \in Nat
    BY DEF NumbersInv, PathTypeInv, TypeOK
  <1>c. CycleInv
    BY DEF CycleInv
  <1>1. ~ JustRead(f, j)
    BY DEF JustRead, JournalKept
  <1>2. StillRead(f, j)
    BY <1>1, <1>c, FlightSteps
  <1>3. gotP'[f][j] = q /\ stage[f][j] \in InFlight /\ q \in 0..written[j]
    BY <1>0, <1>2 DEF StillRead, NumbersInv
  <1>4. j \in dirty
    BY <1>3 DEF HeldIsDirty, InFlight
  <1>5. j \in dirty'
    BY <1>c, StepCycleInv, StepJournalInv DEF CycleInv, HeldIsDirty, InFlight
  <1>6. \* Whatever it holds was not over before the document or a degraded write.
        /\ ~ OverBefore(j, q, sink[j])
        /\ \A c \in Caller : PastProbe(c, j) => ~ OverBefore(j, q, call[c].n) /\ call[c].n # payload[j]
    BY <1>3, <1>4 DEF DirtyInv, FlightInv
  <1>7. \A c \in Caller : PastProbe(c, j)' => ~ OverNext(j, q, call'[c].n)
    <2>. SUFFICES ASSUME NEW c \in Caller, PastProbe(c, j)' PROVE ~ OverNext(j, q, call'[c].n)
      OBVIOUS
    <2>1. PastProbe(c, j) /\ call'[c].n = call[c].n /\ call[c].n \in 0..written[j]
      BY <1>5, PastSteps
    <2>. QED BY <1>6, <2>1, OrderStays
  <1>8. CASE Journals(j)
    <2>1. payload'[j] = written[j] + 1 /\ sink'[j] = sink[j] /\ Attempts(j)
      BY <1>8, NewPayload
    <2>2. ~ Skips(j)
      BY <1>0, <2>1 DEF Skips, Attempts, vars, PathTypeInv, TypeOK
    <2>3. ~ OverNext(j, q, sink[j])
      BY <1>0, <1>6, <2>2, OrderStays
    <2>4. ~ OverNext(j, written[j] + 1, q)
      BY <1>3, <2>1, NewIsNotOver
    <2>. QED BY <1>0, <1>3, <1>7, <2>1, <2>3, <2>4
  <1>9. CASE payload'[j] = payload[j]
    <2>0. /\ q # payload[j] /\ ~ OverBefore(j, payload[j], q) /\ sink[j] # payload[j]
      BY <1>3, <1>9 DEF FlightInv
    <2>1. ~ OverNext(j, payload[j], q)
      BY <1>3, <2>0, OrderStays
    <2>2. CASE sink'[j] = sink[j]
      <3>1. ~ OverNext(j, q, sink[j])
        BY <1>0, <1>6, <2>0, OrderStays
      <3>. QED BY <1>3, <1>7, <1>9, <2>0, <2>1, <2>2, <3>1
    <2>3. ASSUME NEW g \in Pod, SinkApplies(g, j), EngineStep, sink'[j] = gotP[g][j]
          PROVE  ~ OverNext(j, q, sink'[j]) /\ sink'[j] # payload[j]
      <3>1. g = f /\ earlier' = earlier
        BY <2>3, EngineNext DEF OnePod, history
      <3>2. q # Missing => q \in Payload
        BY BandAssumption DEF PathTypeInv, TypeOK, Payload, Missing
      <3>. QED BY <2>0, <2>3, <3>1, <3>2 DEF NumbersInv, OverNext
    <2>4. ASSUME NEW c \in Caller, StoresFor(c, j), sink'[j] = call[c].n
          PROVE  ~ OverNext(j, q, sink'[j]) /\ sink'[j] # payload[j]
      <3>1. earlier' = earlier /\ PastProbe(c, j)
        BY <2>4 DEF StoresFor, StoreWrite
      <3>. QED BY <1>6, <2>4, <3>1 DEF OverBefore, OverNext
    <2>. QED BY <1>3, <1>7, <1>9, <2>1, <2>2, <2>3, <2>4, DocumentSteps
  <1>. QED BY <1>4, <1>8, <1>9, DirtySteps

LEMMA InitTimeInv == PathInit => TimeInv
  <1>. SUFFICES ASSUME PathInit PROVE TimeInv
    OBVIOUS
  <1>1. PathTypeInv
    BY InitPathType
  <1>2. /\ late = {} /\ evicted = {} /\ dirty = {} /\ payload = Zeros /\ sink = Zeros /\ written = Zeros
        /\ \A f \in Pod, k \in Key : stage[f][k] = "none" /\ pc[f] = "idle"
    BY DEF PathInit, Init, Blank
  <1>3. JournalInv /\ HeldIsDirty /\ DirtyInv /\ FlightInv
    BY <1>2 DEF JournalInv, HeldIsDirty, DirtyInv, FlightInv, InFlight, Stage
  <1>4. ModelsArePayloads /\ AppliedIsStored /\ MissingIsRecorded /\ NothingIsMissing
    BY <1>2 DEF ModelsArePayloads, AppliedIsStored, MissingIsRecorded, NothingIsMissing,
                InFlight
  <1>5. NumbersInv
    <2>1. \A k \in Key : payload[k] = 0 /\ sink[k] = 0 /\ written[k] = 0
      BY <1>2 DEF Zeros
    <2>2. \A r \in Reader : fetch[r].at # "hydrate"
      BY DEF PathInit, NoFetch
    <2>3. \A k \in Key, m \in Payload : earlier[k][m] = {}
      BY DEF PathInit
    <2>. QED BY <1>2, <2>1, <2>2, <2>3 DEF NumbersInv, InFlight, Stage
  <1>6. DegradedInv
    BY DEF PathInit, DegradedInv, InDegradedWrite, NoCall, Degraded
  <1>. QED BY <1>1, <1>2, <1>3, <1>4, <1>5, <1>6 DEF TimeInv

LEMMA StepTimeInv ==
    ASSUME OnePod, TimeInv, [PathNext]_pathVars
    PROVE  TimeInv'
  <1>. USE DEF TimeInv
  <1>1. PathTypeInv'
    BY StepPathTypeOK, StepHashType, StepCallType, StepFetchType, StepGuardType, StepHistoryType
       DEF PathTypeInv
  <1>2. CycleInv
    BY DEF CycleInv
  <1>4. JournalInv'
    BY StepJournalInv
  <1>3. CycleInv'
    BY <1>2, <1>4, StepCycleInv
  <1>5. NumbersInv' /\ DegradedInv'
    BY <1>2, StepNumbersInv, StepDegradedInv
  <1>6. DirtyInv' /\ FlightInv'
    BY <1>3, StepDirtyInv, StepFlightInv DEF CycleInv
  <1>. QED BY <1>1, <1>3, <1>4, <1>5, <1>6 DEF CycleInv

\* README.md:531, "degraded mode preserves order", with one pod, no late store write and
\* no eviction: whatever a document is replaced by, from a flight, a degraded write or a
\* hydrated entry, was not over before the write it holds began.
THEOREM DegradedModePreservesOrder ==
    ASSUME OnePod
    PROVE  PathSpec => OrderPreserved
  <1>. DEFINE Forward == \A k \in Key : sink[k] # Missing /\ sink'[k] # sink[k]
                                          => sink'[k] \notin earlier[k][sink[k]]
  <1>1. ASSUME TimeInv, [PathNext]_pathVars PROVE Forward
    <2>. USE <1>1 DEF TimeInv
    <2>. SUFFICES ASSUME NEW j \in Key, sink[j] # Missing, sink'[j] # sink[j]
                  PROVE  sink'[j] \notin earlier[j][sink[j]]
      OBVIOUS
    <2>1. ASSUME NEW f \in Pod, SinkApplies(f, j), sink'[j] = gotP[f][j]
          PROVE  sink'[j] \notin earlier[j][sink[j]]
      <3>1. stage[f][j] \in InFlight /\ j \in dirty
        BY <2>1 DEF SinkApplies, InFlight, Stage, HeldIsDirty
      <3>. QED BY <2>1, <3>1 DEF DirtyInv, FlightInv, OverBefore
    <2>2. ASSUME NEW c \in Caller, StoresFor(c, j), sink'[j] = call[c].n
          PROVE  sink'[j] \notin earlier[j][sink[j]]
      <3>1. InDegradedWrite(c, j)
        BY <2>2 DEF StoresFor, PastProbe, InDegradedWrite, Degraded
      <3>2. sink[j] \in Payload
        BY DEF PathTypeInv, TypeOK, Payload, Missing
      <3>. QED BY <2>2, <3>1, <3>2 DEF DegradedInv
    <2>. QED BY <2>1, <2>2, DocumentSteps
  <1>2. TimeInv /\ [PathNext]_pathVars => TimeInv'
    BY StepTimeInv
  <1>3. TimeInv /\ [PathNext]_pathVars => [Forward]_pathVars
    BY <1>1
  <1>. QED BY <1>2, <1>3, InitTimeInv, PTL DEF PathSpec, OrderPreserved

-----------------------------------------------------------------------------
(* What was acknowledged is kept.                                          *)

LEMMA StepVersions ==
    ASSUME OnePod, TimeInv, ReadIsVersioned, [PathNext]_pathVars
    PROVE  ReadIsVersioned'
  <1>. USE DEF TimeInv
  <1>1. CASE [Next]_vars
    <2>1. \A k \in Key : JournalExpiry(k) => ~ Held(k)
      BY DEF JournalExpiry, JournalInv, HeldIsDirty, Held
    <2>. QED BY <1>1, <2>1, StepReadIsVersioned DEF OnePod, PathTypeInv
  <1>2. CASE ~ [Next]_vars
    <2>1. UNCHANGED <<cycle, evicted, seq, dirty>>
      BY <1>2, OtherStepsKeepCycles
    <2>2. ASSUME NEW j \in Key, j \in dirty PROVE payload'[j] = payload[j]
      <3>1. ~ \E k \in Key : Journals(k)
        BY <1>2, WriteNext
      <3>2. evicted' = {}
        BY <2>1
      <3>. QED BY <2>2, <3>1, <3>2, DirtySteps
    <2>3. ASSUME NEW f \in Pod, NEW j \in Key, stage[f][j] \in InFlight PROVE j \in dirty
      BY <2>3 DEF HeldIsDirty, InFlight
    <2>. QED BY <2>1, <2>2, <2>3 DEF ReadIsVersioned, cycle
  <1>. QED BY <1>1, <1>2

\* A write is acknowledged by its script, by its degraded write, or as a duplicate.
LEMMA AckedSteps ==
    ASSUME PathTypeInv, [PathNext]_pathVars, NEW j \in Key
    PROVE  \/ acked'[j] = acked[j]
           \/ Journals(j) /\ acked'[j] = acked[j] \cup {written[j] + 1}
           \/ Skips(j) /\ acked'[j] = acked[j] \cup {payload[j]}
           \/ \E c \in Caller : StoresFor(c, j) /\ acked'[j] = acked[j] \cup {call[c].n}
  <1>0. acked \in [Key -> SUBSET Payload]
    BY DEF PathTypeInv, HistoryType
  <1>1. ASSUME NEW k \in Key, NEW n, Acknowledge(k, n)
        PROVE  acked'[j] = IF j = k THEN acked[j] \cup {n} ELSE acked[j]
    BY <1>0, <1>1 DEF Acknowledge
  <1>2. ASSUME NEW k \in Key, Journals(k)
        PROVE  acked'[j] = acked[j] \/ (k = j /\ acked'[j] = acked[j] \cup {written[j] + 1})
    BY <1>1, <1>2 DEF Journals
  <1>3. ASSUME NEW k \in Key, Skips(k)
        PROVE  acked'[j] = acked[j] \/ (k = j /\ acked'[j] = acked[j] \cup {payload[j]})
    BY <1>1, <1>3 DEF Skips
  <1>4. ASSUME NEW c \in Caller, StoreWrite(c)
        PROVE  acked'[j] = acked[j] \/ (StoresFor(c, j) /\ acked'[j] = acked[j] \cup {call[c].n})
    <2>1. call[c].key \in Key
      BY <1>4 DEF StoreWrite, PathTypeInv, CallType, NoCall
    <2>. QED BY <1>1, <1>4, <2>1 DEF StoreWrite, StoresFor, PastProbe
  <1>5. CASE acked' = acked
    BY <1>5
  <1>. QED
    BY <1>2, <1>3, <1>4, <1>5, PathSteps, EngineNext DEF Looks, FailsUnseen, Hydrate, history

LEMMA SupersededBy ==
    ASSUME NEW j \in Key, NEW a
    PROVE  a \in Superseded(j) <=> \E n \in acked[j] : a \in earlier[j][n]
  BY DEF Superseded

\* What no acknowledged write has superseded stays so, but for the new payload, the
\* skipped one and the degraded write.
LEMMA SupersededStays ==
    ASSUME PathTypeInv, NumbersInv, [PathNext]_pathVars,
           NEW j \in Key, acked[j] \subseteq 1..written[j], NEW a, a \notin Superseded(j),
           ~ Journals(j),
           Skips(j) => a = payload[j],
           \A c \in Caller : StoresFor(c, j) => ~ OverBefore(j, a, call[c].n)
    PROVE  a \notin Superseded(j)'
  <1>. SUFFICES ASSUME NEW n \in acked'[j] PROVE a \notin earlier'[j][n]
    BY DEF Superseded
  <1>0. /\ \A m \in acked[j] : a \notin earlier[j][m] /\ m \in Payload
        /\ written[j] \in Nat
    BY SupersededBy DEF PathTypeInv, HistoryType, TypeOK
  <1>1. CASE UNCHANGED earlier /\ n \in acked[j]
    BY <1>0, <1>1
  <1>2. ASSUME NEW k \in Key, Attempts(k), n \in acked[j] PROVE a \notin earlier'[j][n]
    <2>1. written[k] + 1 \in Payload
      BY <1>2, BandAssumption DEF Attempts, PathTypeInv, TypeOK, Payload
    <2>2. ~ (j = k /\ n = written[k] + 1)
      BY <1>0, <1>2
    <2>. QED BY <1>0, <1>2, <2>1, <2>2, BeginMembers DEF Attempts
  <1>3. ASSUME NEW k \in Key, Skips(k), n \in acked[j] \/ k = j PROVE a \notin earlier'[j][n]
    <2>1. payload[k] \in Payload
      BY <1>3 DEF Skips, PathTypeInv, TypeOK, Payload, Missing
    <2>2. n \in Payload
      BY StepHistoryType DEF HistoryType
    <2>3. CASE k = j
      <3>1. n \in acked[j] \/ n = payload[j]
        <4>1. acked'[j] = acked[j] \cup {payload[j]}
          BY <1>3, <2>3 DEF Skips, Acknowledge, PathTypeInv, HistoryType
        <4>. QED BY <4>1
      <3>. QED BY <1>0, <1>3, <2>1, <2>2, <2>3, <3>1, BeginAgainMembers DEF Skips
    <2>4. CASE k # j
      BY <1>0, <1>3, <2>1, <2>2, <2>4, BeginAgainMembers DEF Skips
    <2>. QED BY <2>3, <2>4
  <1>4. ASSUME NEW c \in Caller, StoresFor(c, j), n = call[c].n PROVE a \notin earlier'[j][n]
    <2>1. earlier' = earlier
      BY <1>4 DEF StoresFor, StoreWrite
    <2>2. n \in Payload
      BY StepHistoryType DEF HistoryType
    <2>. QED BY <1>4, <2>1, <2>2 DEF OverBefore, Payload, Missing
  <1>. QED BY <1>1, <1>2, <1>3, <1>4, OrderSteps, AckedSteps

\* What a degraded write has put there no write that has begun comes after.
LEMMA StoredIsNotSuperseded ==
    ASSUME TimeInv, KeptInv, [PathNext]_pathVars,
           NEW j \in Key, NEW c \in Caller, StoresFor(c, j)
    PROVE  /\ call[c].n \in 1..written[j]
           /\ call[c].n \notin Superseded(j)'
           /\ UNCHANGED <<cycle, journal, written>>
  <1>. USE DEF TimeInv
  <1>1. InDegradedWrite(c, j)
    BY DEF StoresFor, PastProbe, InDegradedWrite, Degraded
  <1>2. call[c].n \in Payload
    BY <1>1 DEF InDegradedWrite, PathTypeInv, CallType, NoCall, Degraded
  <1>3. call[c].n <= written[j] /\ written[j] \in Nat /\ \A m \in Payload : call[c].n \notin earlier[j][m]
    BY <1>1 DEF DegradedInv, PathTypeInv, TypeOK
  <1>4. earlier' = earlier /\ acked'[j] \subseteq Payload
    BY StepHistoryType DEF StoresFor, StoreWrite, HistoryType
  <1>5. call[c].n \notin Superseded(j)'
    BY <1>3, <1>4 DEF Superseded
  <1>. QED BY <1>2, <1>3, <1>5 DEF Payload, StoresFor, StoreWrite

LEMMA StepAckedNumbers ==
    ASSUME TimeInv, KeptInv, [PathNext]_pathVars, NEW j \in Key
    PROVE  acked'[j] \subseteq 1..written'[j]
  <1>. USE DEF TimeInv
  <1>0. /\ written[j] \in Nat /\ written'[j] \in Nat /\ payload[j] \in Nat
        /\ written'[j] = written[j] \/ written'[j] = written[j] + 1
        /\ payload[j] <= written[j]
        /\ acked[j] \subseteq 1..written[j]
    BY WrittenSteps DEF PathTypeInv, TypeOK, NumbersInv, KeptInv
  <1>1. CASE acked'[j] = acked[j]
    BY <1>0, <1>1
  <1>2. CASE Journals(j) /\ acked'[j] = acked[j] \cup {written[j] + 1}
    <2>1. written'[j] = written[j] + 1
      BY <1>2 DEF Journals, Attempts, PathTypeInv, TypeOK
    <2>. QED BY <1>0, <1>2, <2>1
  <1>3. CASE Skips(j) /\ acked'[j] = acked[j] \cup {payload[j]}
    <2>1. payload[j] # 0
      BY <1>3 DEF Skips, Missing
    <2>. QED BY <1>0, <1>3, <2>1
  <1>4. ASSUME NEW c \in Caller, StoresFor(c, j), acked'[j] = acked[j] \cup {call[c].n}
        PROVE  acked'[j] \subseteq 1..written'[j]
    BY <1>0, <1>4, StoredIsNotSuperseded
  <1>. QED BY <1>1, <1>2, <1>3, <1>4, AckedSteps

LEMMA StepDirtyKept ==
    ASSUME TimeInv, evicted' = {}, KeptInv, [PathNext]_pathVars, NEW j \in Key, j \in dirty'
    PROVE  payload'[j] \notin Superseded(j)'
  <1>. USE DEF TimeInv
  <1>1. CASE Journals(j)
    <2>1. payload'[j] = written[j] + 1 /\ written[j] \in Nat /\ Attempts(j)
      BY <1>1, NewPayload
    <2>2. ASSUME NEW n \in acked'[j] PROVE written[j] + 1 \notin earlier'[j][n]
      <3>1. n \in Payload /\ written[j] + 1 \in Payload
        BY <2>1, StepHistoryType, BandAssumption DEF HistoryType, Attempts, PathTypeInv, TypeOK, Payload
      <3>2. written[j] + 1 \notin earlier[j][n] /\ written[j] + 1 \notin 0..written[j]
        BY <2>1, <3>1 DEF NumbersInv
      <3>. QED BY <2>1, <3>1, <3>2, BeginMembers DEF Attempts
    <2>. QED BY <2>1, <2>2 DEF Superseded
  <1>2. CASE ~ Journals(j)
    <2>1. j \in dirty /\ payload'[j] = payload[j]
      BY <1>2, DirtySteps
    <2>2. payload[j] \notin Superseded(j) /\ acked[j] \subseteq 1..written[j]
      BY <2>1 DEF KeptInv
    <2>3. \A c \in Caller : StoresFor(c, j) => ~ OverBefore(j, payload[j], call[c].n)
      BY <2>1 DEF DirtyInv, StoresFor
    <2>. QED BY <1>2, <2>1, <2>2, <2>3, SupersededStays
  <1>. QED BY <1>1, <1>2

\* As long as the document stays, it is not superseded either, unless a newer write
\* is journaled or a duplicate of what the document is not has been skipped.
LEMMA DocumentStays ==
    ASSUME TimeInv, KeptInv, [PathNext]_pathVars, NEW j \in Key,
           sink[j] \notin Superseded(j), sink'[j] = sink[j], ~ Journals(j),
           Skips(j) => sink[j] = payload[j]
    PROVE  sink'[j] \notin Superseded(j)'
  <1>. USE DEF TimeInv
  <1>1. CASE \E c \in Caller : StoresFor(c, j)
    <2>1. PICK c \in Caller : StoresFor(c, j)
      BY <1>1
    <2>2. sink'[j] = call[c].n
      BY <2>1 DEF StoresFor, StoreWrite, Apply, PathTypeInv, TypeOK
    <2>. QED BY <2>1, <2>2, StoredIsNotSuperseded
  <1>2. CASE ~ \E c \in Caller : StoresFor(c, j)
    <2>1. acked[j] \subseteq 1..written[j]
      BY DEF KeptInv
    <2>2. \A c \in Caller : StoresFor(c, j) => ~ OverBefore(j, sink[j], call[c].n)
      BY <1>2
    <2>. QED BY <2>1, <2>2, SupersededStays
  <1>. QED BY <1>1, <1>2

LEMMA MismatchesStay ==
    ASSUME PathTypeInv, [PathNext]_pathVars, NEW j \in Key, j \notin mismatched'
    PROVE  /\ j \notin mismatched
           /\ Skips(j) => sink[j] = payload[j] \/ StillToBeStored(j)
  <1>1. mismatched' = mismatched \/ \E k \in Key : Skips(k)
    BY PathSteps, EngineNext
       DEF Looks, Journals, FailsUnseen, Attempts, StoreWrite, Hydrate, history
  <1>. QED BY <1>1 DEF Skips

LEMMA DeadLettersStay ==
    ASSUME PathTypeInv, [PathNext]_pathVars
    PROVE  dlq \subseteq dlq'
  <1>1. CASE EngineStep
    <2>1. [Next]_vars
      BY <1>1, EngineNext
    <2>. QED
      BY <2>1, JournalSteps
         DEF JournalKept, JournalWrite, AtomicWrite, JournalExpiry, JournalEviction, DropHash,
             JournalScript, CommitFlushedScript, DeadLetter, DeadLetterScript, journal
  <1>. QED
    BY <1>1, PathSteps
       DEF Looks, Journals, Journal, AtomicWrite, FailsUnseen, Skips, StoreWrite, Hydrate,
           HydrateScript, vars, journal

\* Unless it is dead-lettered, a key leaves the dirty set when the commit script
\* finds the sequence that was stored.
LEMMA CommitSteps ==
    ASSUME [PathNext]_pathVars, PathTypeInv, NEW j \in Key,
           j \in dirty, j \notin dirty', j \notin dlq'
    PROVE  /\ EngineStep /\ sink' = sink
           /\ \E f \in Pod : stage[f][j] = "commit" /\ gotV[f][j] = seq[j]
  <1>1. EngineStep
    BY PathSteps
       DEF Looks, Journals, Journal, AtomicWrite, FailsUnseen, Skips, StoreWrite, Hydrate,
           HydrateScript, vars, journal
  <1>2. PICK f \in Pod : gotV[f][j] = seq[j] /\ TakesOut(f, j)
    BY <1>1, EngineNext, LeavesDirty
  <1>3. ~ ContractRejects(f, j) /\ ~ BuryMissing(f, j) /\ ~ DeadLetterPermanent(f, j)
    BY DEF ContractRejects, BuryMissing, DeadLetterPermanent, DeadLetter, DeadLetterScript, journal
  <1>4. CommitFlushed(f, j)
    BY <1>2, <1>3 DEF TakesOut
  <1>. QED BY <1>1, <1>2, <1>4 DEF CommitFlushed, store

LEMMA StepCleanKept ==
    ASSUME TimeInv, evicted' = {}, KeptInv, [PathNext]_pathVars,
           NEW j \in Key, j \notin dirty' \cup dlq' \cup mismatched'
    PROVE  sink'[j] \notin Superseded(j)'
  <1>. USE DEF TimeInv
  <1>1. /\ j \notin dlq /\ j \notin mismatched
        /\ Skips(j) => sink[j] = payload[j] \/ StillToBeStored(j)
    BY MismatchesStay, DeadLettersStay
  <1>2. ~ Journals(j)
    BY DEF Journals, Journal, AtomicWrite
  <1>3. Skips(j) => sink[j] = payload[j]
    BY <1>1 DEF Skips, StillToBeStored, vars, journal
  <1>4. ASSUME NEW f \in Pod, SinkApplies(f, j) PROVE FALSE
    BY <1>4 DEF SinkApplies, HeldIsDirty, journal
  <1>5. ASSUME NEW c \in Caller, StoresFor(c, j), sink'[j] = call[c].n
        PROVE  sink'[j] \notin Superseded(j)'
    BY <1>5, StoredIsNotSuperseded
  <1>6. CASE sink'[j] = sink[j]
    <2>1. CASE j \notin dirty
      BY <1>1, <1>2, <1>3, <1>6, <2>1, DocumentStays DEF KeptInv
    <2>2. CASE j \in dirty
      <3>1. PICK f \in Pod : stage[f][j] = "commit" /\ gotV[f][j] = seq[j]
        BY <2>2, CommitSteps
      <3>2. sink[j] \notin Superseded(j)
        BY <1>1, <3>1 DEF KeptInv
      <3>. QED BY <1>2, <1>3, <1>6, <3>2, DocumentStays
    <2>. QED BY <2>1, <2>2
  <1>. QED BY <1>4, <1>5, <1>6, DocumentSteps

LEMMA StepStoredKept ==
    ASSUME OnePod, AckInv, evicted' = {}, [PathNext]_pathVars,
           NEW f \in Pod, NEW j \in Key, stage'[f][j] \in {"applied", "commit"},
           gotV'[f][j] = seq'[j], j \notin mismatched'
    PROVE  sink'[j] \notin Superseded(j)'
  <1>. USE DEF AckInv, TimeInv
  <1>0. /\ j \notin mismatched
        /\ Skips(j) => sink[j] = payload[j] \/ StillToBeStored(j)
        /\ TypeOK
    BY MismatchesStay DEF PathTypeInv
  <1>5. ASSUME NEW c \in Caller, StoresFor(c, j), sink'[j] = call[c].n
        PROVE  sink'[j] \notin Superseded(j)'
    BY <1>5, StoredIsNotSuperseded
  <1>1. CASE SinkApplies(f, j) /\ EngineStep
    <2>1. /\ sink'[j] = gotP[f][j] /\ gotV' = gotV /\ seq' = seq /\ stage[f][j] = "model"
          /\ payload' = payload
      BY <1>0, <1>1 DEF SinkApplies, Apply, journal, TypeOK
    <2>2. gotP[f][j] = payload[j] /\ j \in dirty
      BY <2>1 DEF ReadIsVersioned, InFlight, Stage, HeldIsDirty
    <2>3. payload[j] \notin Superseded(j)
      BY <2>2 DEF KeptInv
    <2>4. UNCHANGED <<acked, earlier>>
      BY <1>1, EngineNext DEF history
    <2>. QED BY <2>1, <2>2, <2>3, <2>4 DEF Superseded
  <1>2. CASE stage[f][j] \in {"applied", "commit"} /\ gotV'[f][j] = gotV[f][j]
    <2>1. j \in dirty /\ gotV[f][j] <= seq[j] /\ gotV[f][j] \in Nat /\ seq[j] \in Nat
      BY <1>0, <1>2 DEF HeldIsDirty, ReadIsVersioned, InFlight, Stage, TypeOK
    <2>2. ~ Journals(j)
      <3>1. Journals(j) => seq'[j] = seq[j] + 1
        BY <1>0 DEF Journals, Journal, AtomicWrite, TypeOK
      <3>. QED BY <1>2, <2>1, <3>1
    <2>3. seq'[j] = seq[j]
      <3>1. CASE [Next]_vars
        <4>1. ASSUME NEW k \in Key, JournalWrite(k) PROVE seq'[j] = seq[j]
          <5>1. k # j
            <6>1. k = j => seq'[j] = seq[j] + 1
              BY <1>0, <4>1 DEF JournalWrite, AtomicWrite, TypeOK
            <6>. QED BY <1>2, <2>1, <6>1
          <5>. QED BY <1>0, <4>1, <5>1 DEF JournalWrite, AtomicWrite, TypeOK
        <4>2. ASSUME NEW k \in Key, JournalExpiry(k) PROVE seq'[j] = seq[j]
          <5>1. k # j
            BY <2>1, <4>2 DEF JournalExpiry, JournalInv
          <5>. QED BY <1>0, <4>2, <5>1 DEF JournalExpiry, DropHash, TypeOK
        <4>3. ASSUME NEW k \in Key, JournalEviction(k) PROVE FALSE
          BY <4>3 DEF JournalEviction
        <4>4. ASSUME NEW k \in Key, NEW v, JournalScript(k, v) PROVE seq' = seq
          BY <4>4, ScriptsKeepHashes DEF JournalScript
        <4>. QED BY <3>1, <4>1, <4>2, <4>3, <4>4, JournalSteps DEF JournalKept
      <3>2. CASE ~ [Next]_vars
        BY <3>2, OtherStepsKeepCycles
      <3>. QED BY <3>1, <3>2
    <2>4. sink[j] \notin Superseded(j)
      BY <1>0, <1>2, <2>3 DEF KeptInv
    <2>5. Skips(j) => sink[j] = payload[j]
      BY <1>0, <1>2 DEF StillToBeStored
    <2>6. ASSUME NEW g \in Pod, SinkApplies(g, j) PROVE FALSE
      BY <1>2, <2>6 DEF SinkApplies, OnePod
    <2>. QED BY <1>5, <2>2, <2>4, <2>5, <2>6, DocumentStays, DocumentSteps
  <1>3. CASE [Next]_vars
    <2>1. SinkApplies(f, j) \/ stage[f][j] \in {"applied", "commit"}
      BY <1>0, <1>3, AppliedSteps DEF OnePod
    <2>2. CASE stage[f][j] \in {"applied", "commit"}
      <3>1. StillRead(f, j)
        BY <1>0, <1>3, <2>2, InFlightSteps DEF OnePod, InFlight, Stage, JustRead
      <3>. QED BY <1>2, <2>2, <3>1 DEF StillRead
    <2>3. CASE SinkApplies(f, j)
      <3>1. stage[f][j] = "model" /\ stage'[f][j] = "applied"
        BY <1>0, <2>3 DEF SinkApplies, TypeOK
      <3>2. EngineStep
        BY <3>1, PathSteps
           DEF Looks, Journals, FailsUnseen, Attempts, Skips, StoreWrite, Hydrate, cycle, vars
      <3>. QED BY <1>1, <2>3, <3>2
    <2>. QED BY <2>1, <2>2, <2>3
  <1>4. CASE ~ [Next]_vars
    BY <1>2, <1>4, OtherStepsKeepCycles DEF cycle
  <1>. QED BY <1>3, <1>4

LEMMA StepAckInv ==
    ASSUME OnePod, AckInv, [PathNext]_pathVars
    PROVE  AckInv'
  <1>. USE DEF AckInv
  <1>1. TimeInv'
    BY StepTimeInv
  <1>2. evicted' = {}
    BY <1>1 DEF TimeInv
  <1>3. ReadIsVersioned'
    BY StepVersions
  <1>4. ASSUME NEW k \in Key
        PROVE  /\ acked'[k] \subseteq 1..written'[k]
               /\ k \in dirty' => payload'[k] \notin Superseded(k)'
               /\ k \notin dirty' \cup dlq' \cup mismatched' => sink'[k] \notin Superseded(k)'
               /\ \A f \in Pod :
                   stage'[f][k] \in {"applied", "commit"} /\ gotV'[f][k] = seq'[k] /\ k \notin mismatched'
                       => sink'[k] \notin Superseded(k)'
    <2>1. acked'[k] \subseteq 1..written'[k]
      BY StepAckedNumbers
    <2>2. k \in dirty' => payload'[k] \notin Superseded(k)'
      BY <1>2, StepDirtyKept
    <2>3. k \notin dirty' \cup dlq' \cup mismatched' => sink'[k] \notin Superseded(k)'
      BY <1>2, StepCleanKept
    <2>4. \A f \in Pod :
            stage'[f][k] \in {"applied", "commit"} /\ gotV'[f][k] = seq'[k] /\ k \notin mismatched'
                => sink'[k] \notin Superseded(k)'
      BY <1>2, StepStoredKept
    <2>. QED BY <2>1, <2>2, <2>3, <2>4
  <1>5. KeptInv'
    BY <1>4 DEF KeptInv
  <1>. QED BY <1>1, <1>3, <1>5

LEMMA InitAckInv == PathInit => AckInv
  <1>. SUFFICES ASSUME PathInit PROVE AckInv
    OBVIOUS
  <1>1. TimeInv
    BY InitTimeInv
  <1>2. \A f \in Pod, k \in Key : stage[f][k] = "none"
    BY DEF PathInit, Init, Blank
  <1>3. ReadIsVersioned
    BY <1>2 DEF ReadIsVersioned, InFlight, Stage
  <1>4. \A k \in Key : acked[k] = {}
    BY DEF PathInit
  <1>5. \A k \in Key : Superseded(k) = {}
    BY <1>4 DEF Superseded
  <1>6. KeptInv
    BY <1>2, <1>4, <1>5 DEF KeptInv
  <1>. QED BY <1>1, <1>3, <1>6 DEF AckInv

\* README.md:519, "acknowledged data is never silently lost" (sluice.go:649-735 with the
\* degraded write of 1134 and the deduplication of shield/types.go, against the pipeline
\* of flush_engine.go): with one pod, no late answers and no eviction, a key of which
\* nothing is under way has in the store a write that no acknowledged one came after,
\* unless a duplicate of what the store had lost was skipped.
THEOREM AcknowledgedIsKept ==
    ASSUME OnePod
    PROVE  PathSpec => []AckedIsKept
  <1>1. AckInv => AckedIsKept
    BY DEF AckInv, KeptInv, AckedIsKept, Settled
  <1>2. AckInv /\ [PathNext]_pathVars => AckInv'
    BY StepAckInv
  <1>. QED BY <1>1, <1>2, InitAckInv, PTL DEF PathSpec
=============================================================================
