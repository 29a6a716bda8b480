----------------------------- MODULE WritePath -----------------------------
(***************************************************************************)
(* What callers do to the journal of a band (sluice.go) beside its flush   *)
(* engine: Write with content deduplication and, when Redis fails, the     *)
(* degraded write straight to the store; WriteIdempotent; and the cold     *)
(* reads and hot loads that hydrate the journal from the store.            *)
(*                                                                         *)
(* A payload is still its number: each attempt of a Write takes the next   *)
(* one, whether it reaches the journal, the store or neither.              *)
(***************************************************************************)
EXTENDS FlushEngine

CONSTANTS
    Caller,             \* goroutines calling Write
    Reader,             \* goroutines that carry a Source document to the journal
    Content,            \* what the content hash tells apart
    None,               \* no content hash
    Message,            \* idempotency keys
    NoMessage,          \* a call of plain Write
    ContentDedup,       \* Config.ContentDedup
    DegradedModeDirect  \* Config.DegradedModeDirect

ASSUME CallerAssumption ==
    /\ None \notin Content
    /\ NoMessage \notin Message
    /\ ContentDedup \in BOOLEAN
    /\ DegradedModeDirect \in BOOLEAN

VARIABLES
    contentHash, \* field h of the payload hash
    call,        \* what each caller is doing
    fetch,       \* what each reader is doing
    guard,       \* idempotency keys set in Redis
    \* History, read by no action.
    earlier,     \* for each write, those that were over when it began
    acked,       \* writes that Write returned nil for
    journaled,   \* number of the last write the journal took
    mismatched   \* keys with a write skipped as a duplicate of what the store has lost

history  == <<earlier, acked, journaled, mismatched>>
callVars == <<call, guard>>
pathVars == <<vars, contentHash, callVars, fetch, history>>

NoCall  == [at |-> "idle"]
NoFetch == [at |-> "idle"]
Degraded == {"dirty", "dead", "store"}

PathInit ==
    /\ Init
    /\ contentHash = [k \in Key |-> None]
    /\ call = [c \in Caller |-> NoCall]
    /\ fetch = [r \in Reader |-> NoFetch]
    /\ guard = {}
    /\ earlier = [k \in Key |-> [n \in Payload |-> {}]]
    /\ acked = [k \in Key |-> {}]
    /\ journaled = Zeros
    /\ mismatched = {}

-----------------------------------------------------------------------------
(* The order of writes, for the properties.                                *)

InDegraded(k) == {c \in Caller : call[c].at \in Degraded /\ call[c].key = k}

\* Write n of k begins: what is not in a degraded write is over.
Begin(k, n) ==
    earlier' = [earlier EXCEPT ![k][n] = (0..written[k]) \ {call[c].n : c \in InDegraded(k)}]

\* A skipped write counts as write p over again.
BeginAgain(k, p) ==
    earlier' = [earlier EXCEPT ![k] =
        [n \in Payload |-> IF n = p THEN (0..written[k]) \ ({p} \union {call[c].n : c \in InDegraded(k)})
                           ELSE @[n] \ {p}]]

Acknowledge(k, n) == acked' = [acked EXCEPT ![k] = @ \union {n}]

-----------------------------------------------------------------------------
(* Write and WriteIdempotent.                                              *)

\* WriteIdempotent sets its guard and goes on to Write.
SetGuard(c, k, m) ==
    /\ call[c] = NoCall
    /\ m \notin guard
    /\ guard' = guard \union {m}
    /\ call' = [call EXCEPT ![c] = [at |-> "guarded", key |-> k, msg |-> m]]
    /\ UNCHANGED <<vars, contentHash, fetch, history>>

\* The guard is there already: ErrDuplicateIdempotencyKey.
RefuseDuplicate(c, m) ==
    /\ call[c] = NoCall
    /\ m \in guard
    /\ UNCHANGED pathVars

\* Caller c runs the write script for key k, for message m or none.
Writing(c, k, m) ==
    \/ call[c] = NoCall /\ m = NoMessage
    \/ call[c].at = "guarded" /\ call[c].key = k /\ call[c].msg = m

\* HSET h by atomicDedupWriteLua; atomicWriteLua has no such field.
SetContentHash(k, x) ==
    contentHash' = IF ContentDedup THEN [contentHash EXCEPT ![k] = x] ELSE contentHash

Duplicate(k, x) == ContentDedup /\ contentHash[k] = x

\* The script journals write n of k with content x.
Journal(k, n, x, ts) ==
    /\ ~Duplicate(k, x)
    /\ AtomicWrite(k, n, ts)
    /\ SetContentHash(k, x)
    /\ journaled' = [journaled EXCEPT ![k] = n]

\* Write: journaled and acknowledged.
WriteJournaled(c, k, m, x, ts) ==
    /\ Writing(c, k, m)
    /\ written[k] < MaxWrites
    /\ written' = [written EXCEPT ![k] = @ + 1]
    /\ Journal(k, written[k] + 1, x, ts)
    /\ Begin(k, written[k] + 1)
    /\ Acknowledge(k, written[k] + 1)
    /\ call' = [call EXCEPT ![c] = NoCall]
    /\ UNCHANGED <<store, cycle, evicted, reports, guard, fetch, mismatched>>

\* The journal's entry has not been through the store in this cycle.
StillToBeStored(k) ==
    k \in dirty /\ \A f \in Pod : stage[f][k] \notin {"applied", "commit"}

\* Write: skipped and acknowledged, because the hash holds the same content (a
\* TTL it may have is only extended).
WriteSkipped(c, k, m, x) ==
    /\ Writing(c, k, m)
    /\ Duplicate(k, x)
    /\ BeginAgain(k, payload[k])
    /\ Acknowledge(k, payload[k])
    /\ mismatched' = IF sink[k] = payload[k] \/ StillToBeStored(k)
                     THEN mismatched ELSE mismatched \union {k}
    /\ call' = [call EXCEPT ![c] = NoCall]
    /\ UNCHANGED <<vars, contentHash, guard, fetch, journaled>>

\* The script returns an error, having run or not.
WriteFails(c, k, m, x, ts) ==
    /\ Writing(c, k, m)
    /\ written[k] < MaxWrites
    /\ written' = [written EXCEPT ![k] = @ + 1]
    /\ \/ Journal(k, written[k] + 1, x, ts)
       \/ UNCHANGED <<journal, contentHash, journaled>>
    /\ call' = [call EXCEPT ![c] =
         IF DegradedModeDirect
         THEN [at |-> "dirty", key |-> k, msg |-> m, n |-> written[k] + 1]
         ELSE NoCall]
    /\ Begin(k, written[k] + 1)
    /\ UNCHANGED <<store, cycle, evicted, reports, guard, fetch, acked, mismatched>>

-----------------------------------------------------------------------------
(* degradedWrite.                                                          *)

\* Refused with ErrDegradedWriteUnsafe or ErrContractViolation, or cut off.
GiveUp(c) ==
    /\ call[c].at # "idle"
    /\ call' = [call EXCEPT ![c] = NoCall]
    /\ UNCHANGED <<vars, contentHash, fetch, guard, history>>

\* Mutant: HasPendingVersion looks at the dead-letter set only.
ProbeDirtyBlind(c) ==
    /\ call[c].at = "dirty"
    /\ call' = [call EXCEPT ![c].at = "dead"]
    /\ UNCHANGED <<vars, contentHash, fetch, guard, history>>

\* HasPendingVersion: ZSCORE of the dirty set ...
ProbeDirty(c) ==
    /\ call[c].at = "dirty"
    /\ call[c].key \notin dirty
    /\ call' = [call EXCEPT ![c].at = "dead"]
    /\ UNCHANGED <<vars, contentHash, fetch, guard, history>>

\* ... and of the dead-letter set.
ProbeDead(c) ==
    /\ call[c].at = "dead"
    /\ call[c].key \notin dlq
    /\ call' = [call EXCEPT ![c].at = "store"]
    /\ UNCHANGED <<vars, contentHash, fetch, guard, history>>

\* sink.Write, answered or not.  The journal is left as it is.
StoreWrite(c) ==
    /\ call[c].at = "store"
    /\ Apply(call[c].key, call[c].n)
    /\ Acknowledge(call[c].key, call[c].n) \/ UNCHANGED acked
    /\ call' = [call EXCEPT ![c] = NoCall]
    /\ UNCHANGED <<journal, late, cycle, written, evicted, reports, contentHash, fetch, guard,
                   earlier, journaled, mismatched>>

-----------------------------------------------------------------------------
(* Hydration by Read, ReadFresh and HotLoad.                               *)

\* Mutant: a document the Source has not is hydrated too.
SourceReadMissing(r, k) ==
    /\ fetch[r] = NoFetch
    /\ fetch' = [fetch EXCEPT ![r] = [at |-> "hydrate", key |-> k, p |-> sink[k]]]
    /\ UNCHANGED <<vars, contentHash, callVars, history>>

\* Source.Read finds a document: for a Read that has missed the journal some
\* time before, or for a HotLoad, which does not look there first.
SourceRead(r, k) ==
    /\ fetch[r] = NoFetch
    /\ sink[k] # Missing
    /\ fetch' = [fetch EXCEPT ![r] = [at |-> "hydrate", key |-> k, p |-> sink[k]]]
    /\ UNCHANGED <<vars, contentHash, callVars, history>>

\* Mutant: the Source document replaces the entry.
HydrateAlways(k, p) ==
    /\ payload' = [payload EXCEPT ![k] = p]
    /\ expiring' = [expiring EXCEPT ![k] = TRUE]
    /\ contentHash' = [contentHash EXCEPT ![k] = None]
    /\ UNCHANGED <<seq, dirty, score, dlq>>

\* hydrateLua: fills a journal miss, with a TTL and no sequence; an entry that
\* is there keeps its payload and at most gets a longer TTL.
HydrateScript(k, p) ==
    \/ /\ payload[k] = Missing
       /\ payload' = [payload EXCEPT ![k] = p]
       /\ expiring' = [expiring EXCEPT ![k] = TRUE]
       /\ contentHash' = [contentHash EXCEPT ![k] = None]
       /\ UNCHANGED <<seq, dirty, score, dlq>>
    \/ /\ payload[k] # Missing
       /\ UNCHANGED <<journal, contentHash>>

Hydrate(r) ==
    /\ fetch[r].at = "hydrate"
    /\ HydrateScript(fetch[r].key, fetch[r].p)
    /\ fetch' = [fetch EXCEPT ![r] = NoFetch]
    /\ UNCHANGED <<store, cycle, written, evicted, reports, callVars, history>>

\* An error or a deadline.
FetchFails(r) ==
    /\ fetch[r] # NoFetch
    /\ fetch' = [fetch EXCEPT ![r] = NoFetch]
    /\ UNCHANGED <<vars, contentHash, callVars, history>>

-----------------------------------------------------------------------------
\* A step of the flush engine, of the store or of Redis.
EngineStep ==
    /\ \/ \E k \in Key : Expire(k) \/ Evict(k) \/ \E p \in Payload : LateApply(k, p)
       \/ \E f \in Pod : FlushBand(f) \/ Crash(f)
    /\ contentHash' = [k \in Key |-> IF payload'[k] = Missing THEN None ELSE contentHash[k]]
    /\ UNCHANGED <<callVars, fetch, history>>

CallStep(c) ==
    \/ \E k \in Key, m \in Message : SetGuard(c, k, m)
    \/ \E m \in Message : RefuseDuplicate(c, m)
    \/ \E k \in Key, m \in Message \union {NoMessage}, x \in Content :
        \/ \E ts \in Timestamp : WriteJournaled(c, k, m, x, ts) \/ WriteFails(c, k, m, x, ts)
        \/ WriteSkipped(c, k, m, x)
    \/ GiveUp(c)
    \/ ProbeDirty(c)
    \/ ProbeDead(c)
    \/ StoreWrite(c)

FetchStep(r) ==
    \/ \E k \in Key : SourceRead(r, k)
    \/ Hydrate(r)
    \/ FetchFails(r)

PathNext ==
    \/ EngineStep
    \/ \E c \in Caller : CallStep(c)
    \/ \E r \in Reader : FetchStep(r)

PathSpec == PathInit /\ [][PathNext]_pathVars

-----------------------------------------------------------------------------
(* Properties.                                                             *)

\* Every variable has its type.
PathTypeOK ==
    /\ TypeOK
    /\ contentHash \in [Key -> Content \union {None}]
    /\ \A c \in Caller :
        /\ call[c].at \in {"idle", "guarded"} \union Degraded
        /\ call[c].at \in Degraded => call[c].n \in Payload
    /\ \A r \in Reader : fetch[r].at = "hydrate" => fetch[r].p \in Payload
    /\ guard \subseteq Message
    /\ earlier \in [Key -> [Payload -> SUBSET (0..MaxWrites)]]
    /\ acked \in [Key -> SUBSET Payload]
    /\ journaled \in [Key -> 0..MaxWrites]
    /\ mismatched \subseteq Key

\* README.md:525 and the comment of hydrateLua: neither a degraded write nor a
\* Source document of any age touches what is still to be flushed; a dirty key's
\* hash holds what the journal last took, without a TTL.
JournaledPersists ==
    \A k \in dirty \ evicted : payload[k] = journaled[k] /\ ~expiring[k]

\* README.md:531, "degraded mode preserves order": a document is never replaced
\* by a write that was over before the one it holds began, whatever flight,
\* degraded write or hydrated entry it comes from.
OrderPreserved ==
    [][\A k \in Key : sink[k] # Missing /\ sink'[k] # sink[k]
                        => sink'[k] \notin earlier[k][sink[k]]]_pathVars

Superseded(k) == UNION {earlier[k][n] : n \in acked[k]}

\* Nothing of k is on its way to the store.
Settled(k) == k \notin dirty \union dlq \union evicted /\ InDegraded(k) = {}

\* README.md:519, "acknowledged data is never silently lost": once nothing of k
\* is under way the store holds a write no acknowledged one has superseded.  But
\* for the one way deduplication goes wrong: skipping a write that equals the
\* journal's entry when that entry has been stored and a degraded write has
\* replaced the document since.
AckedIsKept == \A k \in Key \ mismatched : Settled(k) => sink[k] \notin Superseded(k)
=============================================================================
