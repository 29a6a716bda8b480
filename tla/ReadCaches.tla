----------------------------- MODULE ReadCaches -----------------------------
(***************************************************************************)
(* One correlation key read through three tiers (sluice.go): the L1 entry  *)
(* of a pod (internal/localjournal), the journal in Redis, and the         *)
(* document in the store; with the broadcast stream that carries writes    *)
(* and promotions to other pods (internal/broadcast).                      *)
(*                                                                         *)
(* Pods share nothing but Redis and the store, so the L1 of one stands for *)
(* all; writers and readers run in it (Local) or elsewhere.  Keys share    *)
(* nothing but the capacity of an L1 shard, so one key stands for all and  *)
(* its entry may be evicted at any time.  The n-th write to reach the      *)
(* journal carries payload n.  What becomes of it there is WriteBuffer for *)
(* one key, which FlushEngine implements for one pod, and what takes the   *)
(* store astray: flights of other pods, dead letters, degraded writes.     *)
(***************************************************************************)
EXTENDS Integers, Sequences, FiniteSets

CONSTANTS
    Writer,        \* goroutines calling Write
    Reader,        \* goroutines reading, or hydrating for a read
    Local,         \* those in the pod whose L1 it is
    Mode,          \* broadcast modes a namespace may be configured with
    MaxWrites,     \* bound: writes of the key
    MaxClock,      \* bound: milliseconds
    Retention,     \* MAXLEN of the stream
    SlowHydration  \* a Source document may be on its way longer than KeyTTL

ASSUME TierAssumption ==
    /\ IsFiniteSet(Writer) /\ Local \subseteq Writer \cup Reader
    /\ Mode \subseteq {"lazy", "payload", "invalidation"}
    /\ MaxWrites \in Nat /\ MaxClock \in Nat \ {0} /\ Retention \in Nat \ {0}
    /\ SlowHydration \in BOOLEAN

VARIABLES
    now,       \* the clock of every pod, in milliseconds
    mode,      \* Config: Lazy, or PushPull with payloads or invalidations
    \* The journal and the store.
    payload,   \* field p of the payload hash; Missing when there is none
    version,   \* field ts
    expiring,  \* the hash has a TTL
    dirty,     \* the key is in the dirty set
    sink,      \* the document
    astray,    \* it may not be what the buffer promises (read by no action)
    overtaken, \* readers whose fetch is older than the TTL
    \* The broadcast.
    stream,    \* messages retained
    cursor,    \* how many of them the subscriber has seen
    \* The pod, and others.
    l1,        \* L1 entry of the key
    call,      \* each writer's Write under way
    fetch,     \* each reader's read or hydration under way
    \* History, read by no action.
    journaledAt  \* when each write reached the journal

journal   == <<payload, version, expiring, dirty>>
broadcast == <<stream, cursor>>
redis     == <<journal, broadcast>>
pods      == <<l1, call, fetch>>
vars      == <<now, mode, redis, sink, astray, overtaken, pods, journaledAt>>

Missing == 0
Stray   == -1   \* no payload, or one that has not reached the journal
Payload == 1..MaxWrites
Clock   == 0..MaxClock
written == Len(journaledAt)

NoEntry == [p |-> Missing, v |-> 0, due |-> FALSE, torn |-> FALSE]
Idle    == [at |-> "idle"]

Init ==
    /\ now = 1 /\ mode \in Mode
    /\ payload = Missing /\ version = 0 /\ expiring = FALSE /\ dirty = FALSE
    /\ sink = Missing /\ astray = FALSE /\ overtaken = {}
    /\ stream = <<>>
    /\ cursor = 0
    /\ l1 = NoEntry
    /\ call = [c \in Writer |-> Idle]
    /\ fetch = [c \in Reader |-> Idle]
    /\ journaledAt = <<>>

-----------------------------------------------------------------------------
(* The L1 entry.                                                           *)

\* Get: a hit.
Serves == l1.p # Missing /\ ~l1.due

\* Mutant: the version of an entry is when it was put.
PutStampedNow(p, v, torn) ==
    l1' = IF l1.p # Missing /\ l1.v >= v THEN l1
          ELSE [p |-> p, v |-> now, due |-> FALSE, torn |-> torn]

\* Put: the resident entry wins unless its version is older, expired or not.
Put(p, v, torn) ==
    l1' = IF l1.p # Missing /\ l1.v >= v THEN l1
          ELSE [p |-> p, v |-> v, due |-> FALSE, torn |-> torn]

\* Invalidate, and what an eviction or an expired Get does.
Drop == l1' = NoEntry

\* LocalTTL passes.
FallDue ==
    /\ Serves
    /\ l1' = [l1 EXCEPT !.due = TRUE]
    /\ UNCHANGED <<now, mode, redis, sink, astray, overtaken, call, fetch, journaledAt>>

\* Another key of the shard pushes the entry out.
EvictEntry ==
    /\ l1.p # Missing
    /\ Drop
    /\ UNCHANGED <<now, mode, redis, sink, astray, overtaken, call, fetch, journaledAt>>

-----------------------------------------------------------------------------
(* The broadcast.                                                          *)

\* XADD of payload p, if messages carry it, at ts; it drops the oldest message of a full
\* stream.  A failure is only logged.
Publish(p, ts) ==
    \/ LET dropped == IF Len(stream) = Retention THEN 1 ELSE 0
       IN /\ stream' = Append(SubSeq(stream, 1 + dropped, Len(stream)),
                             [p |-> IF mode = "payload" THEN p ELSE Stray, ts |-> ts])
          /\ cursor' = IF cursor = 0 THEN 0 ELSE cursor - dropped
    \/ UNCHANGED broadcast

\* The subscriber applies the next message.
Deliver ==
    LET next == cursor + 1
    IN /\ next \leq Len(stream)
       /\ IF mode = "payload" THEN Put(stream[next].p, stream[next].ts, FALSE) ELSE Drop
       /\ cursor' = next
       /\ UNCHANGED <<now, mode, journal, stream, sink, astray, overtaken, call, fetch, journaledAt>>

-----------------------------------------------------------------------------
(* Write.                                                                  *)

\* The L1 version is read off the clock first ...
StartWrite(c) ==
    /\ call[c] = Idle
    /\ written + Cardinality({d \in Writer : call[d].at = "script"}) < MaxWrites
    /\ call' = [call EXCEPT ![c] = [at |-> "script", l1Version |-> now]]
    /\ UNCHANGED <<now, mode, redis, sink, astray, overtaken, l1, fetch, journaledAt>>

\* ... the journal's at some time after it, when the entry is made, and the script
\* runs some time after that, in a batch or at once.
RunScript(c) ==
    /\ call[c].at = "script"
    /\ \E ts \in call[c].l1Version..now :
         /\ payload' = written + 1 /\ version' = ts
         /\ call' = [call EXCEPT ![c] =
              [at |-> "publish", n |-> written + 1, ts |-> ts,
               l1Version |-> IF c \in Local THEN call[c].l1Version ELSE ts]]   \* of no use elsewhere
    /\ expiring' = FALSE /\ dirty' = TRUE
    /\ journaledAt' = Append(journaledAt, now)
    /\ UNCHANGED <<now, mode, broadcast, sink, astray, overtaken, l1, fetch>>

\* The script fails, and the XADD behind it in the pipeline runs all the same.  After a
\* NOSCRIPT both are repeated (once, with the same ts; here as often as may be).
ScriptFails(c) ==
    /\ call[c].at = "script" /\ mode # "lazy"
    /\ \E ts \in call[c].l1Version..now : Publish(Stray, ts)
    /\ UNCHANGED <<now, mode, journal, sink, astray, overtaken, pods, journaledAt>>

\* The XADD behind a script that ran, of the pipeline or of WriteDedup.
PublishWrite(c) ==
    /\ call[c].at = "publish"
    /\ IF mode = "lazy" THEN UNCHANGED broadcast ELSE Publish(call[c].n, call[c].ts)
    /\ call' = [call EXCEPT ![c] =
         IF c \in Local THEN [at |-> "journaled", n |-> @.n, l1Version |-> @.l1Version] ELSE Idle]
    /\ UNCHANGED <<now, mode, journal, sink, astray, overtaken, l1, fetch, journaledAt>>

\* The write-through, and Write returns.  (Elsewhere it is into another L1.)
WriteThrough(c) ==
    /\ call[c].at = "journaled"
    /\ Put(call[c].n, call[c].l1Version, FALSE)
    /\ call' = [call EXCEPT ![c] = Idle]
    /\ UNCHANGED <<now, mode, redis, sink, astray, overtaken, fetch, journaledAt>>

\* An error: of the script, or of a reply that got lost.
WriteFails(c) ==
    /\ call[c].at \in {"script", "publish", "journaled"}
    /\ call' = [call EXCEPT ![c] = Idle]
    /\ UNCHANGED <<now, mode, redis, sink, astray, overtaken, l1, fetch, journaledAt>>

\* On an error under DegradedModeDirect: the payload goes to the store, past the journal
\* and L1.  (The probe of the dirty set before it, which WritePath has, refuses it at
\* times; the store's write may come any time after.)
DegradedWrite(c) ==
    /\ call[c].at \in {"script", "publish", "journaled"}
    /\ sink' = IF call[c].at = "script" THEN Stray ELSE call[c].n
    /\ astray' = TRUE
    /\ call' = [call EXCEPT ![c] = Idle]
    /\ UNCHANGED <<now, mode, redis, overtaken, l1, fetch, journaledAt>>

-----------------------------------------------------------------------------
(* Read, ReadFresh, HotLoad and ReadBulk.                                  *)

EndFetch(c) == fetch' = [fetch EXCEPT ![c] = Idle] /\ overtaken' = overtaken \ {c}

Begin(c, kind, at) ==
    /\ fetch[c] = Idle
    /\ fetch' = [fetch EXCEPT ![c] = [at |-> at, kind |-> kind,
         floor |-> IF kind = "fresh" THEN written ELSE 0,
         p |-> Missing, v |-> IF at = "source" THEN now ELSE 0, torn |-> FALSE]]

\* Read misses in L1, and the expired entry goes.  (A hit changes nothing.)
MissL1(c) ==
    /\ Begin(c, "read", "hget")
    /\ IF c \in Local THEN ~Serves /\ Drop ELSE UNCHANGED l1
    /\ UNCHANGED <<now, mode, redis, sink, astray, overtaken, call, journaledAt>>

\* ReadFresh passes L1 over ...
ReadFresh(c) ==
    /\ Begin(c, "fresh", "hget")
    /\ UNCHANGED <<now, mode, redis, sink, astray, overtaken, l1, call, journaledAt>>

\* ... and HotLoad and ReadBulk the journal as well.  ReadBulk goes on like Read.
HotLoad(c) ==
    /\ Begin(c, "hot", "source")
    /\ UNCHANGED <<now, mode, redis, sink, astray, overtaken, l1, call, journaledAt>>

ReadBulk(c) ==
    /\ Begin(c, "read", "source")
    /\ UNCHANGED <<now, mode, redis, sink, astray, overtaken, l1, call, journaledAt>>

\* ReadJournal is a pipeline, not a transaction: field p first.  After a miss
\* the clock is read for the version of the document.
HGetPayload(c) ==
    /\ fetch[c].at = "hget"
    /\ fetch' = [fetch EXCEPT ![c] =
         IF payload # Missing THEN [@ EXCEPT !.at = "hts", !.p = payload]
         ELSE [@ EXCEPT !.at = "source", !.v = now]]
    /\ UNCHANGED <<now, mode, redis, sink, astray, overtaken, l1, call, journaledAt>>

\* Then field ts, of another write perhaps.  ReadFresh has what it wants and
\* Read heals L1.
HGetTs(c) ==
    /\ fetch[c].at = "hts"
    /\ \/ /\ fetch[c].kind = "read"
          /\ fetch' = [fetch EXCEPT ![c] =
               [@ EXCEPT !.at = "put", !.v = version, !.torn = payload # fetch[c].p]]
          /\ UNCHANGED overtaken
       \/ fetch[c].kind = "fresh" /\ EndFetch(c)
    /\ UNCHANGED <<now, mode, redis, sink, astray, l1, call, journaledAt>>

\* Mutant: a record that is not in the store is hydrated all the same.
SourceReadMissing(c) ==
    /\ fetch[c].at = "source"
    /\ fetch' = [fetch EXCEPT ![c] = [@ EXCEPT !.at = "hydrate", !.p = sink]]
    /\ UNCHANGED <<now, mode, redis, sink, astray, overtaken, l1, call, journaledAt>>

\* The document, or ErrRecordNotFound.  Read and ReadFresh return here.
SourceRead(c) ==
    /\ fetch[c].at = "source"
    /\ \/ /\ sink # Missing
          /\ fetch' = [fetch EXCEPT ![c] = [@ EXCEPT !.at = "hydrate", !.p = sink]]
          /\ UNCHANGED overtaken
       \/ sink = Missing /\ EndFetch(c)
    /\ UNCHANGED <<now, mode, redis, sink, astray, l1, call, journaledAt>>

\* What follows hydration: a seed of what HotLoad wrote, L1 unless ReadFresh asked.
\* From there on HotLoad, Read and ReadBulk are alike.
AfterHydrate(c, p, v, filled) ==
    IF fetch[c].kind = "fresh" THEN Idle
    ELSE [fetch[c] EXCEPT !.p = p, !.v = v, !.kind = "read",
            !.at = IF fetch[c].kind = "hot" /\ filled /\ mode # "lazy" THEN "seed" ELSE "put"]

FillJournal(c) ==
    /\ payload' = fetch[c].p /\ version' = fetch[c].v
    /\ expiring' = TRUE
    /\ fetch' = [fetch EXCEPT ![c] = AfterHydrate(c, fetch[c].p, fetch[c].v, TRUE)]
    /\ overtaken' = {d \in Reader : fetch'[d] # Idle}

\* Mutant: hydration writes over what the journal has.
HydrateAlways(c) ==
    /\ fetch[c].at = "hydrate"
    /\ FillJournal(c)
    /\ UNCHANGED <<now, mode, dirty, broadcast, sink, astray, l1, call, journaledAt>>

\* Mutant: L1 gets the document, whatever the journal has.
HydrateReturnsDocument(c) ==
    /\ fetch[c].at = "hydrate"
    /\ \/ payload = Missing /\ FillJournal(c)
       \/ /\ payload # Missing
          /\ fetch' = [fetch EXCEPT ![c] = AfterHydrate(c, fetch[c].p, fetch[c].v, FALSE)]
          /\ overtaken' = IF fetch'[c] = Idle THEN overtaken \ {c} ELSE overtaken
          /\ UNCHANGED <<payload, version, expiring>>
    /\ UNCHANGED <<now, mode, dirty, broadcast, sink, astray, l1, call, journaledAt>>

\* hydrateLua: fill a miss, else return what the journal has.
Hydrate(c) ==
    /\ fetch[c].at = "hydrate"
    /\ \/ payload = Missing /\ FillJournal(c)
       \/ /\ payload # Missing
          /\ fetch' = [fetch EXCEPT ![c] = AfterHydrate(c, payload, version, FALSE)]
          /\ overtaken' = IF fetch'[c] = Idle THEN overtaken \ {c} ELSE overtaken
          /\ UNCHANGED <<payload, version, expiring>>
    /\ UNCHANGED <<now, mode, dirty, broadcast, sink, astray, l1, call, journaledAt>>

Seed(c) ==
    /\ fetch[c].at = "seed"
    /\ Publish(fetch[c].p, fetch[c].v)
    /\ fetch' = [fetch EXCEPT ![c] = [@ EXCEPT !.at = "put"]]
    /\ UNCHANGED <<now, mode, journal, sink, astray, overtaken, l1, call, journaledAt>>

PutL1(c) ==
    /\ fetch[c].at = "put"
    /\ IF c \in Local THEN Put(fetch[c].p, fetch[c].v, fetch[c].torn) ELSE UNCHANGED l1
    /\ EndFetch(c)
    /\ UNCHANGED <<now, mode, redis, sink, astray, call, journaledAt>>

\* An error of Redis or the Source, before its command ran or after.
FetchFails(c) ==
    /\ fetch[c].at \in {"hget", "hts", "source", "hydrate"}
    /\ EndFetch(c)
    /\ UNCHANGED <<now, mode, redis, sink, astray, l1, call, journaledAt>>

-----------------------------------------------------------------------------
(* The rest of the buffer, as WriteBuffer has it, and the environment.     *)

\* The document moves forward while the key is dirty ...
Persist ==
    /\ dirty
    /\ sink' \in {n \in Payload : sink < n /\ n \leq payload}
    /\ UNCHANGED <<now, mode, redis, astray, overtaken, pods, journaledAt>>

Clean == /\ dirty' = FALSE /\ expiring' = TRUE
         /\ overtaken' = {c \in Reader : fetch[c] # Idle}

\* Mutant: a commit of a version written over since.
SettleUnconditionally ==
    /\ dirty /\ sink # Missing
    /\ Clean
    /\ UNCHANGED <<now, mode, payload, version, broadcast, sink, astray, pods, journaledAt>>

\* ... and the key is clean once it has the latest write, with a TTL.
Settle ==
    /\ dirty /\ sink = payload
    /\ Clean
    /\ UNCHANGED <<now, mode, payload, version, broadcast, sink, astray, pods, journaledAt>>

\* A flight of another pod lands, out of turn or on a clean key.  (With a commit after it,
\* of a newer one that was in the store before: the same as one that lands after both.)
LateFlight ==
    /\ sink' \in 1..written /\ ~(dirty /\ sink' > sink)
    /\ astray' = (astray \/ sink' # sink)
    /\ UNCHANGED <<now, mode, redis, overtaken, pods, journaledAt>>

\* The latest write is dead-lettered, and has a TTL without being in the store.
DeadLetter ==
    /\ dirty
    /\ Clean
    /\ astray' = TRUE
    /\ UNCHANGED <<now, mode, payload, version, broadcast, sink, pods, journaledAt>>

Expire ==
    /\ expiring /\ (SlowHydration \/ overtaken = {})
    /\ payload' = Missing /\ version' = 0 /\ expiring' = FALSE
    /\ UNCHANGED <<now, mode, dirty, broadcast, sink, astray, overtaken, pods, journaledAt>>

Tick ==
    /\ now < MaxClock
    /\ now' = now + 1
    /\ UNCHANGED <<mode, redis, sink, astray, overtaken, pods, journaledAt>>

\* The pod stops and starts: its L1 is empty and its subscriber begins at "0".
Restart ==
    /\ Drop /\ cursor' = 0
    /\ call' = [c \in Writer |-> IF c \in Local THEN Idle ELSE call[c]]
    /\ fetch' = [c \in Reader |-> IF c \in Local THEN Idle ELSE fetch[c]]
    /\ overtaken' = overtaken \ Local
    /\ UNCHANGED <<now, mode, journal, stream, sink, astray, journaledAt>>

Write(c) == \/ StartWrite(c) \/ RunScript(c) \/ ScriptFails(c) \/ PublishWrite(c) \/ WriteThrough(c)
            \/ WriteFails(c) \/ DegradedWrite(c)

Read(c) == \/ MissL1(c) \/ ReadFresh(c) \/ HotLoad(c) \/ ReadBulk(c)
           \/ HGetPayload(c) \/ HGetTs(c) \/ SourceRead(c) \/ Hydrate(c) \/ Seed(c) \/ PutL1(c)
           \/ FetchFails(c)

Next ==
    \/ \E c \in Writer : Write(c)
    \/ \E c \in Reader : Read(c)
    \/ Deliver \/ FallDue \/ EvictEntry \/ Restart
    \/ Persist \/ Settle \/ LateFlight \/ DeadLetter \/ Expire \/ Tick

Spec == Init /\ [][Next]_vars /\ WF_vars(FallDue)

-----------------------------------------------------------------------------
(* Properties.                                                             *)

\* State of the right types; a copy carried anywhere is a copy of some write.
Copy == Payload \cup {Stray}

CacheTypeOK ==
    /\ now \in Clock /\ mode \in Mode
    /\ payload \in Copy \cup {Missing} /\ version \in Clock
    /\ expiring \in BOOLEAN /\ dirty \in BOOLEAN /\ (dirty => payload \in Payload /\ ~expiring)
    /\ sink \in Copy \cup {Missing} /\ astray \in BOOLEAN
    /\ overtaken \subseteq {c \in Reader : fetch[c] # Idle}
    /\ stream \in Seq([p : Copy, ts : Clock]) /\ Len(stream) \leq Retention
    /\ cursor \in 0..Len(stream)
    /\ l1 = NoEntry \/ l1 \in [p : Copy, v : Clock, due : BOOLEAN, torn : BOOLEAN]
    /\ \A c \in Reader : fetch[c].at \in {"hts", "hydrate", "seed", "put"} => fetch[c].p \in Copy
    /\ journaledAt \in Seq(Clock) /\ written \leq MaxWrites

\* The version an entry carries stands for a moment before which it was the
\* latest: every later write reached the journal then or after.  Gating by
\* version rests on it, and on hydrateTs being captured before the Source read
\* and l1Version before the journal write.  (A payload that ReadJournal paired
\* with another write's ts has no honest version; see HGetTs.  Nor has one whose
\* message was sent before its script ran, or without; see ScriptFails.)
Honest(p, v) == p # Stray => \A n \in (p + 1)..written : journaledAt[n] \geq v

VersionIsHonest == ~astray =>
    /\ payload # Missing => Honest(payload, version)
    /\ \A i \in 1..Len(stream) : Honest(stream[i].p, stream[i].ts)
    /\ l1.p # Missing /\ ~l1.torn => Honest(l1.p, l1.v)

\* ReadFresh returns the latest write of all that were in the journal when it
\* was called, whatever L1, hydration, flushes and expiry do meanwhile: as long
\* as the store has not gone astray.
FreshIsCurrent == ~astray =>
    \A c \in Reader : fetch[c] # Idle /\ fetch[c].kind = "fresh" =>
        /\ fetch[c].at \in {"hts", "hydrate"} => fetch[c].p \geq fetch[c].floor
        /\ fetch[c].at = "source" => sink \geq fetch[c].floor

\* Hydration never puts a document into the journal that the store or the
\* buffer has gone past: a journal entry is never older than the store's, but
\* for what went to the store out of turn or past the journal.
JournalNotBehindStore == ~astray /\ payload # Missing => payload \geq sink

\* Once nobody writes, and no restart replays the stream, L1 comes to serve nothing but
\* the latest write, though a hydration began before it, a copy lost its race at the
\* version gate, a message was trimmed or was of no write, or two fields were torn.
Quiet == <>[](\A c \in Writer : call[c] = Idle) /\ <>[][cursor # 0 => ~Restart]_vars

LatestIsServed == Quiet /\ <>[]~astray => <>[](Serves => l1.p = written)
=============================================================================
