-------------------------- MODULE ReadCachesProofs --------------------------
(***************************************************************************)
(* Proofs, for any writers, readers, modes and bounds, of the safety       *)
(* properties of ReadCaches.                                               *)
(*                                                                         *)
(* A payload is in the hands of the journal, the stream, the L1 entry, a   *)
(* writer or a reader.  The invariant says of each what it may be relied   *)
(* on; what readers carry out of the store is the delicate part, and holds *)
(* as long as a fetch is over before a TTL set during it runs out.         *)
(***************************************************************************)
EXTENDS ReadCaches, FiniteSetTheorems, SequenceTheorems, TLAPS

\* What is in hand, by where its owner is.
CallType ==
    {Idle} \cup [at : {"script"}, l1Version : Clock]
           \cup [at : {"publish"}, n : Payload, l1Version : Clock, ts : Clock]
           \cup [at : {"journaled"}, n : Payload, l1Version : Clock]

FetchType ==
    {Idle} \cup [at : {"hget", "hts", "source", "hydrate", "seed", "put"},
                 kind : {"read", "fresh", "hot"}, floor : Nat,
                 p : Copy \cup {Missing}, v : Clock, torn : BOOLEAN]

Scripting == {c \in Writer : call[c].at = "script"}

\* CacheTypeOK, with the owners' states and the reservation StartWrite makes.
TypeInv ==
    /\ CacheTypeOK
    /\ call \in [Writer -> CallType]
    /\ fetch \in [Reader -> FetchType]
    /\ written + Cardinality(Scripting) \leq MaxWrites

\* While the store has not gone astray: the journal has the latest write or
\* nothing; a dirty key has it there, a clean one in the store.
JournalIsLatest ==
    /\ payload \in {Missing, written}
    /\ dirty => payload = written
    /\ ~dirty => sink = written
    /\ sink \in 0..written

\* A hash whose TTL was set during a fetch outlives the fetch.
KeptWhileOvertaken == overtaken # {} => payload # Missing

\* A document fetched with no flush completed meanwhile is the latest write,
\* unless there is a newer one in the journal.
FetchedIsLatest ==
    \A c \in Reader : fetch[c].at = "hydrate" /\ c \notin overtaken /\ ~dirty =>
        fetch[c].p = written

\* A copy's version is honest and not in the future.
Fair(p, v) == v \leq now /\ Honest(p, v)

HonestInv ==
    /\ payload # Missing => Fair(payload, version)
    /\ \A i \in 1..Len(stream) : Fair(stream[i].p, stream[i].ts)
    /\ l1.p # Missing /\ ~l1.torn => Fair(l1.p, l1.v)
    /\ \A c \in Writer :
        /\ call[c].at \in {"script", "publish", "journaled"} => call[c].l1Version \leq now
        /\ call[c].at \in {"publish", "journaled"} => Fair(call[c].n, call[c].l1Version)
        /\ call[c].at = "publish" => Fair(call[c].n, call[c].ts)
    /\ \A c \in Reader :
        /\ fetch[c].at \in {"source", "hydrate"} => fetch[c].v \leq now
        /\ fetch[c].at = "seed" => Fair(fetch[c].p, fetch[c].v)
        /\ fetch[c].at = "put" /\ ~fetch[c].torn => Fair(fetch[c].p, fetch[c].v)

\* One reader: its floor is in the history, and what it has in hand, or will
\* find in the store, is not below it.
Current(d) ==
    fetch[d] # Idle =>
        /\ fetch[d].floor \in Nat /\ fetch[d].floor \leq written
        /\ fetch[d].kind = "fresh" =>
            /\ fetch[d].at \in {"hts", "hydrate"} => fetch[d].p \geq fetch[d].floor
            /\ fetch[d].at = "source" => sink \geq fetch[d].floor

TierInv ==
    /\ TypeInv
    /\ KeptWhileOvertaken
    /\ ~astray => JournalIsLatest /\ FetchedIsLatest /\ HonestInv /\ \A d \in Reader : Current(d)

-----------------------------------------------------------------------------
(* The steps of the system, by the state they change.                      *)

ghost == <<now, mode, payload, version, expiring, dirty, sink, journaledAt>>

LEMMA StoreSteps ==
    ASSUME [Next]_vars
    PROVE  \/ UNCHANGED ghost
           \/ \E c \in Writer : RunScript(c)
           \/ \E c \in Reader : Hydrate(c)
           \/ Persist \/ Settle \/ Expire \/ Tick
           \/ \E c \in Writer : DegradedWrite(c)
           \/ LateFlight \/ DeadLetter
  <1>. USE DEF ghost, redis, journal
  <1>1. ASSUME NEW c \in Writer,
               StartWrite(c) \/ ScriptFails(c) \/ PublishWrite(c) \/ WriteThrough(c) \/ WriteFails(c)
        PROVE  UNCHANGED ghost
    BY <1>1 DEF StartWrite, ScriptFails, PublishWrite, WriteThrough, WriteFails
  <1>2. ASSUME NEW c \in Reader,
               \/ MissL1(c) \/ ReadFresh(c) \/ HotLoad(c) \/ ReadBulk(c) \/ HGetPayload(c)
               \/ HGetTs(c) \/ SourceRead(c) \/ Seed(c) \/ PutL1(c) \/ FetchFails(c)
        PROVE  UNCHANGED ghost
    BY <1>2 DEF MissL1, ReadFresh, HotLoad, ReadBulk, HGetPayload, HGetTs, SourceRead, Seed,
                PutL1, FetchFails
  <1>3. ASSUME Deliver \/ FallDue \/ EvictEntry \/ Restart
        PROVE  UNCHANGED ghost
    BY <1>3 DEF Deliver, FallDue, EvictEntry, Restart
  <1>. QED BY <1>1, <1>2, <1>3 DEF Next, Write, Read, vars

\* Those that leave the store what the buffer promises; once astray, it stays so.
LEMMA StraightSteps ==
    ASSUME [Next]_vars, ~astray'
    PROVE  /\ ~astray
           /\ \/ UNCHANGED ghost
              \/ \E c \in Writer : RunScript(c)
              \/ \E c \in Reader : Hydrate(c)
              \/ Persist \/ Settle \/ Expire \/ Tick
  <1>1. ASSUME NEW c \in Writer, Write(c) PROVE ~astray
    <2>1. ~ DegradedWrite(c)
      BY DEF DegradedWrite
    <2>2. astray' = astray
      BY <1>1, <2>1 DEF Write, StartWrite, RunScript, ScriptFails, PublishWrite, WriteThrough,
                        WriteFails
    <2>. QED BY <2>2
  <1>2. ASSUME NEW c \in Reader, Read(c) PROVE ~astray
    BY <1>2 DEF Read, MissL1, ReadFresh, HotLoad, ReadBulk, HGetPayload, HGetTs, SourceRead,
                Hydrate, Seed, PutL1, FetchFails
  <1>3. ASSUME \/ Deliver \/ FallDue \/ EvictEntry \/ Restart
               \/ Persist \/ Settle \/ Expire \/ Tick
        PROVE  ~astray
    BY <1>3 DEF Deliver, FallDue, EvictEntry, Restart, Persist, Settle, Expire, Tick
  <1>4. ASSUME LateFlight PROVE ~astray /\ UNCHANGED ghost
    BY <1>4 DEF LateFlight, ghost, redis, journal
  <1>5. ~ DeadLetter
    BY DEF DeadLetter
  <1>6. ~ \E c \in Writer : DegradedWrite(c)
    BY DEF DegradedWrite
  <1>7. ~astray
    BY <1>1, <1>2, <1>3, <1>4, <1>5 DEF Next, vars
  <1>. QED BY <1>4, <1>5, <1>6, <1>7, StoreSteps

\* A message published is a writer's, its script run or failed, or what HotLoad has just
\* filled in.
LEMMA StreamSteps ==
    ASSUME [Next]_vars
    PROVE  \/ UNCHANGED broadcast
           \/ \E c \in Writer : call[c].at = "publish" /\ Publish(call[c].n, call[c].ts)
           \/ \E c \in Writer : /\ call[c].at = "script"
                                /\ \E ts \in call[c].l1Version..now : Publish(Stray, ts)
           \/ \E c \in Reader : fetch[c].at = "seed" /\ Publish(fetch[c].p, fetch[c].v)
           \/ stream' = stream /\ cursor' \in {0, cursor + 1} /\ (cursor' = 0 \/ Deliver)
  <1>. USE DEF broadcast, redis
  <1>1. ASSUME NEW c \in Writer,
               \/ StartWrite(c) \/ RunScript(c) \/ WriteThrough(c) \/ WriteFails(c)
               \/ DegradedWrite(c)
        PROVE  UNCHANGED broadcast
    BY <1>1 DEF StartWrite, RunScript, WriteThrough, WriteFails, DegradedWrite
  <1>0. ASSUME NEW c \in Writer, ScriptFails(c)
        PROVE  call[c].at = "script" /\ \E ts \in call[c].l1Version..now : Publish(Stray, ts)
    BY <1>0 DEF ScriptFails
  <1>2. ASSUME NEW c \in Writer, PublishWrite(c)
        PROVE  UNCHANGED broadcast \/ (call[c].at = "publish" /\ Publish(call[c].n, call[c].ts))
    BY <1>2 DEF PublishWrite
  <1>3. ASSUME NEW c \in Reader,
               \/ MissL1(c) \/ ReadFresh(c) \/ HotLoad(c) \/ ReadBulk(c) \/ HGetPayload(c)
               \/ HGetTs(c) \/ SourceRead(c) \/ Hydrate(c) \/ PutL1(c) \/ FetchFails(c)
        PROVE  UNCHANGED broadcast
    BY <1>3 DEF MissL1, ReadFresh, HotLoad, ReadBulk, HGetPayload, HGetTs, SourceRead,
                Hydrate, PutL1, FetchFails
  <1>4. ASSUME NEW c \in Reader, Seed(c)
        PROVE  fetch[c].at = "seed" /\ Publish(fetch[c].p, fetch[c].v)
    BY <1>4 DEF Seed
  <1>5. ASSUME \/ FallDue \/ EvictEntry \/ Persist \/ Settle \/ LateFlight \/ DeadLetter
               \/ Expire \/ Tick
        PROVE  UNCHANGED broadcast
    BY <1>5 DEF FallDue, EvictEntry, Persist, Settle, LateFlight, DeadLetter, Expire, Tick
  <1>6. ASSUME Deliver \/ Restart
        PROVE  stream' = stream /\ cursor' \in {0, cursor + 1} /\ (cursor' = 0 \/ Deliver)
    BY <1>6 DEF Deliver, Restart
  <1>. QED BY <1>0, <1>1, <1>2, <1>3, <1>4, <1>5, <1>6 DEF Next, Write, Read, vars

\* What is put into L1 is a message's, a writer's or a reader's.
LEMMA EntrySteps ==
    ASSUME [Next]_vars
    PROVE  \/ l1' = l1 \/ Drop \/ FallDue
           \/ cursor + 1 \leq Len(stream)
              /\ Put(stream[cursor + 1].p, stream[cursor + 1].ts, FALSE)
           \/ \E c \in Writer : call[c].at = "journaled" /\ Put(call[c].n, call[c].l1Version, FALSE)
           \/ \E c \in Reader : fetch[c].at = "put" /\ Put(fetch[c].p, fetch[c].v, fetch[c].torn)
  <1>1. ASSUME NEW c \in Writer,
               \/ StartWrite(c) \/ RunScript(c) \/ ScriptFails(c) \/ PublishWrite(c)
               \/ WriteFails(c) \/ DegradedWrite(c)
        PROVE  l1' = l1
    BY <1>1 DEF StartWrite, RunScript, ScriptFails, PublishWrite, WriteFails, DegradedWrite, pods
  <1>2. ASSUME NEW c \in Writer, WriteThrough(c)
        PROVE  call[c].at = "journaled" /\ Put(call[c].n, call[c].l1Version, FALSE)
    BY <1>2 DEF WriteThrough
  <1>3. ASSUME NEW c \in Reader,
               \/ MissL1(c) \/ ReadFresh(c) \/ HotLoad(c) \/ ReadBulk(c) \/ HGetPayload(c)
               \/ HGetTs(c) \/ SourceRead(c) \/ Hydrate(c) \/ Seed(c) \/ FetchFails(c)
        PROVE  l1' = l1 \/ Drop
    BY <1>3 DEF MissL1, ReadFresh, HotLoad, ReadBulk, HGetPayload, HGetTs, SourceRead,
                Hydrate, Seed, FetchFails
  <1>4. ASSUME NEW c \in Reader, PutL1(c)
        PROVE  l1' = l1 \/ (fetch[c].at = "put" /\ Put(fetch[c].p, fetch[c].v, fetch[c].torn))
    BY <1>4 DEF PutL1
  <1>5. ASSUME \/ EvictEntry \/ Restart \/ Persist \/ Settle \/ LateFlight \/ DeadLetter
               \/ Expire \/ Tick
        PROVE  l1' = l1 \/ Drop
    BY <1>5 DEF EvictEntry, Restart, Persist, Settle, LateFlight, DeadLetter, Expire, Tick, pods
  <1>6. ASSUME Deliver
        PROVE  \/ Drop
               \/ cursor + 1 \leq Len(stream)
                  /\ Put(stream[cursor + 1].p, stream[cursor + 1].ts, FALSE)
    BY <1>6 DEF Deliver
  <1>. QED BY <1>1, <1>2, <1>3, <1>4, <1>5, <1>6 DEF Next, Write, Read, vars, pods

LEMMA CallSteps ==
    ASSUME [Next]_vars
    PROVE  \/ call' = call
           \/ \E c \in Writer : StartWrite(c) \/ RunScript(c) \/ PublishWrite(c)
           \/ \E c \in Writer : call' = [call EXCEPT ![c] = Idle]
           \/ call' = [c \in Writer |-> IF c \in Local THEN Idle ELSE call[c]]
  <1>1. ASSUME NEW c \in Writer, WriteThrough(c) \/ WriteFails(c) \/ DegradedWrite(c)
        PROVE  call' = [call EXCEPT ![c] = Idle]
    BY <1>1 DEF WriteThrough, WriteFails, DegradedWrite
  <1>0. ASSUME NEW c \in Writer, ScriptFails(c)
        PROVE  call' = call
    BY <1>0 DEF ScriptFails, pods
  <1>2. ASSUME NEW c \in Reader, Read(c)
        PROVE  call' = call
    BY <1>2 DEF Read, MissL1, ReadFresh, HotLoad, ReadBulk, HGetPayload, HGetTs, SourceRead,
                Hydrate, Seed, PutL1, FetchFails
  <1>3. ASSUME \/ Deliver \/ FallDue \/ EvictEntry \/ Persist \/ Settle \/ LateFlight \/ DeadLetter
               \/ Expire \/ Tick
        PROVE  call' = call
    BY <1>3 DEF Deliver, FallDue, EvictEntry, Persist, Settle, LateFlight, DeadLetter, Expire, Tick,
                pods
  <1>4. ASSUME Restart
        PROVE  call' = [c \in Writer |-> IF c \in Local THEN Idle ELSE call[c]]
    BY <1>4 DEF Restart
  <1>. QED BY <1>0, <1>1, <1>2, <1>3, <1>4 DEF Next, Write, vars, pods

LEMMA FetchSteps ==
    ASSUME [Next]_vars
    PROVE  \/ UNCHANGED <<fetch, overtaken>>
           \/ \E c \in Reader : Read(c)
           \/ Settle \/ DeadLetter \/ Restart
  <1>1. ASSUME NEW c \in Writer, Write(c)
        PROVE  UNCHANGED <<fetch, overtaken>>
    BY <1>1 DEF Write, StartWrite, RunScript, ScriptFails, PublishWrite, WriteThrough, WriteFails,
                DegradedWrite, pods
  <1>2. ASSUME Deliver \/ FallDue \/ EvictEntry \/ Persist \/ LateFlight \/ Expire \/ Tick
        PROVE  UNCHANGED <<fetch, overtaken>>
    BY <1>2 DEF Deliver, FallDue, EvictEntry, Persist, LateFlight, Expire, Tick, pods
  <1>. QED BY <1>1, <1>2 DEF Next, vars, pods

-----------------------------------------------------------------------------
(* Type correctness.                                                       *)

NumbersType ==
    /\ now \in Clock /\ version \in Clock
    /\ payload \in Copy \cup {Missing} /\ sink \in Copy \cup {Missing}

FlagsType ==
    /\ mode \in Mode /\ expiring \in BOOLEAN /\ dirty \in BOOLEAN /\ astray \in BOOLEAN
    /\ dirty => payload \in Payload /\ ~expiring

Message == [p : Copy, ts : Clock]

StreamType ==
    /\ stream \in Seq(Message) /\ Len(stream) \leq Retention
    /\ cursor \in 0..Len(stream)

EntryType == l1 = NoEntry \/ l1 \in [p : Copy, v : Clock, due : BOOLEAN, torn : BOOLEAN]

CallsType ==
    /\ journaledAt \in Seq(Clock)
    /\ call \in [Writer -> CallType]
    /\ written + Cardinality(Scripting) \leq MaxWrites

FetchesType ==
    /\ fetch \in [Reader -> FetchType]
    /\ \A c \in Reader : fetch[c].at \in {"hts", "hydrate", "seed", "put"} => fetch[c].p \in Copy
    /\ overtaken \subseteq {c \in Reader : fetch[c] # Idle}

LEMMA ScriptingFinite ==
    /\ IsFiniteSet(Scripting) /\ Cardinality(Scripting) \in Nat
    /\ \A c \in Scripting : /\ IsFiniteSet(Scripting \ {c})
                            /\ Cardinality(Scripting \ {c}) = Cardinality(Scripting) - 1
                            /\ Cardinality(Scripting) > 0
  <1>1. IsFiniteSet(Scripting)
    BY TierAssumption, FS_Subset DEF Scripting
  <1>2. \A c \in Scripting : Cardinality(Scripting \ {c}) = Cardinality(Scripting) - 1
    BY <1>1, FS_RemoveElement
  <1>3. \A c \in Scripting : IsFiniteSet(Scripting \ {c}) /\ Cardinality(Scripting \ {c}) \in Nat
    BY <1>1, FS_Subset, FS_CardinalityType
  <1>. QED BY <1>1, <1>2, <1>3, FS_CardinalityType

LEMMA TypeParts ==
    TypeInv <=> NumbersType /\ FlagsType /\ StreamType /\ EntryType /\ CallsType /\ FetchesType
  <1>1. Cardinality(Scripting) \in Nat
    BY ScriptingFinite
  <1>2. journaledAt \in Seq(Clock) => written \in Nat
    BY DEF written
  <1>3. CallsType => written \leq MaxWrites
    BY <1>1, <1>2, TierAssumption DEF CallsType
  <1>. QED BY <1>3 DEF TypeInv, CacheTypeOK, NumbersType, FlagsType, StreamType, Message, EntryType,
                       CallsType, FetchesType

LEMMA InitTypeInv == Init => TypeInv
  <1>. SUFFICES ASSUME Init PROVE TypeInv
    OBVIOUS
  <1>. USE TierAssumption DEF Init
  <1>1. NumbersType
    BY DEF NumbersType, Clock, Missing
  <1>5. FlagsType
    BY DEF FlagsType
  <1>2. StreamType /\ EntryType
    BY DEF StreamType, EntryType
  <1>3. CallsType
    <2>1. Scripting = {}
      BY DEF Scripting, Idle
    <2>. QED BY <2>1, FS_EmptySet DEF CallsType, CallType, written
  <1>4. FetchesType
    BY DEF FetchesType, FetchType, Idle
  <1>. QED BY <1>1, <1>2, <1>3, <1>4, <1>5, TypeParts

\* What the journal acknowledged, and the writes under way, are within the bound.
LEMMA WrittenType ==
    ASSUME CallsType
    PROVE  /\ written \in Nat /\ written \leq MaxWrites
           /\ \A c \in Writer : call[c].at = "script" => written + 1 \leq MaxWrites
  <1>1. written \in Nat
    BY DEF written, CallsType
  <1>2. Cardinality(Scripting) \in Nat /\ written + Cardinality(Scripting) \leq MaxWrites
    BY ScriptingFinite DEF CallsType
  <1>3. ASSUME NEW c \in Writer, call[c].at = "script" PROVE Cardinality(Scripting) > 0
    BY <1>3, ScriptingFinite DEF Scripting
  <1>. QED BY <1>1, <1>2, <1>3, TierAssumption

LEMMA StepNumbersType ==
    ASSUME TypeInv, [Next]_vars
    PROVE  NumbersType'
  <1>. USE TierAssumption DEF NumbersType
  <1>a. NumbersType /\ CallsType /\ FetchesType
    BY TypeParts
  <1>1. CASE UNCHANGED ghost
    BY <1>1, <1>a DEF ghost
  <1>2. ASSUME NEW c \in Writer, RunScript(c) PROVE NumbersType'
    <2>1. written \in Nat /\ written + 1 \leq MaxWrites
      BY <1>2, <1>a, WrittenType DEF RunScript
    <2>2. call[c].l1Version \in Clock
      BY <1>2, <1>a DEF RunScript, CallsType, CallType, Idle
    <2>3. payload' = written + 1 /\ version' \in call[c].l1Version..now
          /\ now' = now /\ sink' = sink
      BY <1>2 DEF RunScript
    <2>. QED BY <1>a, <2>1, <2>2, <2>3 DEF Clock, Copy, Payload
  <1>3. ASSUME NEW c \in Reader, Hydrate(c) PROVE NumbersType'
    <2>1. fetch[c].p \in Copy /\ fetch[c].v \in Clock
      BY <1>3, <1>a DEF Hydrate, FetchesType, FetchType, Idle
    <2>. QED BY <1>3, <1>a, <2>1 DEF Hydrate, FillJournal
  <1>4. ASSUME Persist PROVE NumbersType'
    BY <1>4, <1>a DEF Persist, Copy, redis, journal
  <1>5. ASSUME Settle \/ DeadLetter \/ Expire PROVE NumbersType'
    BY <1>5, <1>a DEF Settle, DeadLetter, Expire, Clock, Missing
  <1>7. ASSUME LateFlight PROVE NumbersType'
    <2>1. written \in Nat /\ written \leq MaxWrites
      BY <1>a, WrittenType
    <2>. QED BY <1>7, <1>a, <2>1 DEF LateFlight, Copy, Payload, redis, journal
  <1>8. ASSUME NEW c \in Writer, DegradedWrite(c) PROVE NumbersType'
    <2>1. call[c].at \in {"publish", "journaled"} => call[c].n \in Payload
      BY <1>a DEF CallsType, CallType, Idle
    <2>. QED BY <1>8, <1>a, <2>1 DEF DegradedWrite, Copy, redis, journal
  <1>6. ASSUME Tick PROVE NumbersType'
    BY <1>6, <1>a DEF Tick, Clock, redis, journal
  <1>. QED BY <1>1, <1>2, <1>3, <1>4, <1>5, <1>6, <1>7, <1>8, StoreSteps

LEMMA StepAstrayType ==
    ASSUME astray \in BOOLEAN, [Next]_vars
    PROVE  astray' \in BOOLEAN
  <1>1. ASSUME NEW c \in Writer, Write(c) PROVE astray' = astray \/ astray' = TRUE
    BY <1>1 DEF Write, StartWrite, RunScript, ScriptFails, PublishWrite, WriteThrough, WriteFails,
                DegradedWrite
  <1>2. ASSUME NEW c \in Reader, Read(c) PROVE astray' = astray
    BY <1>2 DEF Read, MissL1, ReadFresh, HotLoad, ReadBulk, HGetPayload, HGetTs, SourceRead,
                Hydrate, Seed, PutL1, FetchFails
  <1>3. ASSUME \/ Deliver \/ FallDue \/ EvictEntry \/ Restart
               \/ Persist \/ Settle \/ Expire \/ Tick
        PROVE  astray' = astray
    BY <1>3 DEF Deliver, FallDue, EvictEntry, Restart, Persist, Settle, Expire, Tick
  <1>4. ASSUME LateFlight \/ DeadLetter PROVE astray' \in BOOLEAN
    BY <1>4 DEF LateFlight, DeadLetter
  <1>. QED BY <1>1, <1>2, <1>3, <1>4 DEF Next, vars

LEMMA StepFlagsType ==
    ASSUME TypeInv, [Next]_vars
    PROVE  FlagsType'
  <1>. USE DEF FlagsType
  <1>a. FlagsType /\ CallsType /\ FetchesType
    BY TypeParts
  <1>b. astray' \in BOOLEAN
    BY <1>a, StepAstrayType
  <1>1. CASE UNCHANGED ghost
    BY <1>1, <1>a, <1>b DEF ghost
  <1>2. ASSUME NEW c \in Writer, RunScript(c) PROVE FlagsType'
    <2>1. payload' \in Payload
      BY <1>2, <1>a, WrittenType, TierAssumption DEF RunScript, Payload
    <2>. QED BY <1>2, <1>a, <1>b, <2>1 DEF RunScript
  <1>3. ASSUME NEW c \in Reader, Hydrate(c) PROVE FlagsType'
    <2>1. mode' = mode /\ dirty' = dirty
      BY <1>3 DEF Hydrate
    <2>2. CASE payload = Missing /\ expiring' = TRUE
      <3>1. dirty = FALSE
        BY <1>a, <2>2, TierAssumption DEF Payload, Missing
      <3>. QED BY <1>a, <1>b, <2>1, <2>2, <3>1
    <2>3. CASE UNCHANGED <<payload, expiring>>
      BY <1>a, <1>b, <2>1, <2>3
    <2>. QED BY <1>3, <2>2, <2>3 DEF Hydrate, FillJournal
  <1>4. ASSUME Persist \/ LateFlight \/ Tick \/ \E c \in Writer : DegradedWrite(c) PROVE FlagsType'
    BY <1>4, <1>a, <1>b DEF Persist, LateFlight, Tick, DegradedWrite, redis, journal
  <1>5. ASSUME Settle \/ DeadLetter PROVE FlagsType'
    BY <1>5, <1>a, <1>b DEF Settle, DeadLetter, Clean
  <1>6. ASSUME Expire PROVE FlagsType'
    <2>1. dirty = FALSE
      BY <1>a, <1>6 DEF Expire
    <2>. QED BY <1>a, <1>b, <1>6, <2>1 DEF Expire
  <1>. QED BY <1>1, <1>2, <1>3, <1>4, <1>5, <1>6, StoreSteps

LEMMA StepEntryType ==
    ASSUME TypeInv, [Next]_vars
    PROVE  EntryType'
  <1>. USE DEF EntryType
  <1>a. StreamType /\ EntryType /\ CallsType /\ FetchesType
    BY TypeParts
  <1>1. ASSUME NEW p \in Copy, NEW v \in Clock, NEW torn \in BOOLEAN, Put(p, v, torn)
        PROVE  EntryType'
    BY <1>1, <1>a DEF Put
  <1>2. ASSUME NEW c \in Writer, call[c].at = "journaled"
        PROVE  call[c].n \in Copy /\ call[c].l1Version \in Clock
    BY <1>2, <1>a DEF CallsType, CallType, Idle, Copy
  <1>3. ASSUME NEW c \in Reader, fetch[c].at = "put"
        PROVE  fetch[c].p \in Copy /\ fetch[c].v \in Clock /\ fetch[c].torn \in BOOLEAN
    BY <1>3, <1>a DEF FetchesType, FetchType, Idle
  <1>4. ASSUME cursor + 1 \leq Len(stream)
        PROVE  stream[cursor + 1].p \in Copy /\ stream[cursor + 1].ts \in Clock
    <2>1. stream[cursor + 1] \in Message
      <3>1. stream \in Seq(Message) /\ cursor \in 0..Len(stream) /\ Len(stream) \in Nat
        BY <1>a, LenProperties DEF StreamType
      <3>2. cursor + 1 \in 1..Len(stream)
        BY <1>4, <3>1
      <3>. QED BY <3>1, <3>2, ElementOfSeq
    <2>. QED BY <2>1 DEF Message
  <1>5. CASE l1' = l1 \/ Drop
    BY <1>5, <1>a DEF Drop
  <1>6. CASE FallDue
    <2>1. l1 \in [p : Copy, v : Clock, due : BOOLEAN, torn : BOOLEAN]
      BY <1>6, <1>a DEF FallDue, Serves, NoEntry
    <2>. QED BY <1>6, <2>1 DEF FallDue
  <1>. QED BY <1>1, <1>2, <1>3, <1>4, <1>5, <1>6, EntrySteps

\* A message is appended, and the oldest one dropped when the stream is full.
Sent(p, ts) == [p |-> IF mode = "payload" THEN p ELSE Stray, ts |-> ts]

LEMMA PublishKeeps ==
    ASSUME StreamType, NEW p \in Copy, NEW ts \in Clock, Publish(p, ts)
    PROVE  /\ StreamType'
           /\ \A i \in 1..Len(stream') : \/ stream'[i] = Sent(p, ts)
                                         \/ \E j \in 1..Len(stream) : stream'[i] = stream[j]
  <1>. DEFINE m == Sent(p, ts)
              d == IF Len(stream) = Retention THEN 1 ELSE 0
              kept == SubSeq(stream, 1 + d, Len(stream))
  <1>a. m \in Message
    BY DEF Message, Sent, Copy
  <1>b. /\ stream \in Seq(Message) /\ Len(stream) \in Nat /\ Len(stream) \leq Retention
        /\ cursor \in 0..Len(stream) /\ Retention \in Nat /\ Retention # 0
    BY TierAssumption, LenProperties DEF StreamType
  <1>c. d \in {0, 1} /\ d \leq Len(stream) /\ Len(stream) - d < Retention
    BY <1>b
  <1>d. /\ kept \in Seq(Message) /\ Len(kept) = Len(stream) - d
        /\ \A i \in 1..(Len(stream) - d) : kept[i] = stream[i + d]
    <2>. HIDE DEF d
    <2>0. 1 + d \in Int /\ Len(stream) \in Int
      BY <1>b, <1>c
    <2>1. \A i \in (1 + d)..Len(stream) : stream[i] \in Message
      BY <1>b, <1>c, ElementOfSeq
    <2>2. /\ kept \in Seq(Message)
          /\ Len(kept) = IF 1 + d <= Len(stream) THEN Len(stream) - (1 + d) + 1 ELSE 0
          /\ \A i \in 1..(Len(stream) - (1 + d) + 1) : kept[i] = stream[1 + d + i - 1]
      BY <2>0, <2>1, SubSeqProperties
    <2>. HIDE DEF kept
    <2>. QED BY <1>b, <1>c, <2>2
  <1>1. CASE UNCHANGED broadcast
    BY <1>1 DEF broadcast, StreamType
  <1>2. CASE stream' = Append(kept, m) /\ cursor' = IF cursor = 0 THEN 0 ELSE cursor - d
    <2>. HIDE DEF m, d, kept
    <2>1. /\ stream' \in Seq(Message) /\ Len(stream') = Len(stream) - d + 1
          /\ \A i \in 1..(Len(stream) - d) : stream'[i] = kept[i]
          /\ stream'[Len(stream) - d + 1] = m
      <3>1. kept \in Seq(Message) /\ Len(kept) = Len(stream) - d
        BY <1>d
      <3>2. /\ Append(kept, m) \in Seq(Message) /\ Len(Append(kept, m)) = Len(kept) + 1
            /\ \A i \in 1..Len(kept) : Append(kept, m)[i] = kept[i]
            /\ Append(kept, m)[Len(kept) + 1] = m
        BY <1>a, <3>1, AppendProperties
      <3>3. stream' = Append(kept, m)
        BY <1>2
      <3>. QED BY <3>1, <3>2, <3>3
    <2>2. cursor' \in 0..Len(stream')
      BY <1>b, <1>c, <1>2, <2>1
    <2>3. ASSUME NEW i \in 1..Len(stream')
          PROVE  stream'[i] = m \/ \E j \in 1..Len(stream) : stream'[i] = stream[j]
      <3>1. CASE i = Len(stream) - d + 1
        BY <2>1, <3>1
      <3>2. CASE i \in 1..(Len(stream) - d)
        <4>1. stream'[i] = stream[i + d] /\ i + d \in 1..Len(stream)
          BY <1>b, <1>c, <1>d, <2>1, <3>2
        <4>. QED BY <4>1
      <3>. QED BY <1>b, <1>c, <2>1, <3>1, <3>2
    <2>. QED BY <1>b, <1>c, <2>1, <2>2, <2>3 DEF StreamType, m
  <1>. QED BY <1>1, <1>2 DEF Publish, Sent

LEMMA StepStreamType ==
    ASSUME TypeInv, [Next]_vars
    PROVE  StreamType'
  <1>a. StreamType /\ CallsType /\ FetchesType
    BY TypeParts
  <1>1. CASE UNCHANGED broadcast
    BY <1>1, <1>a DEF StreamType, broadcast
  <1>2. ASSUME NEW c \in Writer, call[c].at = "publish", Publish(call[c].n, call[c].ts)
        PROVE  StreamType'
    <2>1. call[c].n \in Copy /\ call[c].ts \in Clock
      BY <1>2, <1>a DEF CallsType, CallType, Idle, Copy
    <2>. QED BY <1>2, <1>a, <2>1, PublishKeeps
  <1>5. ASSUME NEW c \in Writer, call[c].at = "script",
               NEW ts \in call[c].l1Version..now, Publish(Stray, ts)
        PROVE  StreamType'
    <2>1. call[c].l1Version \in Clock /\ now \in Clock
      BY <1>5, TypeParts DEF CallsType, CallType, Idle, NumbersType
    <2>2. Stray \in Copy /\ ts \in Clock
      BY <2>1, TierAssumption DEF Copy, Clock
    <2>. QED BY <1>5, <1>a, <2>2, PublishKeeps
  <1>3. ASSUME NEW c \in Reader, fetch[c].at = "seed", Publish(fetch[c].p, fetch[c].v)
        PROVE  StreamType'
    <2>1. fetch[c].p \in Copy /\ fetch[c].v \in Clock
      BY <1>3, <1>a DEF FetchesType, FetchType, Idle
    <2>. QED BY <1>3, <1>a, <2>1, PublishKeeps
  <1>4. CASE stream' = stream /\ cursor' \in {0, cursor + 1} /\ (cursor' = 0 \/ Deliver)
    <2>1. Len(stream) \in Nat /\ cursor \in 0..Len(stream)
      BY <1>a, LenProperties DEF StreamType
    <2>2. cursor' \in 0..Len(stream)
      <3>1. Deliver => cursor + 1 \leq Len(stream)
        BY DEF Deliver
      <3>. QED BY <1>4, <2>1, <3>1
    <2>. QED BY <1>4, <1>a, <2>2 DEF StreamType
  <1>. QED BY <1>1, <1>2, <1>3, <1>4, <1>5, StreamSteps

LEMMA StepCallsType ==
    ASSUME TypeInv, [Next]_vars
    PROVE  CallsType'
  <1>a. NumbersType /\ CallsType
    BY TypeParts
  <1>b. written \in Nat /\ IsFiniteSet(Scripting) /\ Cardinality(Scripting) \in Nat
    BY <1>a, WrittenType, ScriptingFinite
  <1>c. call \in [Writer -> CallType] /\ Idle \in CallType /\ now \in Clock
    BY <1>a DEF CallsType, CallType, NumbersType
  <1>1. ASSUME journaledAt' = journaledAt, call' \in [Writer -> CallType],
               Scripting' \subseteq Scripting
        PROVE  CallsType'
    <2>1. Cardinality(Scripting') \leq Cardinality(Scripting) /\ Cardinality(Scripting') \in Nat
      BY <1>1, <1>b, FS_Subset, FS_CardinalityType
    <2>2. written' = written
      BY <1>1 DEF written
    <2>. QED BY <1>1, <1>a, <1>b, <2>1, <2>2, TierAssumption DEF CallsType
  <1>2. ASSUME NEW c \in Writer, StartWrite(c) PROVE CallsType'
    <2>1. call' = [call EXCEPT ![c] = [at |-> "script", l1Version |-> now]]
          /\ journaledAt' = journaledAt /\ c \notin Scripting
      BY <1>2 DEF StartWrite, Scripting, Idle
    <2>2. Scripting' = Scripting \cup {c}
      BY <1>c, <2>1 DEF Scripting
    <2>3. Cardinality(Scripting') = Cardinality(Scripting) + 1
      BY <1>b, <2>1, <2>2, FS_AddElement
    <2>4. written + Cardinality(Scripting) < MaxWrites
      BY <1>2 DEF StartWrite, Scripting
    <2>5. call' \in [Writer -> CallType]
      BY <1>c, <2>1 DEF CallType
    <2>6. written' + Cardinality(Scripting') \leq MaxWrites
      BY <1>b, <2>1, <2>3, <2>4, TierAssumption DEF written
    <2>. QED BY <1>a, <2>1, <2>5, <2>6 DEF CallsType
  <1>3. ASSUME NEW c \in Writer, RunScript(c) PROVE CallsType'
    <2>1. PICK ts \in call[c].l1Version..now :
            call' = [call EXCEPT ![c] =
              [at |-> "publish", n |-> written + 1, ts |-> ts,
               l1Version |-> IF c \in Local THEN call[c].l1Version ELSE ts]]
      BY <1>3 DEF RunScript
    <2>2. call[c].at = "script" /\ journaledAt' = Append(journaledAt, now)
      BY <1>3 DEF RunScript
    <2>3. journaledAt' \in Seq(Clock) /\ written' = written + 1
      BY <1>a, <1>c, <2>2 DEF CallsType, written
    <2>4. written + 1 \in Payload /\ call[c].l1Version \in Clock /\ ts \in Clock
      <3>1. written + 1 \leq MaxWrites
        BY <1>a, <2>2, WrittenType
      <3>2. call[c].l1Version \in Clock
        BY <1>c, <2>2 DEF CallType, Idle
      <3>. QED BY <1>b, <1>c, <3>1, <3>2, TierAssumption DEF Payload, Clock
    <2>5. call' \in [Writer -> CallType]
      BY <1>c, <2>1, <2>4 DEF CallType
    <2>6. Scripting' = Scripting \ {c} /\ c \in Scripting
      BY <1>c, <2>1, <2>2 DEF Scripting
    <2>7. Cardinality(Scripting') = Cardinality(Scripting) - 1
      BY <2>6, ScriptingFinite
    <2>8. written' + Cardinality(Scripting') \leq MaxWrites
      BY <1>a, <1>b, <2>3, <2>7, TierAssumption DEF CallsType
    <2>. QED BY <2>3, <2>5, <2>8 DEF CallsType
  <1>4. ASSUME NEW c \in Writer, PublishWrite(c) PROVE CallsType'
    <2>1. call[c] \in [at : {"publish"}, n : Payload, l1Version : Clock, ts : Clock]
      BY <1>4, <1>c DEF PublishWrite, CallType, Idle
    <2>2. \E x \in {Idle} \cup [at : {"journaled"}, n : Payload, l1Version : Clock] :
            call' = [call EXCEPT ![c] = x]
      BY <1>4, <2>1 DEF PublishWrite
    <2>3. call' \in [Writer -> CallType] /\ Scripting' \subseteq Scripting
      BY <1>c, <2>2 DEF CallType, Scripting, Idle
    <2>. QED BY <1>1, <1>4, <2>3 DEF PublishWrite
  <1>5. ASSUME NEW c \in Writer, call' = [call EXCEPT ![c] = Idle], journaledAt' = journaledAt
        PROVE  CallsType'
    BY <1>1, <1>5, <1>c DEF Scripting, Idle
  <1>6. ASSUME call' = [c \in Writer |-> IF c \in Local THEN Idle ELSE call[c]],
               journaledAt' = journaledAt
        PROVE  CallsType'
    BY <1>1, <1>6, <1>c DEF Scripting, Idle
  <1>7. ASSUME call' = call, journaledAt' = journaledAt PROVE CallsType'
    BY <1>1, <1>7, <1>c DEF Scripting
  <1>8. journaledAt' = journaledAt \/ \E c \in Writer : RunScript(c)
    BY StoreSteps DEF ghost, Hydrate, Persist, Settle, Expire, Tick, DegradedWrite, LateFlight, DeadLetter
  <1>. QED BY <1>2, <1>3, <1>4, <1>5, <1>6, <1>7, <1>8, CallSteps

\* A reader moves on with what it has got, typed; a reader that is done is no
\* longer overtaken.
Holding == {"hts", "hydrate", "seed", "put"}

Typed(x) == x \in FetchType /\ (x.at \in Holding => x.p \in Copy)

LEMMA ReadTyped ==
    ASSUME TypeInv, NEW c \in Reader, Read(c)
    PROVE  /\ \E x : fetch' = [fetch EXCEPT ![c] = x] /\ Typed(x)
           /\ \/ overtaken' \subseteq overtaken /\ (c \in overtaken' => fetch'[c] # Idle)
              \/ overtaken' = {d \in Reader : fetch'[d] # Idle}
  <1>. DEFINE Goal == /\ \E x : fetch' = [fetch EXCEPT ![c] = x] /\ Typed(x)
                      /\ \/ overtaken' \subseteq overtaken /\ (c \in overtaken' => fetch'[c] # Idle)
                         \/ overtaken' = {d \in Reader : fetch'[d] # Idle}
              Active == [at : {"hget", "hts", "source", "hydrate", "seed", "put"},
                         kind : {"read", "fresh", "hot"}, floor : Nat,
                         p : Copy \cup {Missing}, v : Clock, torn : BOOLEAN]
  <1>a. NumbersType /\ FetchesType /\ CallsType
    BY TypeParts
  <1>b. written \in Nat /\ now \in Clock /\ version \in Clock
        /\ payload \in Copy \cup {Missing} /\ sink \in Copy \cup {Missing}
    BY <1>a, WrittenType DEF NumbersType
  <1>c. Typed(Idle) /\ fetch \in [Reader -> FetchType]
    BY <1>a DEF Typed, FetchType, Idle, Holding, FetchesType
  <1>d. \A x \in Active : x \in FetchType /\ x # Idle
    BY DEF FetchType, Idle
  <1>e. fetch[c].at # "idle" => fetch[c] \in Active
    BY <1>c DEF FetchType, Idle
  <1>1. ASSUME NEW x \in Active, fetch' = [fetch EXCEPT ![c] = x],
               x.at \in Holding => x.p \in Copy, overtaken' \subseteq overtaken
        PROVE  Goal
    BY <1>1, <1>c, <1>d DEF Typed
  <1>2. ASSUME EndFetch(c) PROVE Goal
    BY <1>2, <1>c DEF EndFetch
  <1>3. ASSUME NEW kind \in {"read", "fresh", "hot"}, NEW at \in {"hget", "source"},
               Begin(c, kind, at), overtaken' = overtaken
        PROVE  Goal
    <2>1. PICK x \in Active : fetch' = [fetch EXCEPT ![c] = x] /\ x.at = at
      <3>. DEFINE y == [at |-> at, kind |-> kind,
                        floor |-> IF kind = "fresh" THEN written ELSE 0,
                        p |-> Missing, v |-> IF at = "source" THEN now ELSE 0, torn |-> FALSE]
      <3>1. y \in Active
        BY <1>b, TierAssumption DEF Clock
      <3>2. fetch' = [fetch EXCEPT ![c] = y] /\ y.at = at
        BY <1>3 DEF Begin
      <3>. QED BY <3>1, <3>2
    <2>. QED BY <1>1, <1>3, <2>1 DEF Holding
  <1>4. CASE MissL1(c) \/ ReadFresh(c) \/ HotLoad(c) \/ ReadBulk(c)
    BY <1>3, <1>4 DEF MissL1, ReadFresh, HotLoad, ReadBulk
  <1>5. CASE HGetPayload(c)
    <2>1. fetch[c] \in Active
      BY <1>5, <1>e DEF HGetPayload
    <2>2. CASE payload # Missing
      <3>1. [fetch[c] EXCEPT !.at = "hts", !.p = payload] \in Active
        BY <1>b, <2>1
      <3>2. fetch' = [fetch EXCEPT ![c] = [fetch[c] EXCEPT !.at = "hts", !.p = payload]]
        BY <1>5, <2>2, <1>c DEF HGetPayload
      <3>3. [fetch[c] EXCEPT !.at = "hts", !.p = payload].p = payload
        BY <2>1
      <3>. QED BY <1>1, <1>5, <1>b, <2>2, <3>1, <3>2, <3>3 DEF HGetPayload
    <2>3. CASE payload = Missing
      <3>1. [fetch[c] EXCEPT !.at = "source", !.v = now] \in Active
        BY <1>b, <2>1
      <3>2. fetch' = [fetch EXCEPT ![c] = [fetch[c] EXCEPT !.at = "source", !.v = now]]
        BY <1>5, <2>3, <1>c DEF HGetPayload
      <3>3. [fetch[c] EXCEPT !.at = "source", !.v = now].at = "source"
        BY <2>1
      <3>. QED BY <1>1, <1>5, <3>1, <3>2, <3>3 DEF HGetPayload, Holding
    <2>. QED BY <2>2, <2>3
  <1>6. CASE HGetTs(c)
    <2>1. fetch[c] \in Active /\ fetch[c].p \in Copy
      BY <1>6, <1>a, <1>e DEF HGetTs, FetchesType
    <2>2. [fetch[c] EXCEPT !.at = "put", !.v = version, !.torn = payload # fetch[c].p] \in Active
      BY <1>b, <2>1
    <2>3. [fetch[c] EXCEPT !.at = "put", !.v = version, !.torn = payload # fetch[c].p].p
            = fetch[c].p
      BY <2>1
    <2>. QED BY <1>1, <1>2, <1>6, <1>c, <2>1, <2>2, <2>3 DEF HGetTs
  <1>7. CASE SourceRead(c)
    <2>1. fetch[c] \in Active
      BY <1>7, <1>e DEF SourceRead
    <2>2. [fetch[c] EXCEPT !.at = "hydrate", !.p = sink] \in Active
          /\ [fetch[c] EXCEPT !.at = "hydrate", !.p = sink].p = sink
      BY <1>b, <2>1
    <2>. QED BY <1>1, <1>2, <1>7, <1>b, <1>c, <2>2 DEF SourceRead
  <1>8. CASE Hydrate(c)
    <2>1. fetch[c] \in Active /\ fetch[c].p \in Copy /\ fetch[c].v \in Clock
      BY <1>8, <1>a, <1>e DEF Hydrate, FetchesType
    <2>2. ASSUME NEW p \in Copy, NEW v \in Clock, NEW filled
          PROVE  Typed(AfterHydrate(c, p, v, filled))
      <3>. DEFINE y == [fetch[c] EXCEPT !.p = p, !.v = v, !.kind = "read",
                          !.at = IF fetch[c].kind = "hot" /\ filled /\ mode # "lazy"
                                 THEN "seed" ELSE "put"]
      <3>1. y \in Active /\ y.p = p
        BY <2>1
      <3>. HIDE DEF y
      <3>2. Typed(y)
        BY <1>d, <3>1 DEF Typed
      <3>. QED BY <1>c, <3>2 DEF AfterHydrate, y
    <2>3. CASE FillJournal(c)
      BY <2>1, <2>2, <2>3 DEF FillJournal
    <2>4. CASE /\ payload # Missing
               /\ fetch' = [fetch EXCEPT ![c] = AfterHydrate(c, payload, version, FALSE)]
               /\ overtaken' = IF fetch'[c] = Idle THEN overtaken \ {c} ELSE overtaken
      BY <1>b, <2>2, <2>4
    <2>. QED BY <1>8, <2>3, <2>4 DEF Hydrate
  <1>9. CASE Seed(c)
    <2>1. fetch[c] \in Active /\ fetch[c].p \in Copy
      BY <1>9, <1>a, <1>e DEF Seed, FetchesType
    <2>2. [fetch[c] EXCEPT !.at = "put"] \in Active /\ [fetch[c] EXCEPT !.at = "put"].p = fetch[c].p
      BY <2>1
    <2>. QED BY <1>1, <1>9, <1>c, <2>1, <2>2 DEF Seed
  <1>10. CASE PutL1(c) \/ FetchFails(c)
    BY <1>2, <1>10 DEF PutL1, FetchFails
  <1>. QED BY <1>4, <1>5, <1>6, <1>7, <1>8, <1>9, <1>10 DEF Read

LEMMA StepFetchesType ==
    ASSUME TypeInv, [Next]_vars
    PROVE  FetchesType'
  <1>a. FetchesType
    BY TypeParts
  <1>1. CASE UNCHANGED <<fetch, overtaken>>
    BY <1>1, <1>a DEF FetchesType
  <1>2. ASSUME NEW c \in Reader, Read(c) PROVE FetchesType'
    <2>1. PICK x : fetch' = [fetch EXCEPT ![c] = x] /\ Typed(x)
      BY <1>2, ReadTyped
    <2>2. fetch' \in [Reader -> FetchType]
      BY <1>a, <2>1 DEF FetchesType, Typed
    <2>3. \A d \in Reader : fetch'[d].at \in Holding => fetch'[d].p \in Copy
      BY <1>a, <2>1 DEF FetchesType, Typed, Holding
    <2>4. overtaken' \subseteq {d \in Reader : fetch'[d] # Idle}
      <3>1. \A d \in Reader : d # c => fetch'[d] = fetch[d]
        BY <1>a, <2>1 DEF FetchesType
      <3>. QED BY <1>a, <1>2, <3>1, ReadTyped DEF FetchesType
    <2>. QED BY <2>2, <2>3, <2>4 DEF FetchesType, Holding
  <1>3. CASE Settle \/ DeadLetter
    BY <1>3, <1>a DEF Settle, DeadLetter, Clean, FetchesType, pods
  <1>4. CASE Restart
    <2>1. Idle \in FetchType /\ Idle.at \notin Holding
      BY DEF FetchType, Idle, Holding
    <2>2. fetch' = [d \in Reader |-> IF d \in Local THEN Idle ELSE fetch[d]]
          /\ overtaken' = overtaken \ Local
      BY <1>4 DEF Restart
    <2>. QED BY <1>a, <2>1, <2>2 DEF FetchesType, Holding
  <1>. QED BY <1>1, <1>2, <1>3, <1>4, FetchSteps

LEMMA StepTypeInv == TypeInv /\ [Next]_vars => TypeInv'
  <1>. SUFFICES ASSUME TypeInv, [Next]_vars PROVE TypeInv'
    OBVIOUS
  <1>1. NumbersType' /\ FlagsType' /\ StreamType' /\ EntryType' /\ CallsType' /\ FetchesType'
    BY StepNumbersType, StepFlagsType, StepStreamType, StepEntryType, StepCallsType,
       StepFetchesType
  <1>. QED BY <1>1, TypeParts, PTL

\* ReadCaches: whatever the pods do at once, every copy is a copy of some write,
\* a dirty key has a hash without a TTL, and the subscriber's cursor stays within
\* the trimmed stream.
THEOREM CachesTypeCorrect == Spec => []CacheTypeOK
  <1>1. TypeInv => CacheTypeOK
    BY DEF TypeInv
  <1>. QED BY <1>1, InitTypeInv, StepTypeInv, PTL DEF Spec

-----------------------------------------------------------------------------
(* The moves of one reader, field by field.                                *)

BeginsAt(c) ==
    /\ \/ fetch'[c].at = "hget"
       \/ fetch'[c].at = "source" /\ fetch'[c].kind # "fresh" /\ fetch'[c].v = now
    /\ fetch'[c].floor \in {0, written}

GoesOn(c) == fetch'[c].kind = fetch[c].kind /\ fetch'[c].floor = fetch[c].floor

FindsPayload(c) ==
    /\ fetch[c].at = "hget" /\ fetch'[c].at = "hts" /\ GoesOn(c)
    /\ payload # Missing /\ fetch'[c].p = payload

FindsNothing(c) ==
    /\ fetch[c].at = "hget" /\ fetch'[c].at = "source" /\ GoesOn(c)
    /\ payload = Missing /\ fetch'[c].v = now

FindsVersion(c) ==
    /\ fetch[c].at = "hts" /\ fetch'[c].at = "put" /\ fetch'[c].kind = "read" /\ GoesOn(c)
    /\ fetch'[c].p = fetch[c].p /\ fetch'[c].v = version
    /\ ~fetch'[c].torn => payload = fetch[c].p

FindsDocument(c) ==
    /\ fetch[c].at = "source" /\ fetch'[c].at = "hydrate" /\ GoesOn(c)
    /\ fetch'[c].p = sink /\ fetch'[c].v = fetch[c].v

Fills(c) ==
    /\ fetch[c].at = "hydrate" /\ fetch'[c].at \in {"seed", "put"} /\ fetch'[c].kind = "read"
    /\ fetch'[c].floor = fetch[c].floor /\ payload = Missing
    /\ fetch'[c].p = fetch[c].p /\ fetch'[c].v = fetch[c].v

IsOverruled(c) ==
    /\ fetch[c].at = "hydrate" /\ fetch'[c].at = "put" /\ fetch'[c].kind = "read"
    /\ fetch'[c].floor = fetch[c].floor /\ payload # Missing
    /\ fetch'[c].p = payload /\ fetch'[c].v = version

HasSeeded(c) ==
    /\ fetch[c].at = "seed" /\ fetch'[c].at = "put" /\ GoesOn(c)
    /\ fetch'[c].p = fetch[c].p /\ fetch'[c].v = fetch[c].v

LEMMA ReadMoves ==
    ASSUME TypeInv, NEW c \in Reader, Read(c)
    PROVE  \/ fetch'[c] = Idle
           \/ UNCHANGED ghost /\ (BeginsAt(c) \/ FindsPayload(c) \/ FindsNothing(c)
                                  \/ FindsVersion(c) \/ FindsDocument(c) \/ HasSeeded(c))
           \/ Hydrate(c) /\ (IsOverruled(c) \/ (Fills(c) /\ FillJournal(c)))
  <1>. DEFINE Active == [at : {"hget", "hts", "source", "hydrate", "seed", "put"},
                         kind : {"read", "fresh", "hot"}, floor : Nat,
                         p : Copy \cup {Missing}, v : Clock, torn : BOOLEAN]
  <1>a. FetchesType
    BY TypeParts
  <1>b. fetch[c].at # "idle" => fetch[c] \in Active
    BY <1>a DEF FetchesType, FetchType, Idle
  <1>c. \A x : fetch' = [fetch EXCEPT ![c] = x] => fetch'[c] = x
    BY <1>a DEF FetchesType
  <1>d. ~Hydrate(c) => UNCHANGED ghost
    BY DEF Read, MissL1, ReadFresh, HotLoad, ReadBulk, HGetPayload, HGetTs, SourceRead, Seed,
           PutL1, FetchFails, ghost, redis, journal
  <1>e. EndFetch(c) => fetch'[c] = Idle
    BY <1>c DEF EndFetch
  <1>1. ASSUME NEW kind \in {"read", "fresh", "hot"}, NEW at \in {"hget", "source"},
               Begin(c, kind, at), at = "source" => kind # "fresh"
        PROVE  BeginsAt(c)
    <2>1. fetch'[c] = [at |-> at, kind |-> kind, floor |-> IF kind = "fresh" THEN written ELSE 0,
                       p |-> Missing, v |-> IF at = "source" THEN now ELSE 0, torn |-> FALSE]
      BY <1>1, <1>c DEF Begin
    <2>. QED BY <1>1, <2>1 DEF BeginsAt
  <1>2. CASE MissL1(c) \/ ReadFresh(c) \/ HotLoad(c) \/ ReadBulk(c)
    <2>1. BeginsAt(c)
      BY <1>1, <1>2 DEF MissL1, ReadFresh, HotLoad, ReadBulk
    <2>2. ~Hydrate(c)
      <3>1. fetch[c] = Idle
        BY <1>2 DEF MissL1, ReadFresh, HotLoad, ReadBulk, Begin
      <3>. QED BY <3>1 DEF Hydrate, Idle
    <2>. QED BY <1>d, <2>1, <2>2
  <1>3. CASE HGetPayload(c)
    <2>1. fetch[c] \in Active /\ fetch[c].at = "hget"
      BY <1>3, <1>b DEF HGetPayload
    <2>2. fetch'[c] = IF payload # Missing THEN [fetch[c] EXCEPT !.at = "hts", !.p = payload]
                      ELSE [fetch[c] EXCEPT !.at = "source", !.v = now]
      BY <1>3, <1>c DEF HGetPayload
    <2>3. FindsPayload(c) \/ FindsNothing(c)
      BY <2>1, <2>2 DEF FindsPayload, FindsNothing, GoesOn
    <2>. QED BY <1>d, <2>1, <2>3 DEF Hydrate
  <1>4. CASE HGetTs(c)
    <2>1. fetch[c] \in Active /\ fetch[c].at = "hts"
      BY <1>4, <1>b DEF HGetTs
    <2>2. ASSUME fetch[c].kind = "read",
                 fetch'[c] = [fetch[c] EXCEPT !.at = "put", !.v = version,
                                              !.torn = payload # fetch[c].p]
          PROVE  FindsVersion(c)
      BY <2>1, <2>2 DEF FindsVersion, GoesOn
    <2>3. FindsVersion(c) \/ fetch'[c] = Idle
      BY <1>4, <1>c, <1>e, <2>2 DEF HGetTs
    <2>. QED BY <1>d, <2>1, <2>3 DEF Hydrate
  <1>5. CASE SourceRead(c)
    <2>1. fetch[c] \in Active /\ fetch[c].at = "source"
      BY <1>5, <1>b DEF SourceRead
    <2>2. ASSUME fetch'[c] = [fetch[c] EXCEPT !.at = "hydrate", !.p = sink]
          PROVE  FindsDocument(c)
      BY <2>1, <2>2 DEF FindsDocument, GoesOn
    <2>3. FindsDocument(c) \/ fetch'[c] = Idle
      BY <1>5, <1>c, <1>e, <2>2 DEF SourceRead
    <2>. QED BY <1>d, <2>1, <2>3 DEF Hydrate
  <1>6. CASE Hydrate(c)
    <2>1. fetch[c] \in Active /\ fetch[c].at = "hydrate"
      BY <1>6, <1>b DEF Hydrate
    <2>2. ASSUME NEW p, NEW v, NEW at,
                 fetch'[c] = [fetch[c] EXCEPT !.p = p, !.v = v, !.kind = "read", !.at = at]
          PROVE  /\ fetch'[c].p = p /\ fetch'[c].v = v /\ fetch'[c].kind = "read"
                 /\ fetch'[c].floor = fetch[c].floor /\ fetch'[c].at = at
      BY <2>1, <2>2
    <2>3. CASE payload = Missing /\ FillJournal(c)
      <3>1. fetch'[c] = AfterHydrate(c, fetch[c].p, fetch[c].v, TRUE)
        BY <1>c, <2>3 DEF FillJournal
      <3>2. CASE fetch[c].kind = "fresh"
        BY <3>1, <3>2 DEF AfterHydrate
      <3>3. CASE fetch[c].kind # "fresh"
        <4>1. PICK at \in {"seed", "put"} :
                fetch'[c] = [fetch[c] EXCEPT !.p = fetch[c].p, !.v = fetch[c].v,
                                             !.kind = "read", !.at = at]
          BY <3>1, <3>3 DEF AfterHydrate
        <4>2. Fills(c)
          BY <2>1, <2>2, <2>3, <4>1 DEF Fills
        <4>. QED BY <1>6, <2>3, <4>2
      <3>. QED BY <3>2, <3>3
    <2>4. CASE payload # Missing
      <3>1. fetch'[c] = AfterHydrate(c, payload, version, FALSE)
        BY <1>6, <1>c, <2>4 DEF Hydrate
      <3>2. CASE fetch[c].kind = "fresh"
        BY <3>1, <3>2 DEF AfterHydrate
      <3>3. CASE fetch[c].kind # "fresh"
        <4>1. fetch'[c] = [fetch[c] EXCEPT !.p = payload, !.v = version,
                                           !.kind = "read", !.at = "put"]
          BY <3>1, <3>3 DEF AfterHydrate
        <4>2. IsOverruled(c)
          BY <2>1, <2>2, <2>4, <4>1 DEF IsOverruled
        <4>. QED BY <1>6, <4>2
      <3>. QED BY <3>2, <3>3
    <2>. QED BY <1>6, <2>3, <2>4 DEF Hydrate
  <1>7. CASE Seed(c)
    <2>1. fetch[c] \in Active /\ fetch[c].at = "seed"
      BY <1>7, <1>b DEF Seed
    <2>2. fetch'[c] = [fetch[c] EXCEPT !.at = "put"]
      BY <1>7, <1>c DEF Seed
    <2>3. HasSeeded(c)
      BY <2>1, <2>2 DEF HasSeeded, GoesOn
    <2>. QED BY <1>d, <2>1, <2>3 DEF Hydrate
  <1>8. CASE PutL1(c) \/ FetchFails(c)
    BY <1>8, <1>e DEF PutL1, FetchFails
  <1>. QED BY <1>2, <1>3, <1>4, <1>5, <1>6, <1>7, <1>8 DEF Read

\* The other readers stay as they are, or are stopped with their pod.
LEMMA ReaderSteps ==
    ASSUME TypeInv, [Next]_vars, NEW d \in Reader
    PROVE  Read(d) \/ fetch'[d] = Idle \/ fetch'[d] = fetch[d]
  <1>a. FetchesType
    BY TypeParts
  <1>1. ASSUME NEW c \in Reader, Read(c) PROVE c = d \/ fetch'[d] = fetch[d]
    <2>1. PICK x : fetch' = [fetch EXCEPT ![c] = x]
      BY <1>1, ReadTyped
    <2>. QED BY <1>a, <2>1 DEF FetchesType
  <1>2. CASE Settle \/ DeadLetter
    BY <1>2 DEF Settle, DeadLetter, pods
  <1>3. CASE Restart
    BY <1>3 DEF Restart
  <1>. QED BY <1>1, <1>2, <1>3, FetchSteps

-----------------------------------------------------------------------------
(* The journal never falls behind the store.                               *)

LEMMA InitTierInv == Init => TierInv
  <1>. SUFFICES ASSUME Init PROVE TierInv
    OBVIOUS
  <1>1. TypeInv
    BY InitTypeInv
  <1>2. JournalIsLatest /\ KeptWhileOvertaken
    BY DEF Init, JournalIsLatest, KeptWhileOvertaken, written, Missing
  <1>3. FetchedIsLatest /\ \A d \in Reader : Current(d)
    BY DEF Init, FetchedIsLatest, Current, Idle
  <1>4. HonestInv
    BY DEF Init, HonestInv, NoEntry, Missing, Idle
  <1>. QED BY <1>1, <1>2, <1>3, <1>4 DEF TierInv

\* The history only grows, and so does a document that has not gone astray; a
\* write makes the key dirty.
LEMMA HistoryGrows ==
    ASSUME TypeInv, [Next]_vars
    PROVE  /\ written \in Nat /\ written' \in Nat /\ written \leq written'
           /\ sink \in Int /\ sink' \in Int /\ (~astray' => sink \leq sink')
           /\ written' # written => dirty'
  <1>1. CallsType /\ CallsType' /\ NumbersType /\ NumbersType'
    BY TypeParts, StepCallsType, StepNumbersType
  <1>2. written \in Nat /\ written' \in Nat
    BY <1>1 DEF CallsType, written
  <1>3. sink \in Int /\ sink' \in Int
    BY <1>1 DEF NumbersType, Copy, Payload, Stray, Missing
  <1>4. written' = written \/ (written' = written + 1 /\ dirty')
    <2>1. ASSUME NEW c \in Writer, RunScript(c) PROVE written' = written + 1 /\ dirty'
      <3>1. journaledAt \in Seq(Clock) /\ now \in Clock /\ journaledAt' = Append(journaledAt, now)
        BY <1>1, <2>1 DEF RunScript, CallsType, NumbersType
      <3>2. written' = written + 1
        BY <3>1 DEF written
      <3>. QED BY <2>1, <3>2 DEF RunScript
    <2>. QED BY <2>1, StoreSteps
             DEF ghost, Hydrate, Persist, Settle, Expire, Tick, DegradedWrite, LateFlight, DeadLetter,
                 written
  <1>5. ASSUME ~astray' PROVE sink' = sink \/ sink < sink'
    BY <1>5, StraightSteps DEF ghost, RunScript, Hydrate, Persist, Settle, Expire, Tick
  <1>. QED BY <1>2, <1>3, <1>4, <1>5

\* A reader in flight stays overtaken until it is done.
LEMMA OvertakenSteps ==
    ASSUME TypeInv, [Next]_vars
    PROVE  /\ \/ overtaken' \subseteq overtaken
              \/ Settle \/ DeadLetter
              \/ \E c \in Reader : Hydrate(c) /\ payload = Missing /\ FillJournal(c)
           /\ \A d \in overtaken : fetch'[d] # Idle => d \in overtaken'
  <1>a. FetchesType
    BY TypeParts
  <1>1. CASE UNCHANGED <<fetch, overtaken>>
    BY <1>1
  <1>2. ASSUME NEW c \in Reader, Read(c), ~Hydrate(c)
        PROVE  /\ overtaken' \subseteq overtaken
               /\ \A d \in overtaken : fetch'[d] # Idle => d \in overtaken'
    <2>1. CASE EndFetch(c)
      BY <1>a, <2>1 DEF EndFetch, FetchesType
    <2>. QED
      BY <1>2, <2>1 DEF Read, MissL1, ReadFresh, HotLoad, ReadBulk, HGetPayload, HGetTs,
                        SourceRead, Seed, PutL1, FetchFails
  <1>3. ASSUME NEW c \in Reader, Hydrate(c), payload = Missing, FillJournal(c)
        PROVE  \A d \in overtaken : fetch'[d] # Idle => d \in overtaken'
    BY <1>a, <1>3 DEF FillJournal, FetchesType
  <1>4. ASSUME NEW c \in Reader, Hydrate(c), payload # Missing
        PROVE  /\ overtaken' \subseteq overtaken
               /\ \A d \in overtaken : fetch'[d] # Idle => d \in overtaken'
    <2>1. overtaken' = IF fetch'[c] = Idle THEN overtaken \ {c} ELSE overtaken
      BY <1>4 DEF Hydrate
    <2>. QED BY <2>1
  <1>5. CASE Settle \/ DeadLetter
    BY <1>5, <1>a DEF Settle, DeadLetter, Clean, FetchesType, pods
  <1>6. CASE Restart
    <2>1. overtaken' = overtaken \ Local
          /\ fetch' = [c \in Reader |-> IF c \in Local THEN Idle ELSE fetch[c]]
      BY <1>6 DEF Restart
    <2>. QED BY <1>a, <2>1 DEF FetchesType
  <1>7. \A c \in Reader : Hydrate(c) => payload # Missing \/ FillJournal(c)
    BY DEF Hydrate
  <1>. QED BY <1>1, <1>2, <1>3, <1>4, <1>5, <1>6, <1>7, FetchSteps

\* What hydration fills in is the latest write: nobody has flushed or written
\* since it was fetched.
LEMMA FillIsLatest ==
    ASSUME TypeInv, KeptWhileOvertaken, FetchedIsLatest,
           NEW c \in Reader, Hydrate(c), payload = Missing
    PROVE  ~dirty /\ fetch[c].p = written
  <1>1. ~dirty
    BY TypeParts, TierAssumption DEF FlagsType, Payload, Missing
  <1>2. c \notin overtaken /\ fetch[c].at = "hydrate"
    BY DEF KeptWhileOvertaken, Hydrate
  <1>. QED BY <1>1, <1>2 DEF FetchedIsLatest

LEMMA StepJournalIsLatest ==
    ASSUME TypeInv, JournalIsLatest, KeptWhileOvertaken, FetchedIsLatest, [Next]_vars, ~astray'
    PROVE  JournalIsLatest'
  <1>. USE DEF JournalIsLatest
  <1>a. FlagsType /\ NumbersType /\ CallsType
    BY TypeParts
  <1>b. written \in Nat /\ written' \in Nat /\ written \leq written' /\ sink \in Int
        /\ payload \in Int
    BY <1>a, HistoryGrows DEF NumbersType, Copy, Payload, Stray, Missing
  <1>1. CASE UNCHANGED ghost
    BY <1>1 DEF ghost, written
  <1>2. ASSUME NEW c \in Writer, RunScript(c) PROVE JournalIsLatest'
    <2>1. journaledAt \in Seq(Clock) /\ now \in Clock /\ journaledAt' = Append(journaledAt, now)
      BY <1>a, <1>2 DEF RunScript, CallsType, NumbersType
    <2>2. written' = written + 1
      BY <2>1 DEF written
    <2>3. payload' = written + 1 /\ dirty' = TRUE /\ sink' = sink
      BY <1>2 DEF RunScript
    <2>. QED BY <1>b, <2>2, <2>3
  <1>3. ASSUME NEW c \in Reader, Hydrate(c) PROVE JournalIsLatest'
    <2>1. written' = written /\ dirty' = dirty /\ sink' = sink
      BY <1>3 DEF Hydrate, written
    <2>2. CASE payload = Missing /\ FillJournal(c)
      BY <1>3, <2>1, <2>2, FillIsLatest DEF FillJournal
    <2>3. CASE payload' = payload
      BY <2>1, <2>3
    <2>. QED BY <1>3, <2>2, <2>3 DEF Hydrate
  <1>4. ASSUME Persist PROVE JournalIsLatest'
    <2>1. dirty /\ dirty' = dirty /\ payload' = payload /\ written' = written
          /\ sink' \in Payload /\ sink < sink' /\ sink' \leq payload
      BY <1>4 DEF Persist, redis, journal, written
    <2>. QED BY <1>b, <2>1, TierAssumption DEF Payload
  <1>5. ASSUME Settle PROVE JournalIsLatest'
    <2>1. dirty /\ sink = payload /\ dirty' = FALSE /\ payload' = payload /\ sink' = sink
          /\ written' = written
      BY <1>5 DEF Settle, Clean, written
    <2>. QED BY <2>1
  <1>6. ASSUME Expire PROVE JournalIsLatest'
    <2>1. ~dirty
      BY <1>6, <1>a DEF Expire, FlagsType
    <2>2. dirty' = dirty /\ payload' = Missing /\ sink' = sink /\ written' = written
      BY <1>6 DEF Expire, written
    <2>. QED BY <2>1, <2>2
  <1>7. ASSUME Tick PROVE JournalIsLatest'
    BY <1>7 DEF Tick, redis, journal, written
  <1>. QED BY <1>1, <1>2, <1>3, <1>4, <1>5, <1>6, <1>7, StraightSteps

LEMMA StepKeptWhileOvertaken ==
    ASSUME ~SlowHydration, TypeInv, KeptWhileOvertaken, [Next]_vars
    PROVE  KeptWhileOvertaken'
  <1>. USE DEF KeptWhileOvertaken
  <1>a. FlagsType /\ NumbersType /\ CallsType /\ FetchesType
    BY TypeParts
  <1>1. CASE overtaken' \subseteq overtaken
    <2>1. ASSUME payload # Missing, payload' = Missing PROVE overtaken' = {}
      <3>1. \A c \in Writer : ~ RunScript(c)
        BY <1>a, <2>1, WrittenType DEF RunScript, Missing
      <3>2. \A c \in Reader : ~ Hydrate(c)
        BY <2>1 DEF Hydrate
      <3>3. Expire
        BY <2>1, <3>1, <3>2, StoreSteps
           DEF ghost, Persist, Settle, Tick, DegradedWrite, LateFlight, DeadLetter, redis, journal
      <3>. QED BY <3>3 DEF Expire
    <2>. QED BY <1>1, <2>1
  <1>2. CASE Settle \/ DeadLetter
    BY <1>2, <1>a, TierAssumption DEF Settle, DeadLetter, FlagsType, Payload, Missing
  <1>3. ASSUME NEW c \in Reader, Hydrate(c), FillJournal(c) PROVE KeptWhileOvertaken'
    BY <1>3, <1>a, TierAssumption
       DEF Hydrate, FillJournal, FetchesType, Copy, Payload, Stray, Missing
  <1>. QED BY <1>1, <1>2, <1>3, OvertakenSteps

LEMMA StepFetchedIsLatest ==
    ASSUME TypeInv, JournalIsLatest, FetchedIsLatest, [Next]_vars, ~astray'
    PROVE  FetchedIsLatest'
  <1>. SUFFICES ASSUME NEW d \in Reader, fetch'[d].at = "hydrate", d \notin overtaken', ~dirty'
                PROVE  fetch'[d].p = written'
    BY DEF FetchedIsLatest
  <1>a. fetch'[d] # Idle
    BY DEF Idle
  <1>b. written' = written
    BY HistoryGrows
  <1>1. CASE fetch'[d] = fetch[d]
    <2>1. d \notin overtaken
      BY <1>a, OvertakenSteps
    <2>2. ~dirty
      <3>1. ASSUME Settle PROVE FALSE
        BY <1>a, <1>1, <3>1 DEF Settle, Clean
      <3>2. dirty' = dirty \/ dirty' = TRUE
        BY <3>1, StraightSteps
           DEF ghost, RunScript, Hydrate, Persist, Expire, Tick, redis, journal
      <3>. QED BY <3>2
    <2>. QED BY <1>1, <1>b, <2>1, <2>2 DEF FetchedIsLatest
  <1>2. CASE Read(d)
    <2>1. FindsDocument(d) /\ UNCHANGED ghost
      BY <1>2, <1>a, ReadMoves
         DEF BeginsAt, FindsPayload, FindsNothing, FindsVersion, HasSeeded, IsOverruled, Fills
    <2>. QED BY <1>b, <2>1 DEF FindsDocument, ghost, JournalIsLatest
  <1>. QED BY <1>1, <1>2, <1>a, ReaderSteps

StoreInv ==
    /\ TypeInv
    /\ KeptWhileOvertaken
    /\ ~astray => JournalIsLatest /\ FetchedIsLatest

LEMMA StepStoreInv ==
    ASSUME ~SlowHydration
    PROVE  StoreInv /\ [Next]_vars => StoreInv'
  <1>. SUFFICES ASSUME StoreInv, [Next]_vars PROVE StoreInv'
    OBVIOUS
  <1>1. TypeInv' /\ KeptWhileOvertaken'
    BY StepTypeInv, StepKeptWhileOvertaken DEF StoreInv
  <1>2. ASSUME ~astray' PROVE JournalIsLatest' /\ FetchedIsLatest'
    BY <1>2, StraightSteps, StepJournalIsLatest, StepFetchedIsLatest DEF StoreInv
  <1>. QED BY <1>1, <1>2 DEF StoreInv

\* sluice.go:437-471 and hydrateLua: hydration never puts a document into the
\* journal that the store has gone past, whatever reads, flushes and expiry do
\* at once: as long as no fetch outlives a TTL set during it, and until something
\* goes to the store out of turn, past the journal, or to the dead-letter queue.
THEOREM JournalKeepsUp ==
    ASSUME ~SlowHydration
    PROVE  Spec => []JournalNotBehindStore
  <1>1. Init => StoreInv
    BY InitTierInv DEF TierInv, StoreInv
  <1>2. StoreInv => JournalNotBehindStore
    <2>1. TypeInv => written \in Nat
      BY TypeParts DEF CallsType, written
    <2>. QED BY <2>1 DEF StoreInv, JournalIsLatest, JournalNotBehindStore, Missing
  <1>. QED BY <1>1, <1>2, StepStoreInv, PTL DEF Spec

-----------------------------------------------------------------------------
(* ReadFresh is current.                                                   *)

LEMMA StepCurrent ==
    ASSUME TypeInv, JournalIsLatest, [Next]_vars, ~astray', NEW d \in Reader, Current(d)
    PROVE  Current(d)'
  <1>. USE DEF Current
  <1>a. /\ written \in Nat /\ written' \in Nat /\ written \leq written'
        /\ sink \in Int /\ sink' \in Int /\ sink \leq sink'
    BY HistoryGrows
  <1>b. /\ payload # Missing => payload = written
        /\ payload = Missing => sink = written
    BY TypeParts, TierAssumption DEF JournalIsLatest, FlagsType, Payload, Missing
  <1>1. CASE fetch'[d] = Idle
    BY <1>1
  <1>2. CASE fetch'[d] = fetch[d]
    <2>1. ASSUME fetch[d] # Idle
          PROVE  /\ fetch[d].floor \in Nat /\ fetch[d].floor \leq written'
                 /\ fetch[d].kind = "fresh" /\ fetch[d].at = "source" => sink' \geq fetch[d].floor
      BY <1>a, <2>1
    <2>. QED BY <1>2, <2>1
  <1>3. ASSUME fetch[d] # Idle, GoesOn(d), UNCHANGED ghost,
               fetch[d].kind = "fresh" =>
                 /\ fetch'[d].at \in {"hts", "hydrate"} => fetch'[d].p \geq fetch[d].floor
                 /\ fetch'[d].at = "source" => sink \geq fetch[d].floor
        PROVE  Current(d)'
    <2>1. sink' = sink /\ written' = written
      BY <1>3 DEF ghost, written
    <2>2. /\ fetch'[d].kind = fetch[d].kind /\ fetch'[d].floor = fetch[d].floor
          /\ fetch[d].floor \in Nat /\ fetch[d].floor \leq written
      BY <1>3 DEF GoesOn
    <2>. QED BY <1>3, <2>1, <2>2
  <1>4. CASE Read(d)
    <2>1. CASE UNCHANGED ghost /\ BeginsAt(d)
      BY <1>a, <2>1 DEF BeginsAt
    <2>2. CASE UNCHANGED ghost /\ FindsPayload(d)
      <3>1. fetch[d] # Idle
        BY <2>2 DEF FindsPayload, Idle
      <3>. QED BY <1>3, <1>a, <1>b, <2>2, <3>1 DEF FindsPayload
    <2>3. CASE UNCHANGED ghost /\ FindsNothing(d)
      <3>1. fetch[d] # Idle
        BY <2>3 DEF FindsNothing, Idle
      <3>. QED BY <1>3, <1>a, <1>b, <2>3, <3>1 DEF FindsNothing
    <2>4. CASE UNCHANGED ghost /\ (FindsVersion(d) \/ HasSeeded(d))
      <3>1. fetch[d] # Idle
        BY <2>4 DEF FindsVersion, HasSeeded, Idle
      <3>. QED BY <1>3, <2>4, <3>1 DEF FindsVersion, HasSeeded
    <2>5. CASE UNCHANGED ghost /\ FindsDocument(d)
      <3>1. fetch[d] # Idle /\ fetch[d].at = "source"
        BY <2>5 DEF FindsDocument, Idle
      <3>. QED BY <1>3, <1>a, <2>5, <3>1 DEF FindsDocument
    <2>6. CASE IsOverruled(d) \/ Fills(d)
      <3>1. fetch[d] # Idle
        BY <2>6 DEF IsOverruled, Fills, Idle
      <3>. QED BY <1>a, <2>6, <3>1 DEF IsOverruled, Fills
    <2>. QED BY <1>1, <1>4, <2>1, <2>2, <2>3, <2>4, <2>5, <2>6, ReadMoves
  <1>. QED BY <1>1, <1>2, <1>4, ReaderSteps

\* ReadFresh (sluice.go:481-502): it returns the latest of all the writes that
\* were in the journal when it was called, whatever L1, hydration, flushes, expiry
\* and other readers do meanwhile: under the conditions of JournalKeepsUp.
THEOREM FreshReadsAreCurrent ==
    ASSUME ~SlowHydration
    PROVE  Spec => []FreshIsCurrent
  <1>. DEFINE Inv == StoreInv /\ (~astray => \A d \in Reader : Current(d))
  <1>1. Init => Inv
    BY InitTierInv DEF TierInv, StoreInv
  <1>2. Inv /\ [Next]_vars => Inv'
    <2>. SUFFICES ASSUME Inv, [Next]_vars PROVE Inv'
      OBVIOUS
    <2>1. StoreInv'
      BY StepStoreInv
    <2>2. ASSUME ~astray' PROVE (\A d \in Reader : Current(d))'
      BY <2>2, StraightSteps, StepCurrent DEF StoreInv
    <2>. QED BY <2>1, <2>2
  <1>3. Inv => FreshIsCurrent
    BY DEF Current, FreshIsCurrent
  <1>. QED BY <1>1, <1>2, <1>3, PTL DEF Spec

-----------------------------------------------------------------------------
(* A version does not claim more than is so.                               *)

\* What is fair now stays fair: writes reach the journal no earlier than now.
FairNext(p, v) == v \leq now' /\ (p # Stray => \A n \in (p + 1)..written' : journaledAt'[n] \geq v)

LEMMA FairKept ==
    ASSUME TypeInv, [Next]_vars
    PROVE  \A p \in Copy, v \in Clock : Fair(p, v) => FairNext(p, v)
  <1>. SUFFICES ASSUME NEW p \in Copy, NEW v \in Clock, Fair(p, v) PROVE FairNext(p, v)
    OBVIOUS
  <1>a. /\ journaledAt \in Seq(Clock) /\ now \in Clock /\ written \in Nat
        /\ (p # Stray => p \in Nat /\ p \geq 1) /\ v \in Nat /\ v \leq now
    BY TypeParts DEF CallsType, NumbersType, written, Fair, Copy, Payload, Clock
  <1>1. CASE journaledAt' = journaledAt /\ now' \in Nat /\ now \leq now'
    BY <1>1, <1>a DEF Fair, FairNext, Honest, written, Clock
  <1>2. ASSUME NEW c \in Writer, RunScript(c) PROVE FairNext(p, v)
    <2>1. journaledAt' = Append(journaledAt, now) /\ now' = now
      BY <1>2 DEF RunScript
    <2>2. /\ written' = written + 1 /\ journaledAt'[written + 1] = now
          /\ \A n \in 1..written : journaledAt'[n] = journaledAt[n]
      BY <1>a, <2>1, AppendProperties DEF written
    <2>3. ASSUME p # Stray, NEW n \in (p + 1)..written' PROVE journaledAt'[n] \geq v
      <3>1. CASE n = written + 1
        BY <1>a, <2>2, <3>1 DEF Clock
      <3>2. CASE n # written + 1
        <4>1. n \in (p + 1)..written /\ n \in 1..written
          BY <1>a, <2>2, <2>3, <3>2
        <4>. QED BY <2>2, <2>3, <4>1 DEF Fair, Honest
      <3>. QED BY <3>1, <3>2
    <2>. QED BY <1>a, <2>1, <2>3 DEF FairNext
  <1>3. \/ \E c \in Writer : RunScript(c)
        \/ journaledAt' = journaledAt /\ now' \in {now, now + 1}
    BY StoreSteps DEF ghost, Hydrate, Persist, Settle, Expire, Tick, DegradedWrite, LateFlight, DeadLetter,
       redis, journal
  <1>. QED BY <1>a, <1>1, <1>2, <1>3 DEF Clock

\* Time passes.
LEMMA TimePasses ==
    ASSUME TypeInv, [Next]_vars
    PROVE  now \in Nat /\ now' \in Nat /\ now \leq now'
  <1>1. now \in Nat /\ now' \in Nat
    BY TypeParts, StepNumbersType DEF NumbersType, Clock
  <1>2. now' \in {now, now + 1}
    BY StoreSteps DEF ghost, RunScript, Hydrate, Persist, Settle, Expire, Tick, DegradedWrite,
                      LateFlight, DeadLetter
  <1>. QED BY <1>1, <1>2

\* No write is later than the latest.
LEMMA LatestIsFair ==
    ASSUME TypeInv, [Next]_vars
    PROVE  \A p \in Nat, v \in Clock : p = written' /\ v \leq now => FairNext(p, v)
  <1>1. ASSUME NEW p \in Nat, NEW n \in (p + 1)..p PROVE FALSE
    BY <1>1
  <1>2. \A v \in Clock : v \leq now => v \leq now'
    BY TimePasses DEF Clock
  <1>. QED BY <1>1, <1>2 DEF FairNext

LEMMA StepJournalHonest ==
    ASSUME TypeInv, KeptWhileOvertaken, FetchedIsLatest, HonestInv, [Next]_vars, ~astray',
           payload' # Missing
    PROVE  FairNext(payload', version')
  <1>a. NumbersType /\ CallsType /\ FetchesType
    BY TypeParts
  <1>1. CASE payload' = payload /\ version' = version
    <2>1. Fair(payload, version) /\ payload \in Copy /\ version \in Clock
      BY <1>1, <1>a DEF HonestInv, NumbersType
    <2>. QED BY <1>1, <2>1, FairKept
  <1>2. ASSUME NEW c \in Writer, RunScript(c) PROVE FairNext(payload', version')
    <2>1. journaledAt \in Seq(Clock) /\ now \in Clock /\ journaledAt' = Append(journaledAt, now)
      BY <1>a, <1>2 DEF RunScript, CallsType, NumbersType
    <2>2. written' = written + 1
      BY <2>1 DEF written
    <2>3. payload' = written + 1 /\ version' \in call[c].l1Version..now
      BY <1>2 DEF RunScript
    <2>4. version' \in Clock /\ version' \leq now
      BY <1>a, <2>1, <2>3, StepNumbersType DEF NumbersType, Clock
    <2>. QED BY <2>2, <2>3, <2>4, HistoryGrows, LatestIsFair
  <1>3. ASSUME NEW c \in Reader, Hydrate(c), payload = Missing, FillJournal(c)
        PROVE  FairNext(payload', version')
    <2>1. payload' = written' /\ version' = fetch[c].v
      BY <1>3, FillIsLatest DEF Hydrate, FillJournal, written
    <2>2. fetch[c].v \in Clock /\ fetch[c].v \leq now
      BY <1>3, <1>a DEF Hydrate, HonestInv, FetchesType, FetchType, Idle
    <2>. QED BY <2>1, <2>2, HistoryGrows, LatestIsFair
  <1>4. \/ payload' = payload /\ version' = version
        \/ payload' = Missing
        \/ \E c \in Writer : RunScript(c)
        \/ \E c \in Reader : Hydrate(c) /\ payload = Missing /\ FillJournal(c)
    BY StraightSteps DEF ghost, Hydrate, Persist, Settle, Expire, Tick, redis, journal
  <1>. QED BY <1>1, <1>2, <1>3, <1>4

\* A message is fair, and so it stays.
LEMMA MessageKept ==
    ASSUME TypeInv, HonestInv, [Next]_vars
    PROVE  \A i \in 1..Len(stream) :
             /\ stream[i].p \in Copy /\ stream[i].ts \in Clock
             /\ Fair(stream[i].p, stream[i].ts) /\ FairNext(stream[i].p, stream[i].ts)
  <1>. SUFFICES ASSUME NEW i \in 1..Len(stream)
                PROVE  /\ stream[i].p \in Copy /\ stream[i].ts \in Clock
                       /\ Fair(stream[i].p, stream[i].ts) /\ FairNext(stream[i].p, stream[i].ts)
    OBVIOUS
  <1>1. stream[i] \in Message
    <2>1. stream \in Seq(Message)
      BY TypeParts DEF StreamType
    <2>. QED BY <2>1, ElementOfSeq
  <1>2. stream[i].p \in Copy /\ stream[i].ts \in Clock
    BY <1>1 DEF Message
  <1>3. Fair(stream[i].p, stream[i].ts)
    BY DEF HonestInv
  <1>. QED BY <1>2, <1>3, FairKept

\* A writer's payload and versions are fair, and so they stay.
LEMMA CallKept ==
    ASSUME TypeInv, HonestInv, [Next]_vars, NEW c \in Writer
    PROVE  /\ call[c].at \in {"script", "publish", "journaled"} =>
                call[c].l1Version \in Clock /\ call[c].l1Version \leq now
           /\ call[c].at \in {"publish", "journaled"} =>
                call[c].n \in Copy /\ FairNext(call[c].n, call[c].l1Version)
           /\ call[c].at = "publish" =>
                call[c].ts \in Clock /\ FairNext(call[c].n, call[c].ts)
  <1>1. /\ call[c].at \in {"script", "publish", "journaled"} => call[c].l1Version \in Clock
        /\ call[c].at \in {"publish", "journaled"} => call[c].n \in Copy
        /\ call[c].at = "publish" => call[c].ts \in Clock
    BY TypeParts DEF CallsType, CallType, Idle, Copy
  <1>2. /\ call[c].at \in {"script", "publish", "journaled"} => call[c].l1Version \leq now
        /\ call[c].at \in {"publish", "journaled"} => Fair(call[c].n, call[c].l1Version)
        /\ call[c].at = "publish" => Fair(call[c].n, call[c].ts)
    BY DEF HonestInv
  <1>. QED BY <1>1, <1>2, FairKept

\* So are a reader's.
LEMMA FetchKept ==
    ASSUME TypeInv, HonestInv, [Next]_vars, NEW c \in Reader
    PROVE  /\ fetch[c].at \in {"source", "hydrate"} => fetch[c].v \in Clock /\ fetch[c].v \leq now
           /\ fetch[c].at = "seed" \/ (fetch[c].at = "put" /\ ~fetch[c].torn) =>
                fetch[c].p \in Copy /\ fetch[c].v \in Clock /\ FairNext(fetch[c].p, fetch[c].v)
  <1>1. /\ fetch[c].at \in {"source", "hydrate", "seed", "put"} => fetch[c].v \in Clock
        /\ fetch[c].at \in {"seed", "put"} => fetch[c].p \in Copy
    BY TypeParts DEF FetchesType, FetchType, Idle
  <1>2. /\ fetch[c].at \in {"source", "hydrate"} => fetch[c].v \leq now
        /\ fetch[c].at = "seed" => Fair(fetch[c].p, fetch[c].v)
        /\ fetch[c].at = "put" /\ ~fetch[c].torn => Fair(fetch[c].p, fetch[c].v)
    BY DEF HonestInv
  <1>. QED BY <1>1, <1>2, FairKept

LEMMA StepStreamHonest ==
    ASSUME TypeInv, HonestInv, [Next]_vars, NEW i \in 1..Len(stream')
    PROVE  FairNext(stream'[i].p, stream'[i].ts)
  <1>a. StreamType
    BY TypeParts
  <1>1. ASSUME NEW p \in Copy, NEW ts \in Clock, Publish(p, ts), FairNext(p, ts)
        PROVE  FairNext(stream'[i].p, stream'[i].ts)
    <2>1. CASE stream'[i] = Sent(p, ts)
      BY <1>1, <2>1 DEF Sent, FairNext
    <2>2. ASSUME NEW j \in 1..Len(stream), stream'[i] = stream[j]
          PROVE  FairNext(stream'[i].p, stream'[i].ts)
      BY <2>2, MessageKept
    <2>. QED BY <1>1, <1>a, <2>1, <2>2, PublishKeeps
  <1>2. CASE stream' = stream
    BY <1>2, MessageKept
  <1>3. ASSUME NEW c \in Writer, call[c].at = "publish", Publish(call[c].n, call[c].ts)
        PROVE  FairNext(stream'[i].p, stream'[i].ts)
    BY <1>1, <1>3, CallKept
  <1>4. ASSUME NEW c \in Reader, fetch[c].at = "seed", Publish(fetch[c].p, fetch[c].v)
        PROVE  FairNext(stream'[i].p, stream'[i].ts)
    BY <1>1, <1>4, FetchKept
  <1>5. ASSUME NEW c \in Writer, call[c].at = "script",
               NEW ts \in call[c].l1Version..now, Publish(Stray, ts)
        PROVE  FairNext(stream'[i].p, stream'[i].ts)
    <2>1. call[c].l1Version \in Clock /\ now \in Clock
      BY <1>5, TypeParts DEF CallsType, CallType, Idle, NumbersType
    <2>2. Stray \in Copy /\ ts \in Clock /\ ts \leq now
      BY <2>1, TierAssumption DEF Copy, Clock
    <2>3. FairNext(Stray, ts)
      BY <2>2, TimePasses DEF FairNext, Clock
    <2>. QED BY <1>1, <1>5, <2>2, <2>3
  <1>. QED BY <1>2, <1>3, <1>4, <1>5, StreamSteps DEF broadcast

LEMMA StepEntryHonest ==
    ASSUME TypeInv, HonestInv, [Next]_vars, l1'.p # Missing, ~l1'.torn
    PROVE  FairNext(l1'.p, l1'.v)
  <1>a. EntryType
    BY TypeParts
  <1>1. ASSUME l1.p # Missing, ~l1.torn PROVE FairNext(l1.p, l1.v)
    <2>1. l1.p \in Copy /\ l1.v \in Clock
      BY <1>1, <1>a DEF EntryType, NoEntry
    <2>. QED BY <1>1, <2>1, FairKept DEF HonestInv
  <1>2. ASSUME NEW p, NEW v, NEW torn, ~torn => FairNext(p, v), Put(p, v, torn)
        PROVE  FairNext(l1'.p, l1'.v)
    BY <1>1, <1>2 DEF Put
  <1>3. CASE l1' = l1
    BY <1>1, <1>3
  <1>4. CASE Drop
    BY <1>4 DEF Drop, NoEntry
  <1>5. CASE FallDue
    <2>1. l1 \in [p : Copy, v : Clock, due : BOOLEAN, torn : BOOLEAN]
      BY <1>5, <1>a DEF FallDue, Serves, EntryType, NoEntry
    <2>2. l1' = [l1 EXCEPT !.due = TRUE]
      BY <1>5 DEF FallDue
    <2>3. l1'.p = l1.p /\ l1'.v = l1.v /\ l1'.torn = l1.torn
      BY <2>1, <2>2
    <2>. QED BY <1>1, <2>3
  <1>6. ASSUME cursor + 1 \leq Len(stream), Put(stream[cursor + 1].p, stream[cursor + 1].ts, FALSE)
        PROVE  FairNext(l1'.p, l1'.v)
    <2>1. cursor \in 0..Len(stream) /\ Len(stream) \in Nat
      BY TypeParts, LenProperties DEF StreamType
    <2>2. cursor + 1 \in 1..Len(stream)
      BY <1>6, <2>1
    <2>. QED BY <1>2, <1>6, <2>2, MessageKept
  <1>7. ASSUME NEW c \in Writer, call[c].at = "journaled", Put(call[c].n, call[c].l1Version, FALSE)
        PROVE  FairNext(l1'.p, l1'.v)
    BY <1>2, <1>7, CallKept
  <1>8. ASSUME NEW c \in Reader, fetch[c].at = "put", Put(fetch[c].p, fetch[c].v, fetch[c].torn)
        PROVE  FairNext(l1'.p, l1'.v)
    BY <1>2, <1>8, FetchKept
  <1>. QED BY <1>3, <1>4, <1>5, <1>6, <1>7, <1>8, EntrySteps

CallFairNext(x) ==
    /\ x.at \in {"script", "publish", "journaled"} => x.l1Version \leq now'
    /\ x.at \in {"publish", "journaled"} => FairNext(x.n, x.l1Version)
    /\ x.at = "publish" => FairNext(x.n, x.ts)

LEMMA StepCallHonest ==
    ASSUME TypeInv, HonestInv, [Next]_vars, NEW d \in Writer
    PROVE  CallFairNext(call'[d])
  <1>a. call \in [Writer -> CallType] /\ now \in Clock
    BY TypeParts DEF CallsType, NumbersType
  <1>1. CASE call'[d] = call[d]
    BY <1>1, CallKept, TimePasses DEF CallFairNext, Clock
  <1>2. CASE call'[d] = Idle
    BY <1>2 DEF CallFairNext, Idle
  <1>3. ASSUME NEW c \in Writer, NEW x, call' = [call EXCEPT ![c] = x], CallFairNext(x)
        PROVE  CallFairNext(call'[d])
    <2>1. CASE c = d
      BY <1>3, <1>a, <2>1
    <2>2. CASE c # d
      BY <1>1, <1>3, <1>a, <2>2
    <2>. QED BY <2>1, <2>2
  <1>4. ASSUME NEW c \in Writer, StartWrite(c) PROVE CallFairNext(call'[d])
    <2>. DEFINE x == [at |-> "script", l1Version |-> now]
    <2>1. call' = [call EXCEPT ![c] = x]
      BY <1>4 DEF StartWrite
    <2>2. CallFairNext(x)
      BY TimePasses DEF CallFairNext
    <2>. QED BY <1>3, <2>1, <2>2
  <1>5. ASSUME NEW c \in Writer, RunScript(c) PROVE CallFairNext(call'[d])
    <2>1. PICK ts \in call[c].l1Version..now :
            call' = [call EXCEPT ![c] =
              [at |-> "publish", n |-> written + 1, ts |-> ts,
               l1Version |-> IF c \in Local THEN call[c].l1Version ELSE ts]]
      BY <1>5 DEF RunScript
    <2>2. written' = written + 1
      <3>1. journaledAt \in Seq(Clock) /\ journaledAt' = Append(journaledAt, now)
        BY <1>5, TypeParts DEF RunScript, CallsType
      <3>. QED BY <1>a, <3>1 DEF written
    <2>3. call[c].l1Version \in Clock /\ call[c].l1Version \leq now
      BY <1>5, CallKept DEF RunScript
    <2>4. ts \in Clock /\ ts \leq now
      BY <1>a, <2>1, <2>3, TierAssumption DEF Clock
    <2>. DEFINE own == IF c \in Local THEN call[c].l1Version ELSE ts
                x == [at |-> "publish", n |-> written + 1, ts |-> ts, l1Version |-> own]
    <2>5. FairNext(written + 1, own) /\ FairNext(written + 1, ts)
      BY <2>2, <2>3, <2>4, HistoryGrows, LatestIsFair
    <2>6. own \leq now'
      BY <2>3, <2>4, TimePasses DEF Clock
    <2>7. CallFairNext(x)
      <3>. HIDE DEF own
      <3>. QED BY <2>5, <2>6 DEF CallFairNext
    <2>8. call' = [call EXCEPT ![c] = x]
      BY <2>1
    <2>. HIDE DEF x
    <2>. QED BY <1>3, <2>7, <2>8
  <1>6. ASSUME NEW c \in Writer, PublishWrite(c) PROVE CallFairNext(call'[d])
    <2>. DEFINE x == [at |-> "journaled", n |-> call[c].n, l1Version |-> call[c].l1Version]
    <2>1. call' = [call EXCEPT ![c] = x] \/ call' = [call EXCEPT ![c] = Idle]
      BY <1>6 DEF PublishWrite
    <2>2. CallFairNext(x)
      BY <1>6, CallKept, TimePasses DEF PublishWrite, CallFairNext, Clock
    <2>3. CallFairNext(Idle)
      BY DEF CallFairNext, Idle
    <2>. QED BY <1>3, <2>1, <2>2, <2>3
  <1>7. ASSUME NEW c \in Writer, call' = [call EXCEPT ![c] = Idle] PROVE CallFairNext(call'[d])
    BY <1>1, <1>2, <1>7, <1>a
  <1>8. CASE call' = [c \in Writer |-> IF c \in Local THEN Idle ELSE call[c]]
    BY <1>1, <1>2, <1>8
  <1>. QED BY <1>1, <1>4, <1>5, <1>6, <1>7, <1>8, CallSteps

FetchFairNext(x) ==
    /\ x.at \in {"source", "hydrate"} => x.v \leq now'
    /\ x.at = "seed" => FairNext(x.p, x.v)
    /\ x.at = "put" /\ ~x.torn => FairNext(x.p, x.v)

LEMMA StepFetchHonest ==
    ASSUME TypeInv, KeptWhileOvertaken, FetchedIsLatest, HonestInv, [Next]_vars, ~astray',
           NEW d \in Reader
    PROVE  FetchFairNext(fetch'[d])
  <1>. USE DEF FetchFairNext
  <1>1. CASE fetch'[d] = Idle
    BY <1>1 DEF Idle
  <1>2. CASE fetch'[d] = fetch[d]
    BY <1>2, FetchKept, TimePasses DEF Clock
  <1>3. CASE Read(d)
    <2>1. ASSUME payload # Missing PROVE FairNext(payload, version)
      <3>1. payload \in Copy /\ version \in Clock /\ Fair(payload, version)
        BY <2>1, TypeParts DEF NumbersType, HonestInv
      <3>. QED BY <3>1, FairKept
    <2>2. CASE BeginsAt(d) \/ FindsPayload(d) \/ FindsNothing(d)
      BY <2>2, TimePasses DEF BeginsAt, FindsPayload, FindsNothing
    <2>3. CASE FindsVersion(d)
      <3>1. fetch[d].p \in Copy
        BY <2>3, TypeParts DEF FindsVersion, FetchesType
      <3>2. fetch[d].p # Missing
        BY <3>1, TierAssumption DEF Copy, Payload, Stray, Missing
      <3>. QED BY <2>1, <2>3, <3>2 DEF FindsVersion
    <2>4. CASE FindsDocument(d)
      BY <2>4, FetchKept, TimePasses DEF FindsDocument, Clock
    <2>5. CASE HasSeeded(d)
      BY <2>5, FetchKept DEF HasSeeded
    <2>6. CASE IsOverruled(d)
      BY <2>1, <2>6 DEF IsOverruled
    <2>7. CASE Hydrate(d) /\ Fills(d) /\ FillJournal(d)
      <3>1. fetch[d].p = written' /\ payload = Missing
        BY <2>7, FillIsLatest DEF Fills, Hydrate, written
      <3>2. fetch[d].v \in Clock /\ fetch[d].v \leq now
        BY <2>7, FetchKept DEF Fills
      <3>3. FairNext(fetch[d].p, fetch[d].v)
        BY <3>1, <3>2, HistoryGrows, LatestIsFair
      <3>. QED BY <2>7, <3>3 DEF Fills
    <2>. QED BY <1>1, <1>3, <2>2, <2>3, <2>4, <2>5, <2>6, <2>7, ReadMoves
  <1>. QED BY <1>1, <1>2, <1>3, ReaderSteps

\* sluice.go:416-429, 444-471, 666-701 and internal/localjournal: a copy in L1, in the
\* journal or on the stream never claims to be newer than it is: each later write
\* reached the journal at its version or after.  The gates that compare versions
\* rest on it.  Under the conditions of JournalKeepsUp, and not of a payload whose message
\* was sent though its script failed: that one stands for no write.
THEOREM VersionsAreHonest ==
    ASSUME ~SlowHydration
    PROVE  Spec => []VersionIsHonest
  <1>. DEFINE Inv == StoreInv /\ (~astray => HonestInv)
  <1>1. Init => Inv
    BY InitTierInv DEF TierInv, StoreInv
  <1>2. Inv /\ [Next]_vars => Inv'
    <2>. SUFFICES ASSUME Inv, [Next]_vars PROVE Inv'
      OBVIOUS
    <2>1. StoreInv'
      BY StepStoreInv
    <2>2. ASSUME ~astray' PROVE HonestInv'
      <3>a. /\ TypeInv /\ KeptWhileOvertaken /\ JournalIsLatest /\ FetchedIsLatest /\ HonestInv
        BY <2>2, StraightSteps DEF StoreInv
      <3>1. payload' # Missing => FairNext(payload', version')
        BY <2>2, <3>a, StepJournalHonest
      <3>2. \A i \in 1..Len(stream') : FairNext(stream'[i].p, stream'[i].ts)
        BY <3>a, StepStreamHonest
      <3>3. l1'.p # Missing /\ ~l1'.torn => FairNext(l1'.p, l1'.v)
        BY <3>a, StepEntryHonest
      <3>4. \A d \in Writer : CallFairNext(call'[d])
        BY <3>a, StepCallHonest
      <3>5. \A d \in Reader : FetchFairNext(fetch'[d])
        BY <2>2, <3>a, StepFetchHonest
      <3>. QED BY <3>1, <3>2, <3>3, <3>4, <3>5
               DEF HonestInv, Fair, Honest, FairNext, CallFairNext, FetchFairNext
    <2>. QED BY <2>1, <2>2
  <1>3. Inv => VersionIsHonest
    BY DEF HonestInv, VersionIsHonest, Fair
  <1>. QED BY <1>1, <1>2, <1>3, PTL DEF Spec
=============================================================================
