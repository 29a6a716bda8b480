---------------------------- MODULE IndexesProofs ----------------------------
(***************************************************************************)
(* Proofs, for any keys, indexes, payloads and goroutines, of the safety   *)
(* properties of Indexes.                                                  *)
(*                                                                         *)
(* No lock holds an update and a prune of one key apart.  What does, as    *)
(* long as nothing raced on the key, is that it is updated by one          *)
(* goroutine at a time and pruned only when it has no payload: from that   *)
(* follows, step by step of an update, where the key is a member and what  *)
(* its record says.                                                        *)
(***************************************************************************)
EXTENDS Indexes, TLAPS

UpdateAt == {"read", "add", "remove", "record", "enqueue"}
PruneAt  == {"scan", "unregister", "pttl", "alive", "persistent", "check",
             "values", "sets", "hash", "dequeue"}

UpdateRecord == [at : UpdateAt, k : Key, fields : Content \ {{}}, old : SUBSET Index]
UpdateType   == {Idle} \cup UpdateRecord

TaskRecord == [at : PruneAt, todo : SUBSET Index, fallback : SUBSET Index, ks : SUBSET Key,
               old : UNION {[s -> SUBSET Index] : s \in SUBSET Key}]
IsTask(x)  == x \in TaskRecord /\ x.old \in [x.ks -> SUBSET Index]

JournalType ==
    /\ payload \in [Key -> Content \cup {None}]
    /\ expiring \subseteq {k \in Key : payload[k] # None}
    /\ writes \in Nat /\ writes \leq MaxWrites /\ lapses \in Nat /\ lapses \leq MaxLapses
    /\ history \in [Key -> {"exact", "complete", "raced"}]

SetsType ==
    /\ idx \in [Index -> SUBSET Key] /\ idxv \in [Key -> SUBSET Index]
    /\ reg \subseteq Index /\ queue \subseteq Key
    /\ left \in [Key -> SUBSET Index]

UpdatesType == update \in [Updater -> UpdateType]

PrunesType ==
    /\ DOMAIN prune = Pruner
    /\ \A p \in Pruner : prune[p] \in {Idle, Failed} \/ IsTask(prune[p])

\* The queue's pruner looks at one key at a time.
OneDue == \A p \in Pruner : prune[p].at = "pttl" => \A k, l \in prune[p].ks : k = l

TypeInv == JournalType /\ SetsType /\ UpdatesType /\ PrunesType /\ OneDue

-----------------------------------------------------------------------------
(* The steps of the system, by the state they change.                      *)

Begins(u) == \E k \in Key, fields \in Content : BeginUpdate(u, k, fields)

Commits == \E k \in Key : CommitFlushed(k) \/ DeadLetter(k) \/ RefreshHotTTL(k)

Starts(p) == StartPrune(p) \/ StartQuery(p) \/ StartSweep(p)

\* The journal changes when a write or a hydration begins, and on expiry.
LEMMA JournalSteps ==
    ASSUME [Next]_vars
    PROVE  \/ UNCHANGED <<journal, writes>>
           \/ \E u \in Updater : Write(u) \/ Hydrate(u)
           \/ UNCHANGED <<payload, writes>> /\ Commits
           \/ UNCHANGED writes /\ \E k \in Key : Expire(k)
  <1>. USE DEF journal
  <1>1. ASSUME NEW u \in Updater,
               \/ ReadOldValues(u) \/ AddMember(u) \/ RemoveOld(u) \/ RecordValues(u)
               \/ Enqueue(u) \/ UpdateFails(u)
        PROVE  UNCHANGED <<journal, writes>>
    BY <1>1 DEF ReadOldValues, AddMember, RemoveOld, Leave, RecordValues, Enqueue, UpdateFails, At
  <1>2. ASSUME NEW k \in Key, CommitFlushed(k) \/ DeadLetter(k) \/ RefreshHotTTL(k)
        PROVE  UNCHANGED <<payload, writes>> /\ Commits
    BY <1>2 DEF CommitFlushed, DeadLetter, RefreshHotTTL, Commits
  <1>3. ASSUME NEW k \in Key, Expire(k) PROVE UNCHANGED writes
    BY <1>3 DEF Expire
  <1>4. ASSUME Lapse PROVE UNCHANGED <<journal, writes>>
    BY <1>4 DEF Lapse
  <1>5. ASSUME NEW p \in Pruner, Starts(p) \/ Register(p) \/ NothingDue(p) \/ PruneFails(p)
        PROVE  UNCHANGED <<journal, writes>>
    BY <1>5 DEF Starts, StartPrune, StartQuery, StartSweep, Register, NothingDue, PruneFails, vars
  <1>6. ASSUME NEW p \in Pruner, PruneStep(p) PROVE UNCHANGED <<journal, writes>>
    BY <1>6 DEF PruneStep, Scan, Unregister, CheckDue, Rescore, CheckPayloads, ReadValues,
                PruneMembers, DropValues, Dequeue, LogFailure
  <1>. QED BY <1>1, <1>2, <1>3, <1>4, <1>5, <1>6 DEF Next, Update, Starts, vars

\* The update of a goroutine is begun, goes on or ends.
LEMMA UpdateSteps ==
    ASSUME [Next]_vars
    PROVE  \/ update' = update
           \/ \E u \in Updater : \/ Begins(u) \/ ReadOldValues(u) \/ AddMember(u) \/ RemoveOld(u)
                                 \/ RecordValues(u) \/ Enqueue(u) \/ UpdateFails(u)
  <1>1. ASSUME NEW u \in Updater, Write(u) \/ Hydrate(u) PROVE Begins(u)
    BY <1>1 DEF Write, Hydrate, Begins
  <1>2. ASSUME NEW k \in Key, CommitFlushed(k) \/ DeadLetter(k) \/ RefreshHotTTL(k) \/ Expire(k)
        PROVE  update' = update
    BY <1>2 DEF CommitFlushed, DeadLetter, RefreshHotTTL, Expire
  <1>3. ASSUME Lapse PROVE update' = update
    BY <1>3 DEF Lapse
  <1>4. ASSUME NEW p \in Pruner, Starts(p) \/ Register(p) \/ NothingDue(p) \/ PruneFails(p)
        PROVE  update' = update
    BY <1>4 DEF Starts, StartPrune, StartQuery, StartSweep, Register, NothingDue, PruneFails, vars
  <1>5. ASSUME NEW p \in Pruner, PruneStep(p) PROVE update' = update
    BY <1>5 DEF PruneStep, Scan, Unregister, CheckDue, Rescore, CheckPayloads, ReadValues,
                PruneMembers, DropValues, Dequeue, LogFailure
  <1>. QED BY <1>1, <1>2, <1>3, <1>4, <1>5 DEF Next, Update, Starts, vars

\* A key joins an index by AddMember, and leaves it by RemoveOld, Leave, by a prune, or
\* with the index key.
LEMMA MemberSteps ==
    ASSUME [Next]_vars
    PROVE  \/ idx' = idx
           \/ \E u \in Updater : AddMember(u) \/ RemoveOld(u)
           \/ \E p \in Pruner : PruneMembers(p)
           \/ Lapse
  <1>1. ASSUME NEW u \in Updater,
               \/ Begins(u) \/ ReadOldValues(u) \/ RecordValues(u) \/ Enqueue(u) \/ UpdateFails(u)
        PROVE  idx' = idx
    BY <1>1 DEF Begins, BeginUpdate, ReadOldValues, RecordValues, Enqueue, UpdateFails, index
  <1>2. ASSUME NEW u \in Updater, Write(u) \/ Hydrate(u) PROVE Begins(u)
    BY <1>2 DEF Write, Hydrate, Begins
  <1>3. ASSUME NEW k \in Key, CommitFlushed(k) \/ DeadLetter(k) \/ RefreshHotTTL(k) \/ Expire(k)
        PROVE  idx' = idx
    BY <1>3 DEF CommitFlushed, DeadLetter, RefreshHotTTL, Expire, index
  <1>4. ASSUME NEW p \in Pruner, Starts(p) \/ Register(p) \/ NothingDue(p) \/ PruneFails(p)
        PROVE  idx' = idx
    BY <1>4 DEF Starts, StartPrune, StartQuery, StartSweep, Register, NothingDue, PruneFails,
                vars, index
  <1>5. ASSUME NEW p \in Pruner, PruneStep(p) PROVE idx' = idx \/ PruneMembers(p)
    BY <1>5 DEF PruneStep, Scan, Unregister, CheckDue, Rescore, CheckPayloads, ReadValues,
                DropValues, Dequeue, LogFailure, index
  <1>. QED BY <1>1, <1>2, <1>3, <1>4, <1>5 DEF Next, Update, Starts, vars, index

LEMMA RecordSteps ==
    ASSUME [Next]_vars
    PROVE  \/ idxv' = idxv
           \/ \E u \in Updater : RemoveOld(u) \/ RecordValues(u)
           \/ \E p \in Pruner : DropValues(p)
           \/ Lapse
  <1>1. ASSUME NEW u \in Updater,
               \/ Begins(u) \/ ReadOldValues(u) \/ AddMember(u) \/ Enqueue(u) \/ UpdateFails(u)
        PROVE  idxv' = idxv
    BY <1>1 DEF Begins, BeginUpdate, ReadOldValues, AddMember, Enqueue, UpdateFails, index
  <1>2. ASSUME NEW u \in Updater, Write(u) \/ Hydrate(u) PROVE Begins(u)
    BY <1>2 DEF Write, Hydrate, Begins
  <1>3. ASSUME NEW k \in Key, CommitFlushed(k) \/ DeadLetter(k) \/ RefreshHotTTL(k) \/ Expire(k)
        PROVE  idxv' = idxv
    BY <1>3 DEF CommitFlushed, DeadLetter, RefreshHotTTL, Expire, index
  <1>4. ASSUME NEW p \in Pruner, Starts(p) \/ Register(p) \/ NothingDue(p) \/ PruneFails(p)
        PROVE  idxv' = idxv
    BY <1>4 DEF Starts, StartPrune, StartQuery, StartSweep, Register, NothingDue, PruneFails,
                vars, index
  <1>5. ASSUME NEW p \in Pruner, PruneStep(p) PROVE idxv' = idxv \/ DropValues(p)
    BY <1>5 DEF PruneStep, Scan, Unregister, CheckDue, Rescore, CheckPayloads, ReadValues,
                PruneMembers, Dequeue, LogFailure, index
  <1>. QED BY <1>1, <1>2, <1>3, <1>4, <1>5 DEF Next, Update, Starts, vars, index

\* What is registered and what is queued are index keys and keys in hand.
LEMMA QueueSteps ==
    ASSUME [Next]_vars
    PROVE  \/ UNCHANGED <<queue, missed>>
           \/ \E u \in Updater : Enqueue(u)
           \/ Commits
           \/ \E p \in Pruner : Rescore(p) \/ (Dequeue(p) /\ missed' = missed)
  <1>1. ASSUME NEW u \in Updater,
               \/ Begins(u) \/ ReadOldValues(u) \/ AddMember(u) \/ RemoveOld(u)
               \/ RecordValues(u) \/ UpdateFails(u)
        PROVE  UNCHANGED <<queue, missed>>
    BY <1>1 DEF Begins, BeginUpdate, ReadOldValues, AddMember, RemoveOld, Leave, RecordValues,
                UpdateFails, index
  <1>2. ASSUME NEW u \in Updater, Write(u) \/ Hydrate(u) PROVE Begins(u)
    BY <1>2 DEF Write, Hydrate, Begins
  <1>3. ASSUME NEW k \in Key, Expire(k) PROVE UNCHANGED <<queue, missed>>
    BY <1>3 DEF Expire, index
  <1>4. ASSUME NEW p \in Pruner, Starts(p) \/ Register(p) \/ NothingDue(p) \/ PruneFails(p)
        PROVE  UNCHANGED <<queue, missed>>
    BY <1>4 DEF Starts, StartPrune, StartQuery, StartSweep, Register, NothingDue, PruneFails,
                vars, index
  <1>5. ASSUME NEW p \in Pruner, PruneStep(p)
        PROVE  UNCHANGED <<queue, missed>> \/ Rescore(p) \/ (Dequeue(p) /\ missed' = missed)
    BY <1>5 DEF PruneStep, Scan, Unregister, CheckDue, CheckPayloads, ReadValues,
                PruneMembers, DropValues, Dequeue, LogFailure, index
  <1>6. ASSUME Lapse PROVE UNCHANGED <<queue, missed>>
    BY <1>6 DEF Lapse
  <1>. QED BY <1>1, <1>2, <1>3, <1>4, <1>5, <1>6 DEF Next, Update, Starts, Commits, vars, index

\* What the history records: overlapping, failing and lapsing.
LEMMA HistorySteps ==
    ASSUME [Next]_vars
    PROVE  \/ history' = history
           \/ \E u \in Updater : Begins(u) \/ UpdateFails(u)
           \/ \E p \in Pruner : CheckDue(p) \/ CheckPayloads(p)
           \/ Lapse
  <1>1. ASSUME NEW u \in Updater,
               ReadOldValues(u) \/ AddMember(u) \/ RemoveOld(u) \/ RecordValues(u) \/ Enqueue(u)
        PROVE  history' = history
    BY <1>1 DEF ReadOldValues, AddMember, RemoveOld, Leave, RecordValues, Enqueue, At
  <1>2. ASSUME NEW u \in Updater, Write(u) \/ Hydrate(u) PROVE Begins(u)
    BY <1>2 DEF Write, Hydrate, Begins
  <1>3. ASSUME NEW k \in Key, CommitFlushed(k) \/ DeadLetter(k) \/ RefreshHotTTL(k) \/ Expire(k)
        PROVE  history' = history
    BY <1>3 DEF CommitFlushed, DeadLetter, RefreshHotTTL, Expire
  <1>4. ASSUME NEW p \in Pruner, Starts(p) \/ Register(p) \/ NothingDue(p) \/ PruneFails(p)
        PROVE  history' = history
    BY <1>4 DEF Starts, StartPrune, StartQuery, StartSweep, Register, NothingDue, PruneFails, vars
  <1>5. ASSUME NEW p \in Pruner, PruneStep(p)
        PROVE  history' = history \/ CheckDue(p) \/ CheckPayloads(p)
    BY <1>5 DEF PruneStep, Scan, Unregister, Rescore, ReadValues, PruneMembers, DropValues,
                Dequeue, LogFailure
  <1>. QED BY <1>1, <1>2, <1>3, <1>4, <1>5 DEF Next, Update, Starts, vars

\* A prune is started, goes on or fails.
LEMMA PruneSteps ==
    ASSUME [Next]_vars
    PROVE  \/ prune' = prune
           \/ \E p \in Pruner : Starts(p) \/ PruneStep(p) \/ PruneFails(p)
  <1>1. ASSUME NEW u \in Updater,
               \/ ReadOldValues(u) \/ AddMember(u) \/ RemoveOld(u) \/ RecordValues(u) \/ Enqueue(u)
               \/ UpdateFails(u) \/ Begins(u)
        PROVE  prune' = prune
    BY <1>1 DEF ReadOldValues, AddMember, RemoveOld, Leave, RecordValues, Enqueue, At, UpdateFails,
                Begins, BeginUpdate
  <1>2. ASSUME NEW u \in Updater, Write(u) \/ Hydrate(u) PROVE Begins(u)
    BY <1>2 DEF Write, Hydrate, Begins
  <1>3. ASSUME NEW k \in Key, CommitFlushed(k) \/ DeadLetter(k) \/ RefreshHotTTL(k) \/ Expire(k)
        PROVE  prune' = prune
    BY <1>3 DEF CommitFlushed, DeadLetter, RefreshHotTTL, Expire
  <1>4. ASSUME NEW p \in Pruner, Register(p) \/ NothingDue(p) PROVE prune' = prune
    BY <1>4 DEF Register, NothingDue, vars
  <1>5. ASSUME Lapse PROVE prune' = prune
    BY <1>5 DEF Lapse
  <1>. QED BY <1>1, <1>2, <1>3, <1>4, <1>5 DEF Next, Update, Starts, vars

\* Index keys are registered by updates and at a start, and go with an empty scan.
LEMMA RegistrySteps ==
    ASSUME [Next]_vars
    PROVE  \/ reg' = reg
           \/ \E u \in Updater : AddMember(u)
           \/ \E p \in Pruner : Unregister(p) \/ Register(p)
           \/ Lapse
  <1>1. ASSUME NEW u \in Updater,
               \/ Begins(u) \/ ReadOldValues(u) \/ RemoveOld(u) \/ RecordValues(u) \/ Enqueue(u)
               \/ UpdateFails(u)
        PROVE  reg' = reg
    BY <1>1 DEF Begins, BeginUpdate, ReadOldValues, RemoveOld, Leave, RecordValues, Enqueue, UpdateFails,
                index
  <1>2. ASSUME NEW u \in Updater, Write(u) \/ Hydrate(u) PROVE Begins(u)
    BY <1>2 DEF Write, Hydrate, Begins
  <1>3. ASSUME NEW k \in Key, CommitFlushed(k) \/ DeadLetter(k) \/ RefreshHotTTL(k) \/ Expire(k)
        PROVE  reg' = reg
    BY <1>3 DEF CommitFlushed, DeadLetter, RefreshHotTTL, Expire, index
  <1>4. ASSUME NEW p \in Pruner, Starts(p) \/ NothingDue(p) \/ PruneFails(p) PROVE reg' = reg
    BY <1>4 DEF Starts, StartPrune, StartQuery, StartSweep, NothingDue, PruneFails, vars, index
  <1>5. ASSUME NEW p \in Pruner, PruneStep(p) PROVE reg' = reg \/ Unregister(p)
    BY <1>5 DEF PruneStep, Scan, CheckDue, Rescore, CheckPayloads, ReadValues, PruneMembers,
                DropValues, Dequeue, LogFailure, index
  <1>. QED BY <1>1, <1>2, <1>3, <1>4, <1>5 DEF Next, Update, Starts, vars, index

LEMMA LapseSteps ==
    ASSUME [Next]_vars PROVE lapses' = lapses \/ Lapse
  <1>1. ASSUME NEW u \in Updater, Update(u) PROVE lapses' = lapses
    BY <1>1 DEF Update, Write, Hydrate, BeginUpdate, ReadOldValues, AddMember, RemoveOld, Leave,
                RecordValues, Enqueue, UpdateFails, At
  <1>2. ASSUME NEW k \in Key, CommitFlushed(k) \/ DeadLetter(k) \/ RefreshHotTTL(k) \/ Expire(k)
        PROVE  lapses' = lapses
    BY <1>2 DEF CommitFlushed, DeadLetter, RefreshHotTTL, Expire
  <1>3. ASSUME NEW p \in Pruner, Starts(p) \/ Register(p) \/ NothingDue(p) \/ PruneFails(p)
        PROVE  lapses' = lapses
    BY <1>3 DEF Starts, StartPrune, StartQuery, StartSweep, Register, NothingDue, PruneFails, vars
  <1>4. ASSUME NEW p \in Pruner, PruneStep(p) PROVE lapses' = lapses
    BY <1>4 DEF PruneStep, Scan, Unregister, CheckDue, Rescore, CheckPayloads, ReadValues,
                PruneMembers, DropValues, Dequeue, LogFailure
  <1>. QED BY <1>1, <1>2, <1>3, <1>4 DEF Next, Starts, vars

\* Range sets are left, and re-entered, by RemoveOld alone.
LEMMA LeftSteps ==
    ASSUME [Next]_vars PROVE left' = left \/ \E u \in Updater : RemoveOld(u)
  <1>1. ASSUME NEW u \in Updater, Update(u) PROVE left' = left \/ RemoveOld(u)
    BY <1>1 DEF Update, Write, Hydrate, BeginUpdate, ReadOldValues, AddMember,
                RecordValues, Enqueue, UpdateFails
  <1>2. ASSUME NEW k \in Key, CommitFlushed(k) \/ DeadLetter(k) \/ RefreshHotTTL(k) \/ Expire(k)
        PROVE  left' = left
    BY <1>2 DEF CommitFlushed, DeadLetter, RefreshHotTTL, Expire
  <1>3. ASSUME NEW p \in Pruner, Starts(p) \/ Register(p) \/ NothingDue(p) \/ PruneFails(p)
        PROVE  left' = left
    BY <1>3 DEF Starts, StartPrune, StartQuery, StartSweep, Register, NothingDue, PruneFails, vars
  <1>4. ASSUME NEW p \in Pruner, PruneStep(p) PROVE left' = left
    BY <1>4 DEF PruneStep, Scan, Unregister, CheckDue, Rescore, CheckPayloads, ReadValues,
                PruneMembers, DropValues, Dequeue, LogFailure
  <1>5. ASSUME Lapse PROVE left' = left
    BY <1>5 DEF Lapse
  <1>. QED BY <1>1, <1>2, <1>3, <1>4, <1>5 DEF Next, Starts, vars

-----------------------------------------------------------------------------
(* The inductive invariant, key by key.                                    *)

On(u, k) == update[u] # Idle /\ update[u].k = k

\* A prune that has found k dead, and is at one of the stages of pruneIndexMembers.
Prunes(p, k, stages) == prune[p].at \in stages /\ k \in prune[p].ks

\* The index keys k is a member of are among those of s, or range sets it was left in.
OnlyIn(k, s) == \A i \in Index : k \in idx[i] => i \in s \cup left[k]

Indexed(k) == payload[k] \notin {None, {}} /\ ~Updated(k)

\* As long as nothing raced on a key, one goroutine at a time updates it, and it is
\* pruned only between updates, when it has no payload.
Alone(k) ==
    history[k] # "raced" =>
        /\ \A u, v \in Updater : On(u, k) /\ On(v, k) => u = v
        /\ Pruned(k) => ~Updated(k) /\ payload[k] = None
        /\ \A u \in Updater : On(u, k) => payload[k] \in {None, update[u].fields}

\* From the moment an update has put a key into its index keys it stays there.
Found(k) ==
    history[k] # "raced" =>
        /\ \A u \in Updater : On(u, k) /\ update[u].at \in {"remove", "record", "enqueue"} =>
              \A i \in update[u].fields : k \in idx[i]
        /\ Indexed(k) => \A i \in payload[k] : k \in idx[i]

\* The record of a key covers the index keys it is in, except while an update or a
\* prune holds the old record in hand.
Recorded(k) ==
    history[k] = "exact" =>
        /\ ~Updated(k) => OnlyIn(k, idxv[k])
        /\ \A u \in Updater : On(u, k) =>
             /\ update[u].at = "read" => OnlyIn(k, idxv[k])
             /\ update[u].at = "add" => OnlyIn(k, update[u].old)
             /\ update[u].at = "remove" => OnlyIn(k, update[u].old \cup update[u].fields)
             /\ update[u].at \in {"record", "enqueue"} => OnlyIn(k, update[u].fields)
             /\ update[u].at = "enqueue" => idxv[k] = update[u].fields
        /\ \A p \in Pruner : /\ Prunes(p, k, {"sets"}) => OnlyIn(k, prune[p].old[k])
                             /\ Prunes(p, k, {"hash"}) => OnlyIn(k, {})
        /\ Indexed(k) => idxv[k] = payload[k]

Queued(k) ==
    history[k] = "exact" /\ Indexed(k) /\ k \in expiring \ missed => k \in queue

KeyInv == \A k \in Key : Alone(k) /\ Found(k) /\ Recorded(k) /\ Queued(k)

-----------------------------------------------------------------------------
(* Types.                                                                  *)

LEMMA InitType == Init => TypeInv
  <1>. SUFFICES ASSUME Init PROVE TypeInv
    OBVIOUS
  <1>1. JournalType /\ SetsType
    BY IndexAssumption DEF Init, JournalType, SetsType
  <1>2. UpdatesType /\ PrunesType
    BY DEF Init, UpdatesType, UpdateType, PrunesType
  <1>3. OneDue
    BY DEF Init, OneDue, Idle
  <1>. QED BY <1>1, <1>2, <1>3 DEF TypeInv

LEMMA BeginType ==
    ASSUME TypeInv, NEW u \in Updater, NEW d \in Key, NEW f \in Content, BeginUpdate(u, d, f)
    PROVE  /\ payload' \in [Key -> Content \cup {None}] /\ payload' = [payload EXCEPT ![d] = f]
           /\ writes' \in Nat /\ writes' \leq MaxWrites
           /\ history' \in [Key -> {"exact", "complete", "raced"}]
           /\ UpdatesType'
  <1>. USE DEF TypeInv, JournalType
  <1>1. payload' \in [Key -> Content \cup {None}] /\ payload' = [payload EXCEPT ![d] = f]
    BY DEF BeginUpdate
  <1>2. writes' \in Nat /\ writes' \leq MaxWrites
    BY IndexAssumption DEF BeginUpdate
  <1>3. history' \in [Key -> {"exact", "complete", "raced"}]
    BY DEF BeginUpdate
  <1>4. UpdatesType'
    <2>1. CASE f = {}
      BY <2>1 DEF BeginUpdate, UpdatesType
    <2>2. CASE f # {}
      <3>1. [at |-> "read", k |-> d, fields |-> f, old |-> {}] \in UpdateRecord
        BY <2>2 DEF UpdateRecord, UpdateAt
      <3>. QED BY <2>2, <3>1 DEF BeginUpdate, UpdatesType, UpdateType
    <2>. QED BY <2>1, <2>2
  <1>. QED BY <1>1, <1>2, <1>3, <1>4

\* The stages of an update, by the goroutine's state before and after.
LEMMA StageType ==
    ASSUME TypeInv, NEW u \in Updater, update[u] # Idle
    PROVE  /\ update[u] \in UpdateRecord /\ DOMAIN update = Updater
           /\ update[u].k \in Key /\ update[u].fields \subseteq Index /\ update[u].old \subseteq Index
           /\ update[u].fields \in Content \ {{}}
  <1>1. update[u] \in UpdateRecord /\ DOMAIN update = Updater
    BY DEF TypeInv, UpdatesType, UpdateType
  <1>. QED BY <1>1, IndexAssumption DEF UpdateRecord

\* A goroutine that is idle has no stage.
LEMMA IdleAt == Idle.at = "idle" /\ Failed.at = "failed"
  BY DEF Idle, Failed

LEMMA AtSteps ==
    ASSUME TypeInv, NEW u \in Updater, NEW here \in UpdateAt, NEW next \in UpdateAt \cup {"idle"},
           At(u, here, next)
    PROVE  /\ update[u] # Idle /\ update[u].at = here
           /\ \A v \in Updater : v # u => update'[v] = update[v]
           /\ next = "idle" => update'[u] = Idle
           /\ next # "idle" =>
                /\ update'[u].at = next /\ update'[u].k = update[u].k
                /\ update'[u].fields = update[u].fields
                /\ next = "remove" => update'[u].old = update[u].old
                /\ update'[u] # Idle
           /\ UpdatesType'
  <1>1. update[u] # Idle /\ update[u].at = here
    BY IdleAt DEF At, UpdateAt
  <1>2. update[u] \in UpdateRecord /\ DOMAIN update = Updater
    BY <1>1, StageType
  <1>3. \A v \in Updater : v # u => update'[v] = update[v]
    BY <1>2 DEF At
  <1>4. CASE next = "idle"
    <2>1. update' = [update EXCEPT ![u] = Idle]
      BY <1>4 DEF At
    <2>. QED BY <1>1, <1>3, <1>4, <2>1, <1>2 DEF TypeInv, UpdatesType, UpdateType
  <1>5. CASE next # "idle"
    <2>. DEFINE o == IF next = "remove" THEN update[u].old ELSE {}
    <2>1. update' = [update EXCEPT ![u] = [update[u] EXCEPT !.at = next, !.old = o]]
      BY <1>2, <1>5 DEF At
    <2>2. update'[u] = [update[u] EXCEPT !.at = next, !.old = o]
      BY <1>2, <2>1
    <2>3. o \in SUBSET Index /\ next \in UpdateAt
      BY <1>2, <1>5 DEF UpdateRecord
    <2>. HIDE DEF o
    <2>4. /\ update'[u] \in UpdateRecord /\ update'[u].at = next /\ update'[u].k = update[u].k
          /\ update'[u].fields = update[u].fields /\ update'[u].old = o
      BY <1>2, <2>2, <2>3 DEF UpdateRecord
    <2>5. update'[u] # Idle
      BY <2>4, <2>3, IdleAt DEF UpdateAt
    <2>6. UpdatesType'
      BY <2>1, <2>2, <2>4 DEF TypeInv, UpdatesType, UpdateType
    <2>. QED BY <1>1, <1>3, <1>5, <2>4, <2>5, <2>6 DEF o
  <1>. QED BY <1>4, <1>5

LEMMA ReadSteps ==
    ASSUME TypeInv, NEW u \in Updater, ReadOldValues(u)
    PROVE  /\ update[u] # Idle /\ update[u].at = "read"
           /\ \A v \in Updater : v # u => update'[v] = update[v]
           /\ update'[u].at = "add" /\ update'[u].k = update[u].k
           /\ update'[u].fields = update[u].fields /\ update'[u].old = idxv[update[u].k]
           /\ update'[u] # Idle
           /\ UpdatesType'
  <1>1. update[u] # Idle /\ update[u].at = "read"
    BY IdleAt DEF ReadOldValues
  <1>2. update[u] \in UpdateRecord /\ DOMAIN update = Updater
    BY <1>1, StageType
  <1>. DEFINE o == idxv[update[u].k]
  <1>3. update' = [update EXCEPT ![u] = [update[u] EXCEPT !.at = "add", !.old = o]]
    BY <1>2 DEF ReadOldValues
  <1>4. o \in SUBSET Index
    BY <1>2 DEF TypeInv, SetsType, UpdateRecord
  <1>. HIDE DEF o
  <1>5. update'[u] = [update[u] EXCEPT !.at = "add", !.old = o]
    BY <1>2, <1>3
  <1>6. /\ update'[u] \in UpdateRecord /\ update'[u].at = "add" /\ update'[u].k = update[u].k
        /\ update'[u].fields = update[u].fields /\ update'[u].old = o
    BY <1>2, <1>4, <1>5 DEF UpdateRecord, UpdateAt
  <1>7. update'[u] # Idle
    BY <1>6, IdleAt
  <1>8. UpdatesType'
    BY <1>3, <1>5, <1>6 DEF TypeInv, UpdatesType, UpdateType
  <1>. QED BY <1>1, <1>2, <1>3, <1>6, <1>7, <1>8 DEF o

LEMMA UpdatesTypeStep ==
    ASSUME TypeInv, [Next]_vars PROVE UpdatesType'
  <1>. USE DEF UpdateAt
  <1>1. ASSUME update' = update PROVE UpdatesType'
    BY <1>1 DEF TypeInv, UpdatesType
  <1>2. ASSUME NEW u \in Updater, Begins(u) PROVE UpdatesType'
    BY <1>2, BeginType DEF Begins
  <1>3. ASSUME NEW u \in Updater, ReadOldValues(u) PROVE UpdatesType'
    BY <1>3, ReadSteps
  <1>4. ASSUME NEW u \in Updater, AddMember(u) PROVE UpdatesType'
    BY <1>4, AtSteps DEF AddMember
  <1>5. ASSUME NEW u \in Updater, RemoveOld(u) PROVE UpdatesType'
    BY <1>5, AtSteps DEF RemoveOld, Leave
  <1>6. ASSUME NEW u \in Updater, RecordValues(u) PROVE UpdatesType'
    BY <1>6, AtSteps DEF RecordValues
  <1>7. ASSUME NEW u \in Updater, Enqueue(u) PROVE UpdatesType'
    BY <1>7, AtSteps DEF Enqueue
  <1>8. ASSUME NEW u \in Updater, UpdateFails(u) PROVE UpdatesType'
    BY <1>8 DEF UpdateFails, TypeInv, UpdatesType, UpdateType
  <1>. QED BY <1>1, <1>2, <1>3, <1>4, <1>5, <1>6, <1>7, <1>8, UpdateSteps

LEMMA HistoryTypeStep ==
    ASSUME TypeInv, [Next]_vars
    PROVE  history' \in [Key -> {"exact", "complete", "raced"}]
  <1>. USE DEF TypeInv, JournalType
  <1>1. ASSUME NEW u \in Updater, Begins(u)
        PROVE  history' \in [Key -> {"exact", "complete", "raced"}]
    BY <1>1, BeginType DEF Begins
  <1>2. ASSUME NEW ks, Raced(ks) PROVE history' \in [Key -> {"exact", "complete", "raced"}]
    BY <1>2 DEF Raced
  <1>3. ASSUME Lapse PROVE history' \in [Key -> {"exact", "complete", "raced"}]
    <2>1. CASE \E i \in Index : Raced(idx[i])
      BY <2>1, <1>2
    <2>2. CASE \E k \in Key : history' = [history EXCEPT ![k] = IF @ = "exact" THEN "complete" ELSE @]
      BY <2>2
    <2>. QED BY <1>3, <2>1, <2>2 DEF Lapse
  <1>. QED BY <1>1, <1>2, <1>3, HistorySteps DEF UpdateFails, CheckDue, CheckPayloads

LEMMA JournalTypeStep ==
    ASSUME TypeInv, [Next]_vars PROVE JournalType'
  <1>. USE DEF TypeInv, JournalType, journal
  <1>1. lapses' \in Nat /\ lapses' \leq MaxLapses
    BY LapseSteps, IndexAssumption DEF Lapse
  <1>2. /\ payload' \in [Key -> Content \cup {None}]
        /\ expiring' \subseteq {k \in Key : payload'[k] # None}
        /\ writes' \in Nat /\ writes' \leq MaxWrites
    <2>1. CASE UNCHANGED <<journal, writes>>
      BY <2>1
    <2>2. ASSUME NEW u \in Updater, NEW d \in Key, NEW f \in Content, BeginUpdate(u, d, f),
                 expiring' \in {expiring \ {d}, expiring \cup {d}}
          PROVE  /\ payload' \in [Key -> Content \cup {None}]
                 /\ expiring' \subseteq {k \in Key : payload'[k] # None}
                 /\ writes' \in Nat /\ writes' \leq MaxWrites
      <3>1. payload' = [payload EXCEPT ![d] = f] /\ f # None
        BY <2>2, BeginType, IndexAssumption
      <3>. QED BY <2>2, <3>1, BeginType
    <2>3. CASE \E u \in Updater : Write(u) \/ Hydrate(u)
      BY <2>2, <2>3 DEF Write, Hydrate
    <2>4. CASE UNCHANGED <<payload, writes>> /\ Commits
      BY <2>4 DEF Commits, CommitFlushed, DeadLetter, RefreshHotTTL
    <2>5. ASSUME NEW d \in Key, Expire(d), UNCHANGED writes
          PROVE  /\ payload' \in [Key -> Content \cup {None}]
                 /\ expiring' \subseteq {k \in Key : payload'[k] # None}
                 /\ writes' \in Nat /\ writes' \leq MaxWrites
      BY <2>5 DEF Expire
    <2>. QED BY <2>1, <2>3, <2>4, <2>5, JournalSteps
  <1>. QED BY <1>1, <1>2, HistoryTypeStep

\* A prune has index keys and keys at hand, and a set of old values for each key.
LEMMA TaskType ==
    ASSUME NEW at \in PruneAt, NEW todo \in SUBSET Index, NEW fallback \in SUBSET Index,
           NEW ks \in SUBSET Key
    PROVE  /\ IsTask(Task(at, todo, fallback, ks))
           /\ Task(at, todo, fallback, ks).at = at /\ Task(at, todo, fallback, ks).todo = todo
           /\ Task(at, todo, fallback, ks).fallback = fallback /\ Task(at, todo, fallback, ks).ks = ks
  <1>1. [k \in ks |-> {}] \in [ks -> SUBSET Index]
    OBVIOUS
  <1>. QED BY <1>1 DEF Task, IsTask, TaskRecord

LEMMA AtType ==
    ASSUME TypeInv, NEW p \in Pruner, prune[p].at \in PruneAt
    PROVE  /\ IsTask(prune[p]) /\ prune[p] \in TaskRecord
           /\ prune[p].todo \subseteq Index /\ prune[p].fallback \subseteq Index
           /\ prune[p].ks \subseteq Key /\ prune[p].old \in [prune[p].ks -> SUBSET Index]
  <1>1. IsTask(prune[p])
    BY IdleAt DEF TypeInv, PrunesType, PruneAt
  <1>. QED BY <1>1 DEF IsTask, TaskRecord

\* A task keeps its keys at another stage, and its old values or other ones.
LEMMA TaskMoves ==
    ASSUME NEW x, IsTask(x), NEW at \in PruneAt
    PROVE  /\ IsTask([x EXCEPT !.at = at])
           /\ [x EXCEPT !.at = at].at = at /\ [x EXCEPT !.at = at].ks = x.ks
           /\ [x EXCEPT !.at = at].old = x.old
  <1>1. x \in TaskRecord /\ x.old \in [x.ks -> SUBSET Index]
    BY DEF IsTask
  <1>2. /\ [x EXCEPT !.at = at] \in TaskRecord /\ [x EXCEPT !.at = at].at = at
        /\ [x EXCEPT !.at = at].ks = x.ks /\ [x EXCEPT !.at = at].old = x.old
    BY <1>1 DEF TaskRecord
  <1>. QED BY <1>1, <1>2 DEF IsTask

LEMMA TaskReads ==
    ASSUME NEW x, IsTask(x), NEW old \in [x.ks -> SUBSET Index]
    PROVE  /\ IsTask([x EXCEPT !.at = "sets", !.old = old])
           /\ [x EXCEPT !.at = "sets", !.old = old].at = "sets"
           /\ [x EXCEPT !.at = "sets", !.old = old].ks = x.ks
           /\ [x EXCEPT !.at = "sets", !.old = old].old = old
  <1>. DEFINE olds == UNION {[s -> SUBSET Index] : s \in SUBSET Key}
  <1>1. x \in TaskRecord /\ x.ks \in SUBSET Key
    BY DEF IsTask, TaskRecord
  <1>2. old \in olds /\ "sets" \in PruneAt
    BY <1>1 DEF PruneAt
  <1>. HIDE DEF olds
  <1>3. TaskRecord = [at : PruneAt, todo : SUBSET Index, fallback : SUBSET Index, ks : SUBSET Key,
                      old : olds]
    BY DEF TaskRecord, olds
  <1>4. /\ [x EXCEPT !.at = "sets", !.old = old] \in TaskRecord
        /\ [x EXCEPT !.at = "sets", !.old = old].at = "sets"
        /\ [x EXCEPT !.at = "sets", !.old = old].ks = x.ks
        /\ [x EXCEPT !.at = "sets", !.old = old].old = old
    BY <1>1, <1>2, <1>3
  <1>. QED BY <1>4 DEF IsTask

LEMMA ContinueType ==
    ASSUME TypeInv, NEW p \in Pruner, prune[p].at \in PruneAt, Continue(p)
    PROVE  /\ prune'[p] = Idle \/ (IsTask(prune'[p]) /\ prune'[p].at = "scan")
           /\ \A q \in Pruner : q # p => prune'[q] = prune[q]
           /\ DOMAIN prune' = Pruner
  <1>. DEFINE x == IF prune[p].todo = {} THEN Idle ELSE Task("scan", prune[p].todo, {}, {})
  <1>1. prune' = [prune EXCEPT ![p] = x] /\ DOMAIN prune = Pruner
    BY DEF Continue, Prune, TypeInv, PrunesType
  <1>2. x = Idle \/ (IsTask(x) /\ x.at = "scan")
    <2>1. /\ prune[p].todo \in SUBSET Index /\ {} \in SUBSET Index /\ {} \in SUBSET Key
          /\ "scan" \in PruneAt
      BY AtType DEF PruneAt
    <2>2. /\ IsTask(Task("scan", prune[p].todo, {}, {}))
          /\ Task("scan", prune[p].todo, {}, {}).at = "scan"
      BY <2>1, TaskType
    <2>. QED BY <2>2
  <1>. HIDE DEF x
  <1>. QED BY <1>1, <1>2

LEMMA PrunesTypeStep ==
    ASSUME TypeInv, [Next]_vars PROVE PrunesType'
  <1>. USE DEF PruneAt
  <1>0. DOMAIN prune = Pruner /\ \A q \in Pruner : prune[q] \in {Idle, Failed} \/ IsTask(prune[q])
    BY DEF TypeInv, PrunesType
  <1>1. ASSUME NEW p \in Pruner, NEW x, prune' = [prune EXCEPT ![p] = x],
               x \in {Idle, Failed} \/ IsTask(x)
        PROVE  PrunesType'
    <2>1. DOMAIN prune' = Pruner
      BY <1>0, <1>1
    <2>2. ASSUME NEW q \in Pruner PROVE (prune[q] \in {Idle, Failed} \/ IsTask(prune[q]))'
      <3>1. CASE q = p
        BY <1>0, <1>1, <3>1 DEF IsTask, Idle, Failed
      <3>2. CASE q # p
        BY <1>0, <1>1, <3>2 DEF IsTask, Idle, Failed
      <3>. QED BY <3>1, <3>2
    <2>. QED BY <2>1, <2>2 DEF PrunesType
  <1>2. ASSUME NEW p \in Pruner, StartPrune(p) PROVE PrunesType'
    <2>1. PICK k \in queue : prune' = [prune EXCEPT ![p] = Task("pttl", {}, {}, {k})]
      BY <1>2 DEF StartPrune, Prune
    <2>2. IsTask(Task("pttl", {}, {}, {k}))
      BY TaskType DEF TypeInv, SetsType
    <2>. QED BY <1>1, <2>1, <2>2
  <1>3. ASSUME NEW p \in Pruner, StartQuery(p) PROVE PrunesType'
    <2>1. PICK eqKeys \in (SUBSET (Index \ Numeric)) \ {{}}, rangeKeys \in SUBSET Numeric :
            prune' = [prune EXCEPT ![p] = Task("check", {}, eqKeys \cup rangeKeys,
                                               {k \in Key : \A i \in eqKeys : k \in idx[i]})]
      BY <1>3 DEF StartQuery, Prune
    <2>2. IsTask(Task("check", {}, eqKeys \cup rangeKeys, {k \in Key : \A i \in eqKeys : k \in idx[i]}))
      <3>1. /\ {k \in Key : \A i \in eqKeys : k \in idx[i]} \in SUBSET Key
            /\ eqKeys \cup rangeKeys \in SUBSET Index
        BY IndexAssumption
      <3>. QED BY <3>1, TaskType
    <2>. QED BY <1>1, <2>1, <2>2
  <1>4. ASSUME NEW p \in Pruner, StartSweep(p) PROVE PrunesType'
    <2>1. prune' = [prune EXCEPT ![p] = Task("scan", reg, {}, {})]
      BY <1>4 DEF StartSweep, Prune
    <2>2. IsTask(Task("scan", reg, {}, {}))
      BY TaskType DEF TypeInv, SetsType
    <2>. QED BY <1>1, <2>1, <2>2
  <1>5. ASSUME NEW p \in Pruner, Scan(p) PROVE PrunesType'
    <2>1. prune[p].at = "scan"
      BY <1>5 DEF Scan
    <2>2. PICK i \in prune[p].todo :
            prune' = [prune EXCEPT ![p] =
              Task(IF idx[i] = {} THEN "unregister" ELSE "check", prune[p].todo \ {i}, {i}, idx[i])]
      BY <1>5 DEF Scan, Prune
    <2>3. /\ i \in Index /\ prune[p].todo \ {i} \in SUBSET Index /\ idx[i] \in SUBSET Key
          /\ {i} \in SUBSET Index
      BY <2>1, AtType DEF TypeInv, SetsType
    <2>. DEFINE at == IF idx[i] = {} THEN "unregister" ELSE "check"
    <2>4. IsTask(Task(at, prune[p].todo \ {i}, {i}, idx[i]))
      BY <2>3, TaskType
    <2>. QED BY <1>1, <2>2, <2>4
  <1>6. ASSUME NEW p \in Pruner, Continue(p), prune[p].at \in PruneAt PROVE PrunesType'
    BY <1>0, <1>6, ContinueType DEF PrunesType, IsTask, Idle, Failed
  <1>7. ASSUME NEW p \in Pruner, Unregister(p) \/ Dequeue(p) PROVE PrunesType'
    BY <1>6, <1>7 DEF Unregister, Dequeue
  <1>8. ASSUME NEW p \in Pruner, CheckDue(p) PROVE PrunesType'
    <2>1. IsTask(prune[p])
      BY <1>8, AtType DEF CheckDue
    <2>2. PICK k \in prune[p].ks :
            prune' = [prune EXCEPT ![p] =
              [prune[p] EXCEPT !.at = IF payload[k] = None THEN "values"
                                      ELSE IF k \in expiring THEN "alive" ELSE "persistent"]]
      BY <1>8 DEF CheckDue, Prune
    <2>. DEFINE at == IF payload[k] = None THEN "values"
                      ELSE IF k \in expiring THEN "alive" ELSE "persistent"
    <2>3. prune' = [prune EXCEPT ![p] = [prune[p] EXCEPT !.at = at]]
      BY <2>2
    <2>6. at \in PruneAt
      OBVIOUS
    <2>. HIDE DEF at, PruneAt
    <2>4. prune[p].old \in [prune[p].ks -> SUBSET Index]
      BY <2>1 DEF IsTask
    <2>5. IsTask([prune[p] EXCEPT !.at = at])
      BY <2>1, <2>6, <2>4, TaskMoves
    <2>. QED BY <1>1, <2>3, <2>5
  <1>9. ASSUME NEW p \in Pruner, Rescore(p) \/ LogFailure(p) \/ PruneFails(p) PROVE PrunesType'
    <2>1. prune' = [prune EXCEPT ![p] = Idle] \/ prune' = [prune EXCEPT ![p] = Failed]
      BY <1>9 DEF Rescore, LogFailure, PruneFails, Prune
    <2>. QED BY <1>1, <2>1
  <1>10. ASSUME NEW p \in Pruner, CheckPayloads(p) PROVE PrunesType'
    <2>. DEFINE dead == {k \in prune[p].ks : payload[k] = None}
    <2>1. prune[p].at = "check"
      BY <1>10 DEF CheckPayloads
    <2>2. CASE dead = {}
      BY <1>6, <1>10, <2>1, <2>2 DEF CheckPayloads
    <2>3. CASE dead # {}
      <3>1. prune' = [prune EXCEPT ![p] = Task("values", prune[p].todo, prune[p].fallback, dead)]
        BY <1>10, <2>3 DEF CheckPayloads, Prune
      <3>2. dead \in SUBSET Key /\ prune[p].todo \in SUBSET Index /\ prune[p].fallback \in SUBSET Index
        BY <2>1, AtType
      <3>3. "values" \in PruneAt
        OBVIOUS
      <3>. HIDE DEF dead, PruneAt
      <3>4. IsTask(Task("values", prune[p].todo, prune[p].fallback, dead))
        BY <3>2, <3>3, TaskType
      <3>. QED BY <1>1, <3>1, <3>4
    <2>. QED BY <2>2, <2>3
  <1>11. ASSUME NEW p \in Pruner, ReadValues(p) PROVE PrunesType'
    <2>1. IsTask(prune[p]) /\ prune[p].ks \subseteq Key
      BY <1>11, AtType DEF ReadValues
    <2>. DEFINE old == [k \in prune[p].ks |-> idxv[k]]
    <2>2. prune' = [prune EXCEPT ![p] = [prune[p] EXCEPT !.at = "sets", !.old = old]]
      BY <1>11 DEF ReadValues, Prune
    <2>3. old \in [prune[p].ks -> SUBSET Index]
      BY <2>1 DEF TypeInv, SetsType
    <2>. HIDE DEF old
    <2>4. IsTask([prune[p] EXCEPT !.at = "sets", !.old = old])
      BY <2>1, <2>3, TaskReads
    <2>. QED BY <1>1, <2>2, <2>4
  <1>12. ASSUME NEW p \in Pruner, PruneMembers(p) PROVE PrunesType'
    <2>1. prune' = [prune EXCEPT ![p] = Task("hash", prune[p].todo, {}, prune[p].ks)]
      BY <1>12 DEF PruneMembers, Prune
    <2>2. IsTask(Task("hash", prune[p].todo, {}, prune[p].ks))
      BY <1>12, AtType, TaskType DEF PruneMembers
    <2>. QED BY <1>1, <2>1, <2>2
  <1>13. ASSUME NEW p \in Pruner, DropValues(p) PROVE PrunesType'
    <2>1. IsTask(prune[p]) /\ prune[p].old \in [prune[p].ks -> SUBSET Index]
      BY <1>13, AtType DEF DropValues
    <2>2. prune' = [prune EXCEPT ![p] = [prune[p] EXCEPT !.at = "dequeue"]]
      BY <1>13 DEF DropValues, Prune
    <2>4. "dequeue" \in PruneAt
      OBVIOUS
    <2>. HIDE DEF PruneAt
    <2>3. IsTask([prune[p] EXCEPT !.at = "dequeue"])
      BY <2>1, <2>4, TaskMoves
    <2>. QED BY <1>1, <2>2, <2>3
  <1>14. ASSUME prune' = prune PROVE PrunesType'
    BY <1>0, <1>14 DEF PrunesType, IsTask, Idle, Failed
  <1>. QED BY <1>2, <1>3, <1>4, <1>5, <1>7, <1>8, <1>9, <1>10, <1>11, <1>12, <1>13, <1>14, PruneSteps
           DEF Starts, PruneStep

LEMMA OneDueStep ==
    ASSUME TypeInv, [Next]_vars PROVE OneDue'
  <1>. USE DEF PruneAt
  <1>0. DOMAIN prune = Pruner /\ OneDue
    BY DEF TypeInv, PrunesType
  <1>1. ASSUME NEW p \in Pruner, NEW x, Prune(p, x),
               x.at = "pttl" => \A k, l \in x.ks : k = l
        PROVE  OneDue'
    BY <1>0, <1>1 DEF Prune, OneDue
  <1>2. ASSUME NEW at, NEW todo, NEW fallback, NEW ks
        PROVE  Task(at, todo, fallback, ks).at = at /\ Task(at, todo, fallback, ks).ks = ks
    BY DEF Task
  <1>3. ASSUME NEW p \in Pruner, Starts(p) PROVE OneDue'
    <2>1. CASE StartPrune(p)
      <3>1. PICK k \in queue : Prune(p, Task("pttl", {}, {}, {k}))
        BY <2>1 DEF StartPrune
      <3>2. \A a, b \in Task("pttl", {}, {}, {k}).ks : a = b
        BY <1>2
      <3>. QED BY <1>1, <3>1, <3>2
    <2>2. CASE StartQuery(p)
      <3>1. PICK fallback, ks : Prune(p, Task("check", {}, fallback, ks))
        BY <2>2 DEF StartQuery
      <3>2. Task("check", {}, fallback, ks).at = "check"
        BY <1>2
      <3>. QED BY <1>1, <3>1, <3>2
    <2>3. CASE StartSweep(p)
      <3>1. Task("scan", reg, {}, {}).at = "scan"
        BY <1>2
      <3>. QED BY <1>1, <2>3, <3>1 DEF StartSweep
    <2>. QED BY <1>3, <2>1, <2>2, <2>3 DEF Starts
  <1>4. ASSUME NEW p \in Pruner, Scan(p) PROVE OneDue'
    <2>1. PICK i \in prune[p].todo :
            Prune(p, Task(IF idx[i] = {} THEN "unregister" ELSE "check", prune[p].todo \ {i}, {i}, idx[i]))
      BY <1>4 DEF Scan
    <2>. DEFINE at == IF idx[i] = {} THEN "unregister" ELSE "check"
    <2>2. Task(at, prune[p].todo \ {i}, {i}, idx[i]).at = at
      BY <1>2
    <2>. QED BY <1>1, <2>1, <2>2
  <1>5. ASSUME NEW p \in Pruner, Continue(p) PROVE OneDue'
    <2>1. Task("scan", prune[p].todo, {}, {}).at = "scan"
      BY <1>2
    <2>. QED BY <1>1, <1>5, <2>1, IdleAt DEF Continue
  <1>6. ASSUME NEW p \in Pruner, Rescore(p) \/ LogFailure(p) \/ PruneFails(p) PROVE OneDue'
    BY <1>1, <1>6, IdleAt DEF Rescore, LogFailure, PruneFails
  <1>7. ASSUME NEW p \in Pruner, prune[p].at \in PruneAt, NEW at \in PruneAt \ {"pttl"},
               Prune(p, [prune[p] EXCEPT !.at = at])
        PROVE  OneDue'
    <2>1. IsTask(prune[p]) /\ prune[p].old \in [prune[p].ks -> SUBSET Index]
      BY <1>7, AtType
    <2>2. at \in PruneAt /\ at # "pttl"
      BY <1>7
    <2>. HIDE DEF PruneAt
    <2>3. [prune[p] EXCEPT !.at = at].at = at
      BY <2>1, <2>2, TaskMoves
    <2>. QED BY <1>1, <1>7, <2>2, <2>3
  <1>8. ASSUME NEW p \in Pruner, CheckDue(p) PROVE OneDue'
    <2>1. PICK k \in prune[p].ks :
            Prune(p, [prune[p] EXCEPT !.at = IF payload[k] = None THEN "values"
                                             ELSE IF k \in expiring THEN "alive" ELSE "persistent"])
      BY <1>8 DEF CheckDue
    <2>. DEFINE at == IF payload[k] = None THEN "values"
                      ELSE IF k \in expiring THEN "alive" ELSE "persistent"
    <2>2. at \in PruneAt \ {"pttl"} /\ prune[p].at \in PruneAt
      BY <1>8 DEF CheckDue
    <2>. HIDE DEF PruneAt
    <2>. QED BY <1>7, <2>1, <2>2
  <1>9. ASSUME NEW p \in Pruner, CheckPayloads(p) PROVE OneDue'
    <2>. DEFINE dead == {k \in prune[p].ks : payload[k] = None}
    <2>1. CASE Continue(p)
      BY <1>5, <2>1
    <2>2. CASE Prune(p, Task("values", prune[p].todo, prune[p].fallback, dead))
      <3>. HIDE DEF dead
      <3>1. Task("values", prune[p].todo, prune[p].fallback, dead).at = "values"
        BY <1>2
      <3>. QED BY <1>1, <2>2, <3>1
    <2>. QED BY <1>9, <2>1, <2>2 DEF CheckPayloads
  <1>10. ASSUME NEW p \in Pruner, ReadValues(p) PROVE OneDue'
    <2>1. IsTask(prune[p]) /\ prune[p].ks \subseteq Key
      BY <1>10, AtType DEF ReadValues
    <2>. DEFINE old == [k \in prune[p].ks |-> idxv[k]]
    <2>2. Prune(p, [prune[p] EXCEPT !.at = "sets", !.old = old])
      BY <1>10 DEF ReadValues
    <2>3. old \in [prune[p].ks -> SUBSET Index]
      BY <2>1 DEF TypeInv, SetsType
    <2>. HIDE DEF old
    <2>4. [prune[p] EXCEPT !.at = "sets", !.old = old].at = "sets"
      BY <2>1, <2>3, TaskReads
    <2>. QED BY <1>1, <2>2, <2>4
  <1>11. ASSUME NEW p \in Pruner, PruneMembers(p) PROVE OneDue'
    <2>1. Task("hash", prune[p].todo, {}, prune[p].ks).at = "hash"
      BY <1>2
    <2>. QED BY <1>1, <1>11, <2>1 DEF PruneMembers
  <1>12. ASSUME NEW p \in Pruner, DropValues(p) PROVE OneDue'
    <2>1. "dequeue" \in PruneAt \ {"pttl"} /\ prune[p].at \in PruneAt
      BY <1>12 DEF DropValues
    <2>. HIDE DEF PruneAt
    <2>. QED BY <1>7, <1>12, <2>1 DEF DropValues
  <1>13. ASSUME prune' = prune PROVE OneDue'
    BY <1>0, <1>13 DEF OneDue
  <1>. QED BY <1>3, <1>4, <1>5, <1>6, <1>8, <1>9, <1>10, <1>11, <1>12, <1>13, PruneSteps
           DEF PruneStep, Unregister, Dequeue

LEMMA SetsTypeStep ==
    ASSUME TypeInv, [Next]_vars PROVE SetsType'
  <1>. USE DEF TypeInv, SetsType
  <1>1. idx' \in [Index -> SUBSET Key]
    <2>1. ASSUME NEW u \in Updater, AddMember(u) PROVE idx' \in [Index -> SUBSET Key]
      <3>1. update[u] # Idle
        BY <2>1, AtSteps DEF AddMember, UpdateAt
      <3>2. update[u].k \in Key
        BY <3>1, StageType
      <3>. QED BY <2>1, <3>2 DEF AddMember
    <2>2. ASSUME NEW u \in Updater, RemoveOld(u) PROVE idx' \in [Index -> SUBSET Key]
      BY <2>2 DEF RemoveOld, Leave
    <2>3. ASSUME NEW p \in Pruner, PruneMembers(p) PROVE idx' \in [Index -> SUBSET Key]
      BY <2>3 DEF PruneMembers
    <2>4. ASSUME Lapse PROVE idx' \in [Index -> SUBSET Key]
      BY <2>4 DEF Lapse
    <2>. QED BY <2>1, <2>2, <2>3, <2>4, MemberSteps
  <1>2. idxv' \in [Key -> SUBSET Index]
    <2>1. ASSUME NEW u \in Updater, RemoveOld(u) PROVE idxv' \in [Key -> SUBSET Index]
      BY <2>1 DEF RemoveOld, Leave
    <2>2. ASSUME NEW u \in Updater, RecordValues(u) PROVE idxv' \in [Key -> SUBSET Index]
      <3>1. update[u] # Idle
        BY <2>2, AtSteps DEF RecordValues, UpdateAt
      <3>. QED BY <2>2, <3>1, StageType DEF RecordValues
    <2>3. ASSUME NEW p \in Pruner, DropValues(p) PROVE idxv' \in [Key -> SUBSET Index]
      BY <2>3 DEF DropValues
    <2>4. ASSUME Lapse PROVE idxv' \in [Key -> SUBSET Index]
      BY <2>4 DEF Lapse
    <2>. QED BY <2>1, <2>2, <2>3, <2>4, RecordSteps
  <1>3. reg' \subseteq Index
    <2>1. ASSUME NEW u \in Updater, AddMember(u) PROVE reg' \subseteq Index
      <3>1. update[u] # Idle
        BY <2>1, AtSteps DEF AddMember, UpdateAt
      <3>. QED BY <2>1, <3>1, StageType DEF AddMember
    <2>2. ASSUME NEW p \in Pruner, Unregister(p) \/ Register(p) PROVE reg' \subseteq Index
      BY <2>2 DEF Unregister, Register
    <2>3. ASSUME Lapse PROVE reg' \subseteq Index
      BY <2>3 DEF Lapse
    <2>. QED BY <2>1, <2>2, <2>3, RegistrySteps
  <1>4. queue' \subseteq Key
    <2>1. ASSUME NEW u \in Updater, Enqueue(u) PROVE queue' \subseteq Key
      <3>1. update[u] # Idle
        BY <2>1, AtSteps DEF Enqueue, UpdateAt
      <3>. QED BY <2>1, <3>1, StageType DEF Enqueue
    <2>2. CASE Commits
      BY <2>2 DEF Commits, CommitFlushed, DeadLetter, RefreshHotTTL, QueueIfIndexed, index
    <2>3. ASSUME NEW p \in Pruner, Rescore(p) PROVE queue' \subseteq Key
      <3>1. prune[p].at \in PruneAt
        BY <2>3 DEF Rescore, PruneAt
      <3>2. prune[p].ks \subseteq Key
        BY <3>1, AtType
      <3>. QED BY <2>3, <3>2 DEF Rescore
    <2>4. ASSUME NEW p \in Pruner, Dequeue(p) PROVE queue' \subseteq Key
      BY <2>4 DEF Dequeue
    <2>. QED BY <2>1, <2>2, <2>3, <2>4, QueueSteps
  <1>5. left' \in [Key -> SUBSET Index]
    <2>1. ASSUME NEW u \in Updater, RemoveOld(u) PROVE left' \in [Key -> SUBSET Index]
      <3>1. update[u] # Idle
        BY <2>1, AtSteps DEF RemoveOld, Leave, UpdateAt
      <3>. QED BY <2>1, <3>1, StageType DEF RemoveOld, Leave
    <2>. QED BY <2>1, LeftSteps
  <1>. QED BY <1>1, <1>2, <1>3, <1>4, <1>5

LEMMA TypeInvariant == Spec => []TypeInv
  <1>1. TypeInv /\ [Next]_vars => TypeInv'
    BY JournalTypeStep, SetsTypeStep, UpdatesTypeStep, PrunesTypeStep, OneDueStep DEF TypeInv
  <1>. QED BY InitType, <1>1, PTL DEF Spec

\* An index holds keys and a record holds index keys, and no step of an update or of a
\* prune, cut off where it may be, leaves anything else behind; what has a TTL has a
\* payload.
THEOREM IndexTypeCorrect == Spec => []IndexTypeOK
  <1>1. TypeInv => IndexTypeOK
    <2>. SUFFICES ASSUME TypeInv PROVE IndexTypeOK
      OBVIOUS
    <2>1. \A u \in Updater : update[u] = Idle \/
            update[u] \in [at : {"read", "add", "remove", "record", "enqueue"}, k : Key,
                           fields : Content \ {{}}, old : SUBSET Index]
      BY DEF TypeInv, UpdatesType, UpdateType, UpdateRecord, UpdateAt
    <2>2. \A p \in Pruner : prune[p] \in {Idle, Failed} \/
            /\ prune[p].todo \subseteq Index /\ prune[p].fallback \subseteq Index
            /\ prune[p].old \in [prune[p].ks -> SUBSET Index] /\ prune[p].ks \subseteq Key
      BY DEF TypeInv, PrunesType, IsTask, TaskRecord
    <2>. QED BY <2>1, <2>2 DEF IndexTypeOK, TypeInv, JournalType, SetsType
  <1>. QED BY <1>1, TypeInvariant, PTL

-----------------------------------------------------------------------------
(* The steps of the system, by what they do to one key.                    *)

\* The goroutine of an update goes from one stage to another.
Moves(u, here, next) ==
    /\ update[u].at = here /\ update'[u].at = next /\ update'[u] # Idle
    /\ update'[u].k = update[u].k /\ update'[u].fields = update[u].fields

LEMMA StageSteps ==
    ASSUME TypeInv, [Next]_vars, NEW u \in Updater, NEW d \in Key, On(u, d)
    PROVE  \/ update'[u] = update[u]
           \/ ReadOldValues(u) /\ Moves(u, "read", "add") /\ update'[u].old = idxv[d]
           \/ AddMember(u) /\ Moves(u, "add", "remove") /\ update'[u].old = update[u].old
           \/ RemoveOld(u) /\ Moves(u, "remove", "record")
           \/ RecordValues(u) /\ Moves(u, "record", "enqueue")
           \/ Enqueue(u) /\ update[u].at = "enqueue" /\ update'[u] = Idle
           \/ history'[d] = "raced" /\ update'[u] = Idle
  <1>. USE DEF UpdateAt
  <1>1. DOMAIN update = Updater /\ update[u].k = d /\ update[u] # Idle
    BY StageType DEF On
  <1>2. ASSUME NEW v \in Updater, v # u,
               \/ Begins(v) \/ ReadOldValues(v) \/ AddMember(v) \/ RemoveOld(v) \/ RecordValues(v)
               \/ Enqueue(v) \/ UpdateFails(v)
        PROVE  update'[u] = update[u]
    <2>1. CASE Begins(v)
      BY <1>1, <1>2, <2>1 DEF Begins, BeginUpdate
    <2>2. CASE ReadOldValues(v)
      BY <1>2, <2>2, ReadSteps
    <2>3. CASE AddMember(v)
      BY <1>2, <2>3, AtSteps DEF AddMember
    <2>4. CASE RemoveOld(v)
      BY <1>2, <2>4, AtSteps DEF RemoveOld, Leave
    <2>5. CASE RecordValues(v)
      BY <1>2, <2>5, AtSteps DEF RecordValues
    <2>6. CASE Enqueue(v)
      BY <1>2, <2>6, AtSteps DEF Enqueue
    <2>7. CASE UpdateFails(v)
      BY <1>1, <1>2, <2>7 DEF UpdateFails
    <2>. QED BY <1>2, <2>1, <2>2, <2>3, <2>4, <2>5, <2>6, <2>7
  <1>3. ASSUME Begins(u) PROVE FALSE
    BY <1>1, <1>3 DEF Begins, BeginUpdate
  <1>4. ASSUME ReadOldValues(u) PROVE Moves(u, "read", "add") /\ update'[u].old = idxv[d]
    BY <1>1, <1>4, ReadSteps DEF Moves
  <1>5. ASSUME AddMember(u) PROVE Moves(u, "add", "remove") /\ update'[u].old = update[u].old
    BY <1>5, AtSteps DEF Moves, AddMember
  <1>6. ASSUME RemoveOld(u) PROVE Moves(u, "remove", "record")
    BY <1>6, AtSteps DEF Moves, RemoveOld, Leave
  <1>7. ASSUME RecordValues(u) PROVE Moves(u, "record", "enqueue")
    BY <1>7, AtSteps DEF Moves, RecordValues
  <1>8. ASSUME Enqueue(u) PROVE update[u].at = "enqueue" /\ update'[u] = Idle
    BY <1>8, AtSteps DEF Enqueue
  <1>9. ASSUME UpdateFails(u) PROVE history'[d] = "raced" /\ update'[u] = Idle
    BY <1>1, <1>9 DEF UpdateFails, Raced
  <1>. QED BY <1>2, <1>3, <1>4, <1>5, <1>6, <1>7, <1>8, <1>9, UpdateSteps

\* A goroutine updates a key since before the step, or begins to.
LEMMA OnSteps ==
    ASSUME TypeInv, [Next]_vars, NEW u \in Updater, NEW d \in Key, On(u, d)'
    PROVE  \/ On(u, d) /\ update'[u].fields = update[u].fields
           \/ \E f \in Content \ {{}} :
                /\ BeginUpdate(u, d, f)
                /\ update'[u] = [at |-> "read", k |-> d, fields |-> f, old |-> {}]
  <1>. USE DEF UpdateAt
  <1>1. update'[u] # Idle /\ update'[u].k = d
    BY DEF On
  <1>2. DOMAIN update = Updater
    BY DEF TypeInv, UpdatesType
  <1>3. CASE update[u] # Idle
    <2>1. update[u].k \in Key
      BY <1>3, StageType
    <2>2. On(u, update[u].k)
      BY <1>3 DEF On
    <2>3. update'[u].k = update[u].k /\ update'[u].fields = update[u].fields
      BY <1>1, <2>1, <2>2, StageSteps DEF Moves
    <2>. QED BY <1>1, <1>3, <2>3 DEF On
  <1>4. CASE update[u] = Idle
    <2>1. ASSUME NEW v \in Updater, v # u, update'[u] # update[u], Begins(v) PROVE FALSE
      BY <1>2, <2>1 DEF Begins, BeginUpdate
    <2>2. ASSUME NEW v \in Updater,
                 \/ ReadOldValues(v) \/ AddMember(v) \/ RemoveOld(v) \/ RecordValues(v)
                 \/ Enqueue(v) \/ UpdateFails(v)
          PROVE  update'[u] = update[u]
      <3>1. CASE ReadOldValues(v)
        BY <1>4, <3>1, ReadSteps
      <3>2. CASE AddMember(v)
        BY <1>4, <3>2, AtSteps DEF AddMember
      <3>3. CASE RemoveOld(v)
        BY <1>4, <3>3, AtSteps DEF RemoveOld, Leave
      <3>4. CASE RecordValues(v)
        BY <1>4, <3>4, AtSteps DEF RecordValues
      <3>5. CASE Enqueue(v)
        BY <1>4, <3>5, AtSteps DEF Enqueue
      <3>6. CASE UpdateFails(v)
        BY <1>2, <1>4, <3>6 DEF UpdateFails
      <3>. QED BY <2>2, <3>1, <3>2, <3>3, <3>4, <3>5, <3>6
    <2>3. Begins(u)
      BY <1>1, <1>4, <2>1, <2>2, UpdateSteps
    <2>4. PICK k \in Key, f \in Content : BeginUpdate(u, k, f)
      BY <2>3 DEF Begins
    <2>5. f # {} /\ update'[u] = [at |-> "read", k |-> k, fields |-> f, old |-> {}]
      BY <1>1, <1>2, <1>4, <2>4 DEF BeginUpdate
    <2>6. k = d
      BY <1>1, <2>5
    <2>. QED BY <2>4, <2>5, <2>6
  <1>. QED BY <1>3, <1>4

\* What an update that begins on a key does, when nothing is raced.
LEMMA BeginSteps ==
    ASSUME TypeInv, NEW u \in Updater, NEW d \in Key, NEW f \in Content, BeginUpdate(u, d, f),
           history'[d] # "raced"
    PROVE  /\ ~Updated(d) /\ ~Pruned(d) /\ ~Pruned(d)'
           /\ payload'[d] = f /\ UNCHANGED <<index, prune, missed>>
           /\ f = {} => update' = update /\ ~Updated(d)'
           /\ f # {} => /\ update' = [update EXCEPT ![u] = [at |-> "read", k |-> d, fields |-> f, old |-> {}]]
                        /\ \A v \in Updater : On(v, d)' => v = u
  <1>1. ~Updated(d) /\ ~Pruned(d)
    BY DEF BeginUpdate, TypeInv, JournalType
  <1>2. UNCHANGED <<index, prune, missed>>
    BY DEF BeginUpdate
  <1>3. ~Pruned(d)'
    BY <1>1, <1>2 DEF Pruned
  <1>4. payload'[d] = f
    BY DEF BeginUpdate, TypeInv, JournalType
  <1>5. ASSUME f = {} PROVE update' = update /\ ~Updated(d)'
    BY <1>1, <1>5 DEF BeginUpdate, Updated
  <1>6. ASSUME f # {}
        PROVE  /\ update' = [update EXCEPT ![u] = [at |-> "read", k |-> d, fields |-> f, old |-> {}]]
               /\ \A v \in Updater : On(v, d)' => v = u
    <2>1. update' = [update EXCEPT ![u] = [at |-> "read", k |-> d, fields |-> f, old |-> {}]]
      BY <1>6 DEF BeginUpdate
    <2>2. DOMAIN update = Updater
      BY DEF TypeInv, UpdatesType
    <2>3. ASSUME NEW v \in Updater, v # u, On(v, d)' PROVE FALSE
      BY <1>1, <2>1, <2>2, <2>3 DEF On, Updated
    <2>. QED BY <2>1, <2>3
  <1>. QED BY <1>1, <1>2, <1>3, <1>4, <1>5, <1>6

Start(d) == \E u \in Updater, f \in Content : BeginUpdate(u, d, f)

LEMMA KeyHistory ==
    ASSUME TypeInv, [Next]_vars, NEW d \in Key, history'[d] # "raced"
    PROVE  /\ history'[d] = "exact" => history[d] = "exact"
           /\ history[d] # "raced" \/ Start(d)
  <1>. USE DEF TypeInv, JournalType
  <1>1. CASE history' = history
    BY <1>1
  <1>2. ASSUME NEW u \in Updater, Begins(u)
        PROVE  /\ history'[d] = "exact" => history[d] = "exact"
               /\ history[d] # "raced" \/ Start(d)
    <2>1. PICK k \in Key, f \in Content : BeginUpdate(u, k, f)
      BY <1>2 DEF Begins
    <2>2. CASE k = d
      BY <2>1, <2>2 DEF BeginUpdate, Start
    <2>3. CASE k # d
      BY <2>1, <2>3 DEF BeginUpdate
    <2>. QED BY <2>2, <2>3
  <1>3. ASSUME NEW ks, Raced(ks)
        PROVE  history[d] = history'[d]
    BY <1>3 DEF Raced
  <1>4. CASE Lapse
    BY <1>4, <1>3 DEF Lapse
  <1>. QED BY <1>1, <1>2, <1>3, <1>4, HistorySteps DEF UpdateFails, CheckDue, CheckPayloads

LEMMA KeyPayload ==
    ASSUME TypeInv, [Next]_vars, NEW d \in Key, ~Start(d)
    PROVE  payload'[d] \in {payload[d], None}
  <1>. USE DEF TypeInv, JournalType, journal
  <1>1. ASSUME NEW u \in Updater, Write(u) \/ Hydrate(u) PROVE payload'[d] = payload[d]
    <2>1. PICK k \in Key, f \in Content : BeginUpdate(u, k, f)
      BY <1>1 DEF Write, Hydrate
    <2>2. k # d
      BY <2>1 DEF Start
    <2>. QED BY <2>1, <2>2 DEF BeginUpdate
  <1>2. ASSUME NEW k \in Key, Expire(k) PROVE payload'[d] \in {payload[d], None}
    BY <1>2 DEF Expire
  <1>. QED BY <1>1, <1>2, JournalSteps

LEMMA MemberJoins ==
    ASSUME TypeInv, [Next]_vars, NEW d \in Key, NEW i \in Index, d \in idx'[i], d \notin idx[i]
    PROVE  \E u \in Updater : AddMember(u) /\ On(u, d) /\ i \in update[u].fields
  <1>. USE DEF TypeInv, SetsType
  <1>1. ASSUME NEW u \in Updater, AddMember(u)
        PROVE  On(u, d) /\ i \in update[u].fields
    <2>1. update[u] # Idle
      BY <1>1, AtSteps DEF AddMember, UpdateAt
    <2>. QED BY <1>1, <2>1 DEF AddMember, On
  <1>2. ASSUME NEW u \in Updater, RemoveOld(u) PROVE FALSE
    BY <1>2 DEF RemoveOld, Leave
  <1>3. ASSUME NEW p \in Pruner, PruneMembers(p) PROVE FALSE
    BY <1>3 DEF PruneMembers
  <1>4. ASSUME Lapse PROVE FALSE
    BY <1>4 DEF Lapse
  <1>. QED BY <1>1, <1>2, <1>3, <1>4, MemberSteps

LEMMA MemberLeaves ==
    ASSUME TypeInv, [Next]_vars, NEW d \in Key, NEW i \in Index, d \in idx[i], d \notin idx'[i]
    PROVE  \/ \E u \in Updater : RemoveOld(u) /\ On(u, d) /\ i \notin update[u].fields
           \/ Pruned(d)
           \/ history'[d] = "raced"
  <1>. USE DEF TypeInv, SetsType
  <1>1. ASSUME NEW u \in Updater, AddMember(u) PROVE FALSE
    BY <1>1 DEF AddMember
  <1>2. ASSUME NEW u \in Updater, RemoveOld(u)
        PROVE  On(u, d) /\ i \notin update[u].fields
    <2>1. update[u] # Idle
      BY <1>2, AtSteps DEF RemoveOld, Leave, UpdateAt
    <2>. QED BY <1>2, <2>1 DEF RemoveOld, Leave, Removed, On
  <1>3. ASSUME NEW p \in Pruner, PruneMembers(p) PROVE Pruned(d)
    BY <1>3 DEF PruneMembers, Pruned
  <1>4. ASSUME Lapse PROVE history'[d] = "raced"
    BY <1>4 DEF Lapse, Raced
  <1>. QED BY <1>1, <1>2, <1>3, <1>4, MemberSteps

LEMMA KeyLeft ==
    ASSUME TypeInv, [Next]_vars, NEW d \in Key, ~\E u \in Updater : On(u, d) /\ RemoveOld(u)
    PROVE  left'[d] = left[d]
  <1>1. ASSUME NEW u \in Updater, RemoveOld(u) PROVE left'[d] = left[d]
    <2>1. update[u] # Idle
      BY <1>1, AtSteps DEF RemoveOld, Leave, UpdateAt
    <2>2. update[u].k # d
      BY <1>1, <2>1 DEF On
    <2>. QED BY <1>1, <2>2 DEF RemoveOld, Leave, TypeInv, SetsType
  <1>. QED BY <1>1, LeftSteps

LEMMA KeyRecord ==
    ASSUME TypeInv, [Next]_vars, NEW d \in Key, history'[d] = "exact"
    PROVE  \/ idxv'[d] = idxv[d]
           \/ \E u \in Updater : On(u, d) /\ RemoveOld(u)
           \/ \E u \in Updater : On(u, d) /\ RecordValues(u) /\ idxv'[d] = update[u].fields
           \/ \E p \in Pruner : Prunes(p, d, {"hash"}) /\ DropValues(p)
  <1>. USE DEF TypeInv, SetsType
  <1>1. ASSUME NEW u \in Updater, RemoveOld(u) PROVE idxv'[d] = idxv[d] \/ On(u, d)
    <2>1. update[u] # Idle
      BY <1>1, AtSteps DEF RemoveOld, Leave, UpdateAt
    <2>. QED BY <1>1, <2>1 DEF RemoveOld, Leave, On
  <1>2. ASSUME NEW u \in Updater, RecordValues(u)
        PROVE  idxv'[d] = idxv[d] \/ (On(u, d) /\ idxv'[d] = update[u].fields)
    <2>1. update[u] # Idle
      BY <1>2, AtSteps DEF RecordValues, UpdateAt
    <2>. QED BY <1>2, <2>1 DEF RecordValues, On
  <1>3. ASSUME NEW p \in Pruner, DropValues(p) PROVE idxv'[d] = idxv[d] \/ Prunes(p, d, {"hash"})
    BY <1>3 DEF DropValues, Prunes
  <1>4. ASSUME Lapse PROVE idxv'[d] = idxv[d]
    <2>1. ASSUME NEW k \in Key, idxv' = [idxv EXCEPT ![k] = {}],
                 history' = [history EXCEPT ![k] = IF @ = "exact" THEN "complete" ELSE @]
          PROVE  idxv'[d] = idxv[d]
      BY <2>1 DEF JournalType
    <2>. QED BY <1>4, <2>1 DEF Lapse
  <1>. QED BY <1>1, <1>2, <1>3, <1>4, RecordSteps

DeepAt == {"values", "sets", "hash", "dequeue"}

\* A prune that has found a key dead found it so before the step, or does.
LEMMA DeepSteps ==
    ASSUME TypeInv, [Next]_vars, NEW p \in Pruner, NEW d \in Key,
           prune'[p].at \in DeepAt, d \in prune'[p].ks
    PROVE  \/ prune'[p] = prune[p]
           \/ /\ prune'[p].at = "values" /\ payload[d] = None
              /\ UNCHANGED <<journal, index, update>>
              /\ Updated(d) => history'[d] = "raced"
           \/ /\ ReadValues(p) /\ Prunes(p, d, {"values"})
              /\ prune'[p].at = "sets" /\ prune'[p].old[d] = idxv[d]
           \/ PruneMembers(p) /\ Prunes(p, d, {"sets"}) /\ prune'[p].at = "hash"
           \/ DropValues(p) /\ Prunes(p, d, {"hash"}) /\ prune'[p].at = "dequeue"
  <1>. USE DEF DeepAt, PruneAt
  <1>0. DOMAIN prune = Pruner
    BY DEF TypeInv, PrunesType
  <1>1. ASSUME NEW q \in Pruner, q # p, Starts(q) \/ PruneStep(q) \/ PruneFails(q)
        PROVE  prune'[p] = prune[p]
    <2>1. ASSUME NEW x, Prune(q, x) PROVE prune'[p] = prune[p]
      BY <1>0, <1>1, <2>1 DEF Prune
    <2>2. CASE Starts(q)
      BY <2>1, <2>2 DEF Starts, StartPrune, StartQuery, StartSweep
    <2>3. CASE PruneStep(q)
      BY <2>1, <2>3 DEF PruneStep, Scan, Unregister, CheckDue, Rescore, CheckPayloads, ReadValues,
                        PruneMembers, DropValues, Dequeue, LogFailure, Continue
    <2>4. CASE PruneFails(q)
      BY <2>1, <2>4 DEF PruneFails
    <2>. QED BY <1>1, <2>2, <2>3, <2>4
  <1>2. ASSUME NEW x, Prune(p, x) PROVE prune'[p] = x
    BY <1>0, <1>2 DEF Prune
  <1>3. ASSUME NEW at, NEW todo, NEW fallback, NEW ks, Prune(p, Task(at, todo, fallback, ks))
        PROVE  at \in DeepAt /\ prune'[p].at = at /\ prune'[p].ks = ks
    BY <1>2, <1>3 DEF Task
  <1>4. ASSUME Starts(p) \/ Scan(p) \/ Continue(p) PROVE FALSE
    <2>1. CASE StartPrune(p)
      BY <1>3, <2>1 DEF StartPrune
    <2>2. CASE StartQuery(p)
      BY <1>3, <2>2 DEF StartQuery
    <2>3. CASE StartSweep(p)
      BY <1>3, <2>3 DEF StartSweep
    <2>4. CASE Scan(p)
      BY <1>3, <2>4 DEF Scan
    <2>5. CASE Continue(p)
      BY <1>2, <1>3, <2>5, IdleAt DEF Continue
    <2>. QED BY <1>4, <2>1, <2>2, <2>3, <2>4, <2>5 DEF Starts
  <1>5. ASSUME Rescore(p) \/ LogFailure(p) \/ PruneFails(p) PROVE FALSE
    BY <1>2, <1>5, IdleAt DEF Rescore, LogFailure, PruneFails
  <1>6. ASSUME CheckDue(p)
        PROVE  /\ prune'[p].at = "values" /\ payload[d] = None
               /\ UNCHANGED <<journal, index, update>>
               /\ Updated(d) => history'[d] = "raced"
    <2>1. IsTask(prune[p]) /\ prune[p].old \in [prune[p].ks -> SUBSET Index]
      BY <1>6, AtType DEF CheckDue
    <2>2. PICK k \in prune[p].ks :
            /\ Prune(p, [prune[p] EXCEPT !.at = IF payload[k] = None THEN "values"
                                                ELSE IF k \in expiring THEN "alive" ELSE "persistent"])
            /\ Raced({k} \cap {e \in Key : payload[e] = None /\ Updated(e)})
      BY <1>6 DEF CheckDue
    <2>. DEFINE at == IF payload[k] = None THEN "values"
                      ELSE IF k \in expiring THEN "alive" ELSE "persistent"
    <2>3. prune'[p] = [prune[p] EXCEPT !.at = at]
      BY <1>2, <2>2
    <2>4. at \in PruneAt
      OBVIOUS
    <2>. HIDE DEF at, PruneAt
    <2>5. prune'[p].at = at /\ prune'[p].ks = prune[p].ks
      BY <2>1, <2>3, <2>4, TaskMoves
    <2>6. at = "values" /\ payload[k] = None
      BY <2>5 DEF at
    <2>7. k = d
      BY <1>6, <2>5 DEF CheckDue, TypeInv, OneDue
    <2>8. Updated(d) => history'[d] = "raced"
      BY <2>2, <2>6, <2>7 DEF Raced
    <2>. QED BY <1>6, <2>5, <2>6, <2>7, <2>8 DEF CheckDue
  <1>7. ASSUME CheckPayloads(p)
        PROVE  /\ prune'[p].at = "values" /\ payload[d] = None
               /\ UNCHANGED <<journal, index, update>>
               /\ Updated(d) => history'[d] = "raced"
    <2>. DEFINE dead == {k \in prune[p].ks : payload[k] = None}
    <2>1. Prune(p, Task("values", prune[p].todo, prune[p].fallback, dead))
      BY <1>4, <1>7 DEF CheckPayloads
    <2>2. prune'[p].at = "values" /\ prune'[p].ks = dead
      BY <1>3, <2>1
    <2>3. payload[d] = None
      BY <2>2
    <2>4. Updated(d) => history'[d] = "raced"
      BY <1>7, <2>2 DEF CheckPayloads, Raced
    <2>. QED BY <1>7, <2>2, <2>3, <2>4 DEF CheckPayloads
  <1>8. ASSUME ReadValues(p)
        PROVE  Prunes(p, d, {"values"}) /\ prune'[p].at = "sets" /\ prune'[p].old[d] = idxv[d]
    <2>1. IsTask(prune[p]) /\ prune[p].ks \subseteq Key
      BY <1>8, AtType DEF ReadValues
    <2>. DEFINE old == [k \in prune[p].ks |-> idxv[k]]
    <2>2. prune'[p] = [prune[p] EXCEPT !.at = "sets", !.old = old]
      BY <1>2, <1>8 DEF ReadValues
    <2>3. old \in [prune[p].ks -> SUBSET Index]
      BY <2>1 DEF TypeInv, SetsType
    <2>. HIDE DEF old
    <2>4. prune'[p].at = "sets" /\ prune'[p].ks = prune[p].ks /\ prune'[p].old = old
      <3>1. /\ [prune[p] EXCEPT !.at = "sets", !.old = old].at = "sets"
            /\ [prune[p] EXCEPT !.at = "sets", !.old = old].ks = prune[p].ks
            /\ [prune[p] EXCEPT !.at = "sets", !.old = old].old = old
        BY <2>1, <2>3, TaskReads
      <3>. QED BY <2>2, <3>1
    <2>. QED BY <1>8, <2>4 DEF old, ReadValues, Prunes
  <1>9. ASSUME PruneMembers(p) PROVE Prunes(p, d, {"sets"}) /\ prune'[p].at = "hash"
    <2>1. prune'[p].at = "hash" /\ prune'[p].ks = prune[p].ks
      BY <1>3, <1>9 DEF PruneMembers
    <2>. QED BY <1>9, <2>1 DEF PruneMembers, Prunes
  <1>10. ASSUME DropValues(p) PROVE Prunes(p, d, {"hash"}) /\ prune'[p].at = "dequeue"
    <2>1. IsTask(prune[p]) /\ prune[p].old \in [prune[p].ks -> SUBSET Index]
      BY <1>10, AtType DEF DropValues
    <2>2. prune'[p] = [prune[p] EXCEPT !.at = "dequeue"]
      BY <1>2, <1>10 DEF DropValues
    <2>4. "dequeue" \in PruneAt
      OBVIOUS
    <2>. HIDE DEF PruneAt
    <2>3. prune'[p].at = "dequeue" /\ prune'[p].ks = prune[p].ks
      BY <2>1, <2>2, <2>4, TaskMoves
    <2>. QED BY <1>10, <2>3 DEF DropValues, Prunes
  <1>. QED BY <1>1, <1>4, <1>5, <1>6, <1>7, <1>8, <1>9, <1>10, PruneSteps
           DEF PruneStep, Unregister, Dequeue

LEMMA PrunedSteps ==
    ASSUME TypeInv, [Next]_vars, NEW d \in Key, Pruned(d)', history'[d] # "raced"
    PROVE  \/ Pruned(d)
           \/ ~Updated(d) /\ ~Updated(d)' /\ payload'[d] = None
  <1>1. PICK p \in Pruner : prune'[p].at \in DeepAt /\ d \in prune'[p].ks
    BY DEF Pruned, DeepAt
  <1>2. CASE prune'[p] = prune[p]
    BY <1>1, <1>2 DEF Pruned, DeepAt
  <1>3. CASE UNCHANGED <<journal, index, update>> /\ payload[d] = None /\ ~Updated(d)
    BY <1>3 DEF journal, Updated
  <1>4. CASE Prunes(p, d, {"values"}) \/ Prunes(p, d, {"sets"}) \/ Prunes(p, d, {"hash"})
    BY <1>4 DEF Prunes, Pruned
  <1>. QED BY <1>1, <1>2, <1>3, <1>4, DeepSteps

\* A step in which no update of the key begins.
LEMMA KeyStays ==
    ASSUME TypeInv, [Next]_vars, NEW d \in Key, history'[d] # "raced", ~Start(d)
    PROVE  /\ history[d] # "raced"
           /\ history'[d] = "exact" => history[d] = "exact"
           /\ payload'[d] \in {payload[d], None}
           /\ \A u \in Updater : On(u, d)' => On(u, d) /\ update'[u].fields = update[u].fields
           /\ Updated(d)' => Updated(d)
  <1>1. \A u \in Updater : On(u, d)' => On(u, d) /\ update'[u].fields = update[u].fields
    BY OnSteps DEF Start
  <1>2. Updated(d)' => Updated(d)
    BY <1>1 DEF Updated, On
  <1>. QED BY <1>1, <1>2, KeyHistory, KeyPayload

LEMMA AloneStep ==
    ASSUME TypeInv, [Next]_vars, NEW d \in Key, Alone(d) PROVE Alone(d)'
  <1>. SUFFICES ASSUME history'[d] # "raced"
                PROVE  /\ \A u, v \in Updater : On(u, d)' /\ On(v, d)' => u = v
                       /\ Pruned(d)' => ~Updated(d)' /\ payload'[d] = None
                       /\ \A u \in Updater : On(u, d)' => payload'[d] \in {None, update'[u].fields}
    BY DEF Alone
  <1>1. ASSUME NEW w \in Updater, NEW f \in Content, BeginUpdate(w, d, f)
        PROVE  /\ \A u, v \in Updater : On(u, d)' /\ On(v, d)' => u = v
               /\ Pruned(d)' => ~Updated(d)' /\ payload'[d] = None
               /\ \A u \in Updater : On(u, d)' => payload'[d] \in {None, update'[u].fields}
    <2>1. CASE f = {}
      <3>1. ~Updated(d)' /\ ~Pruned(d)'
        BY <1>1, <2>1, BeginSteps
      <3>2. \A u \in Updater : ~On(u, d)'
        BY <3>1 DEF Updated, On
      <3>. QED BY <3>1, <3>2
    <2>2. CASE f # {}
      <3>1. /\ ~Pruned(d)' /\ payload'[d] = f
            /\ update' = [update EXCEPT ![w] = [at |-> "read", k |-> d, fields |-> f, old |-> {}]]
            /\ \A v \in Updater : On(v, d)' => v = w
        BY <1>1, <2>2, BeginSteps
      <3>2. update'[w] = [at |-> "read", k |-> d, fields |-> f, old |-> {}]
        BY <3>1 DEF TypeInv, UpdatesType
      <3>3. update'[w].fields = f
        BY <3>2
      <3>. QED BY <3>1, <3>3
    <2>. QED BY <2>1, <2>2
  <1>2. ASSUME ~Start(d)
        PROVE  /\ \A u, v \in Updater : On(u, d)' /\ On(v, d)' => u = v
               /\ Pruned(d)' => ~Updated(d)' /\ payload'[d] = None
               /\ \A u \in Updater : On(u, d)' => payload'[d] \in {None, update'[u].fields}
    <2>1. /\ \A u, v \in Updater : On(u, d) /\ On(v, d) => u = v
          /\ Pruned(d) => ~Updated(d) /\ payload[d] = None
          /\ \A u \in Updater : On(u, d) => payload[d] \in {None, update[u].fields}
      BY <1>2, KeyStays DEF Alone
    <2>2. Pruned(d)' => ~Updated(d)' /\ payload'[d] = None
      BY <1>2, <2>1, KeyStays, PrunedSteps
    <2>. QED BY <1>2, <2>1, <2>2, KeyStays
  <1>. QED BY <1>1, <1>2 DEF Start

LEMMA FoundStep ==
    ASSUME TypeInv, [Next]_vars, NEW d \in Key, Alone(d), Found(d) PROVE Found(d)'
  <1>. USE DEF UpdateAt
  <1>. SUFFICES ASSUME history'[d] # "raced"
                PROVE  /\ \A u \in Updater :
                             On(u, d)' /\ update'[u].at \in {"remove", "record", "enqueue"} =>
                               \A i \in update'[u].fields : d \in idx'[i]
                       /\ payload'[d] \notin {None, {}} /\ ~Updated(d)' =>
                            \A i \in payload'[d] : d \in idx'[i]
    BY DEF Found, Indexed
  <1>1. ASSUME NEW w \in Updater, NEW f \in Content, BeginUpdate(w, d, f)
        PROVE  /\ \A u \in Updater :
                     ~(On(u, d)' /\ update'[u].at \in {"remove", "record", "enqueue"})
               /\ payload'[d] \in {None, {}} \/ Updated(d)'
    <2>1. CASE f = {}
      <3>1. ~Updated(d)' /\ payload'[d] = {}
        BY <1>1, <2>1, BeginSteps
      <3>2. \A u \in Updater : ~On(u, d)'
        BY <3>1 DEF Updated, On
      <3>. QED BY <3>1, <3>2
    <2>2. CASE f # {}
      <3>1. /\ update' = [update EXCEPT ![w] = [at |-> "read", k |-> d, fields |-> f, old |-> {}]]
            /\ \A v \in Updater : On(v, d)' => v = w
        BY <1>1, <2>2, BeginSteps
      <3>2. update'[w] = [at |-> "read", k |-> d, fields |-> f, old |-> {}]
        BY <3>1 DEF TypeInv, UpdatesType
      <3>3. update'[w].at = "read" /\ update'[w].k = d
        BY <3>2
      <3>4. update'[w] # Idle
        BY <3>3, IdleAt
      <3>. QED BY <3>1, <3>3, <3>4 DEF Updated
    <2>. QED BY <2>1, <2>2
  <1>2. ASSUME ~Start(d), NEW u \in Updater, On(u, d)',
               update'[u].at \in {"remove", "record", "enqueue"},
               NEW i \in update'[u].fields
        PROVE  d \in idx'[i]
    <2>1. On(u, d) /\ update'[u].fields = update[u].fields /\ history[d] # "raced"
      BY <1>2, KeyStays
    <2>2. i \in Index /\ update[u] # Idle
      BY <1>2, <2>1, StageType DEF On
    <2>3. CASE AddMember(u)
      BY <1>2, <2>1, <2>2, <2>3 DEF AddMember, On, TypeInv, SetsType
    <2>4. CASE ~AddMember(u)
      <3>1. update[u].at \in {"remove", "record", "enqueue"}
        BY <1>2, <2>1, <2>4, StageSteps, IdleAt DEF Moves
      <3>2. d \in idx[i]
        BY <1>2, <2>1, <3>1 DEF Found
      <3>3. ~Pruned(d)
        BY <2>1 DEF Alone, Updated, On
      <3>4. \A v \in Updater : On(v, d) => v = u
        BY <2>1 DEF Alone
      <3>. QED BY <1>2, <2>1, <2>2, <3>2, <3>3, <3>4, MemberLeaves
    <2>. QED BY <2>3, <2>4
  <1>3. ASSUME ~Start(d), payload'[d] \notin {None, {}}, ~Updated(d)', NEW i \in payload'[d]
        PROVE  d \in idx'[i]
    <2>1. payload'[d] = payload[d] /\ history[d] # "raced"
      BY <1>3, KeyStays
    <2>2. i \in Index
      BY <1>3, <2>1, IndexAssumption DEF TypeInv, JournalType
    <2>3. ASSUME NEW u \in Updater, On(u, d) PROVE d \in idx'[i]
      <3>1. Enqueue(u) /\ update[u].at = "enqueue"
        BY <1>3, <2>3, StageSteps DEF Moves, Updated, On
      <3>2. payload[d] = update[u].fields
        BY <1>3, <2>1, <2>3 DEF Alone
      <3>3. d \in idx[i]
        BY <1>3, <2>1, <2>3, <3>1, <3>2 DEF Found
      <3>. QED BY <3>1, <3>3 DEF Enqueue
    <2>4. CASE ~Updated(d)
      <3>1. d \in idx[i]
        BY <1>3, <2>1, <2>4 DEF Found, Indexed
      <3>2. ~Pruned(d)
        BY <1>3, <2>1 DEF Alone
      <3>3. \A u \in Updater : ~On(u, d)
        BY <2>4 DEF Updated, On
      <3>. QED BY <2>2, <3>1, <3>2, <3>3, MemberLeaves
    <2>. QED BY <2>3, <2>4 DEF Updated, On
  <1>. QED BY <1>1, <1>2, <1>3 DEF Start

\* A key is not Indexed again before the update that begins has ended.
LEMMA BegunNotIndexed ==
    ASSUME TypeInv, NEW d \in Key, Start(d), history'[d] # "raced"
    PROVE  ~Indexed(d)'
  <1>1. PICK w \in Updater, f \in Content : BeginUpdate(w, d, f)
    BY DEF Start
  <1>2. CASE f = {}
    BY <1>1, <1>2, BeginSteps DEF Indexed
  <1>3. CASE f # {}
    <2>1. update' = [update EXCEPT ![w] = [at |-> "read", k |-> d, fields |-> f, old |-> {}]]
      BY <1>1, <1>3, BeginSteps
    <2>2. update'[w] = [at |-> "read", k |-> d, fields |-> f, old |-> {}]
      BY <2>1 DEF TypeInv, UpdatesType
    <2>3. update'[w].at = "read" /\ update'[w].k = d
      BY <2>2
    <2>. QED BY <2>3, IdleAt DEF Indexed, Updated
  <1>. QED BY <1>2, <1>3

\* A key whose update ends in this step, with nothing raced, was enqueued by it.
LEMMA EndedByEnqueue ==
    ASSUME TypeInv, [Next]_vars, NEW d \in Key, NEW u \in Updater, On(u, d), ~Updated(d)',
           history'[d] # "raced"
    PROVE  Enqueue(u) /\ update[u].at = "enqueue" /\ UNCHANGED <<idx, idxv, left>>
  <1>1. Enqueue(u) /\ update[u].at = "enqueue"
    BY StageSteps DEF Moves, Updated, On
  <1>. QED BY <1>1 DEF Enqueue

RecordedNext(d) ==
    /\ ~Updated(d)' => \A i \in Index : d \in idx'[i] => i \in idxv'[d] \cup left'[d]
    /\ \A u \in Updater : On(u, d)' =>
         /\ update'[u].at = "read" => \A i \in Index : d \in idx'[i] => i \in idxv'[d] \cup left'[d]
         /\ update'[u].at = "add" => \A i \in Index : d \in idx'[i] => i \in update'[u].old \cup left'[d]
         /\ update'[u].at = "remove" =>
              \A i \in Index : d \in idx'[i] => i \in update'[u].old \cup update'[u].fields \cup left'[d]
         /\ update'[u].at \in {"record", "enqueue"} =>
              \A i \in Index : d \in idx'[i] => i \in update'[u].fields \cup left'[d]
         /\ update'[u].at = "enqueue" => idxv'[d] = update'[u].fields
    /\ \A p \in Pruner :
         /\ prune'[p].at = "sets" /\ d \in prune'[p].ks =>
              \A i \in Index : d \in idx'[i] => i \in prune'[p].old[d] \cup left'[d]
         /\ prune'[p].at = "hash" /\ d \in prune'[p].ks => \A i \in Index : d \in idx'[i] => i \in left'[d]
    /\ payload'[d] \notin {None, {}} /\ ~Updated(d)' => idxv'[d] = payload'[d]

LEMMA RecordedBegin ==
    ASSUME TypeInv, NEW d \in Key, Recorded(d), history[d] = "exact", history'[d] = "exact",
           NEW w \in Updater, NEW f \in Content, BeginUpdate(w, d, f)
    PROVE  RecordedNext(d)
  <1>1. /\ ~Updated(d) /\ ~Pruned(d)' /\ payload'[d] = f /\ UNCHANGED <<index, prune, missed>>
    BY BeginSteps
  <1>2. \A i \in Index : d \in idx'[i] => i \in idxv'[d] \cup left'[d]
    <2>1. left' = left
      BY DEF BeginUpdate
    <2>. QED BY <1>1, <2>1 DEF Recorded, OnlyIn, index
  <1>3. \A p \in Pruner : ~(prune'[p].at \in {"sets", "hash"} /\ d \in prune'[p].ks)
    BY <1>1 DEF Pruned
  <1>4. \A u \in Updater : On(u, d)' => update'[u].at = "read"
    <2>1. CASE f = {}
      BY <2>1, BeginSteps DEF On, Updated
    <2>2. CASE f # {}
      <3>1. /\ update' = [update EXCEPT ![w] = [at |-> "read", k |-> d, fields |-> f, old |-> {}]]
            /\ \A v \in Updater : On(v, d)' => v = w
        BY <2>2, BeginSteps
      <3>2. update'[w] = [at |-> "read", k |-> d, fields |-> f, old |-> {}]
        BY <3>1 DEF TypeInv, UpdatesType
      <3>3. update'[w].at = "read"
        BY <3>2
      <3>. QED BY <3>1, <3>3
    <2>. QED BY <2>1, <2>2
  <1>5. payload'[d] \in {None, {}} \/ Updated(d)'
    BY BegunNotIndexed DEF Start, Indexed
  <1>. QED BY <1>2, <1>3, <1>4, <1>5 DEF RecordedNext

\* Each step of an update, and where the key is then.
LEMMA RecordedUpdate ==
    ASSUME TypeInv, [Next]_vars, NEW d \in Key, Alone(d), Recorded(d), history[d] = "exact",
           history'[d] = "exact", ~Start(d), NEW u \in Updater, On(u, d)'
    PROVE  /\ update'[u].at = "read" => \A i \in Index : d \in idx'[i] => i \in idxv'[d] \cup left'[d]
           /\ update'[u].at = "add" => \A i \in Index : d \in idx'[i] => i \in update'[u].old \cup left'[d]
           /\ update'[u].at = "remove" =>
                \A i \in Index : d \in idx'[i] => i \in update'[u].old \cup update'[u].fields \cup left'[d]
           /\ update'[u].at \in {"record", "enqueue"} =>
                \A i \in Index : d \in idx'[i] => i \in update'[u].fields \cup left'[d]
           /\ update'[u].at = "enqueue" => idxv'[d] = update'[u].fields
  <1>. USE DEF UpdateAt
  <1>1. On(u, d) /\ update'[u].fields = update[u].fields /\ update[u].k = d /\ update'[u] # Idle
    BY KeyStays DEF On
  <1>2. ~Pruned(d) /\ \A v \in Updater : On(v, d) => v = u
    BY <1>1 DEF Alone, Updated, On
  <1>3. /\ AddMember(u) => update[u].at = "add" /\ update'[u].at = "remove"
        /\ RemoveOld(u) => update[u].at = "remove" /\ update'[u].at = "record"
        /\ RecordValues(u) => update[u].at = "record" /\ update'[u].at = "enqueue"
    BY AtSteps DEF AddMember, RemoveOld, Leave, RecordValues
  <1>4. ~AddMember(u) => \A i \in Index : d \in idx'[i] => d \in idx[i]
    BY <1>2, MemberJoins
  <1>5. ~RemoveOld(u) /\ ~RecordValues(u) => idxv'[d] = idxv[d]
    <2>1. \A p \in Pruner : ~Prunes(p, d, {"hash"})
      BY <1>2 DEF Pruned, Prunes
    <2>. QED BY <1>2, <2>1, KeyRecord
  <1>0. ~RemoveOld(u) => left'[d] = left[d]
    BY <1>2, KeyLeft
  <1>6. CASE update'[u] = update[u]
    <2>1. ~AddMember(u) /\ ~RemoveOld(u) /\ ~RecordValues(u)
      BY <1>3, <1>6
    <2>2. idxv'[d] = idxv[d] /\ \A i \in Index : d \in idx'[i] => d \in idx[i]
      BY <1>4, <1>5, <2>1
    <2>. QED BY <1>0, <1>1, <1>6, <2>1, <2>2 DEF Recorded, OnlyIn
  <1>7. CASE Moves(u, "read", "add") /\ update'[u].old = idxv[d]
    <2>1. ~AddMember(u) /\ ~RemoveOld(u)
      BY <1>3, <1>7 DEF Moves
    <2>2. OnlyIn(d, idxv[d]) /\ update'[u].at = "add"
      BY <1>1, <1>7 DEF Recorded, Moves
    <2>. QED BY <1>0, <1>4, <1>7, <2>1, <2>2 DEF OnlyIn
  <1>8. CASE AddMember(u) /\ Moves(u, "add", "remove") /\ update'[u].old = update[u].old
    <2>1. OnlyIn(d, update[u].old) /\ update'[u].at = "remove"
      BY <1>1, <1>8 DEF Recorded, Moves
    <2>2. \A i \in Index : d \in idx'[i] => d \in idx[i] \/ i \in update[u].fields
      BY <1>8 DEF AddMember
    <2>3. left'[d] = left[d]
      BY <1>0, <1>8 DEF AddMember
    <2>. QED BY <1>1, <1>8, <2>1, <2>2, <2>3 DEF OnlyIn
  <1>9. CASE RemoveOld(u) /\ Moves(u, "remove", "record")
    <2>1. OnlyIn(d, update[u].old \cup update[u].fields) /\ update'[u].at = "record"
      BY <1>1, <1>9 DEF Recorded, Moves
    <2>. DEFINE gone == Removed(update[u].old, update[u].fields)
    <2>2. \A i \in Index : d \in idx'[i] => d \in idx[i] /\ i \notin gone
      BY <1>1, <1>9 DEF RemoveOld, Leave
    <2>3. left'[d] = (left[d] \cup (update[u].old \ gone)) \ update[u].fields
      BY <1>1, <1>9 DEF RemoveOld, Leave, TypeInv, SetsType
    <2>. HIDE DEF gone
    <2>. QED BY <1>1, <2>1, <2>2, <2>3 DEF OnlyIn
  <1>10. CASE RecordValues(u) /\ Moves(u, "record", "enqueue")
    <2>1. OnlyIn(d, update[u].fields) /\ update'[u].at = "enqueue"
      BY <1>1, <1>10 DEF Recorded, Moves
    <2>2. idx' = idx /\ idxv'[d] = update[u].fields /\ left' = left
      BY <1>1, <1>10 DEF RecordValues, TypeInv, SetsType
    <2>. QED BY <1>1, <2>1, <2>2 DEF OnlyIn
  <1>. QED BY <1>1, <1>6, <1>7, <1>8, <1>9, <1>10, StageSteps

\* No goroutine updates a key that is pruned, so that it joins no index.
LEMMA RecordedPrune ==
    ASSUME TypeInv, [Next]_vars, NEW d \in Key, Alone(d), Recorded(d), history[d] = "exact",
           history'[d] = "exact", NEW p \in Pruner,
           prune'[p].at \in {"sets", "hash"}, d \in prune'[p].ks
    PROVE  /\ prune'[p].at = "sets" =>
                \A i \in Index : d \in idx'[i] => i \in prune'[p].old[d] \cup left'[d]
           /\ prune'[p].at = "hash" => \A i \in Index : d \in idx'[i] => i \in left'[d]
  <1>1. ASSUME Prunes(p, d, {"values", "sets", "hash"})
        PROVE  ~Updated(d) /\ (\A i \in Index : d \in idx'[i] => d \in idx[i]) /\ left'[d] = left[d]
    <2>1. ~Updated(d)
      BY <1>1 DEF Alone, Pruned, Prunes
    <2>2. \A u \in Updater : ~On(u, d)
      BY <2>1 DEF Updated, On
    <2>. QED BY <2>1, <2>2, MemberJoins, KeyLeft
  <1>2. CASE prune'[p] = prune[p]
    <2>1. Prunes(p, d, {"values", "sets", "hash"})
      BY <1>2 DEF Prunes
    <2>2. /\ prune[p].at = "sets" => OnlyIn(d, prune[p].old[d])
          /\ prune[p].at = "hash" => OnlyIn(d, {})
      BY <1>2 DEF Recorded, Prunes
    <2>. QED BY <1>1, <1>2, <2>1, <2>2 DEF OnlyIn
  <1>3. CASE /\ Prunes(p, d, {"values"}) /\ prune'[p].at = "sets" /\ prune'[p].old[d] = idxv[d]
    <2>1. Prunes(p, d, {"values", "sets", "hash"})
      BY <1>3 DEF Prunes
    <2>2. OnlyIn(d, idxv[d])
      BY <1>1, <2>1 DEF Recorded
    <2>. QED BY <1>1, <1>3, <2>1, <2>2 DEF OnlyIn
  <1>4. CASE PruneMembers(p) /\ Prunes(p, d, {"sets"}) /\ prune'[p].at = "hash"
    <2>1. OnlyIn(d, prune[p].old[d])
      BY <1>4 DEF Recorded
    <2>2. \A i \in Index : d \in idx'[i] => d \in idx[i] /\ i \notin prune[p].old[d]
      BY <1>4 DEF PruneMembers, Prunes
    <2>3. left' = left
      BY <1>4 DEF PruneMembers
    <2>. QED BY <1>4, <2>1, <2>2, <2>3 DEF OnlyIn
  <1>. QED BY <1>2, <1>3, <1>4, DeepSteps DEF DeepAt

LEMMA RecordedStep ==
    ASSUME TypeInv, [Next]_vars, NEW d \in Key, Alone(d), Recorded(d) PROVE Recorded(d)'
  <1>. SUFFICES ASSUME history'[d] = "exact" PROVE RecordedNext(d)
    BY DEF Recorded, RecordedNext, OnlyIn, Indexed, Prunes
  <1>1. history[d] = "exact"
    BY KeyHistory
  <1>2. CASE Start(d)
    BY <1>1, <1>2, RecordedBegin DEF Start
  <1>3. CASE ~Start(d)
    <2>1. ASSUME ~Updated(d)', NEW i \in Index, d \in idx'[i]
          PROVE  i \in idxv'[d] \cup left'[d]
      <3>1. ASSUME NEW u \in Updater, On(u, d) PROVE i \in idxv'[d] \cup left'[d]
        <4>1. update[u].at = "enqueue" /\ UNCHANGED <<idx, idxv, left>>
          BY <2>1, <3>1, EndedByEnqueue
        <4>2. OnlyIn(d, update[u].fields) /\ idxv[d] = update[u].fields
          BY <1>1, <3>1, <4>1 DEF Recorded
        <4>. QED BY <2>1, <4>1, <4>2 DEF OnlyIn
      <3>2. CASE ~Updated(d)
        <4>1. \A u \in Updater : ~On(u, d)
          BY <3>2 DEF Updated, On
        <4>2. d \in idx[i] /\ i \in idxv[d] \cup left[d] /\ left'[d] = left[d]
          BY <1>1, <2>1, <3>2, <4>1, MemberJoins, KeyLeft DEF Recorded, OnlyIn
        <4>3. ASSUME NEW p \in Pruner, Prunes(p, d, {"hash"}) PROVE i \in left[d]
          BY <1>1, <4>2, <4>3 DEF Recorded, OnlyIn
        <4>. QED BY <4>1, <4>2, <4>3, KeyRecord
      <3>. QED BY <3>1, <3>2 DEF Updated, On
    <2>2. ASSUME payload'[d] \notin {None, {}}, ~Updated(d)' PROVE idxv'[d] = payload'[d]
      <3>1. payload'[d] = payload[d]
        BY <1>3, <2>2, KeyStays
      <3>2. ASSUME NEW u \in Updater, On(u, d) PROVE idxv'[d] = payload'[d]
        <4>1. update[u].at = "enqueue" /\ UNCHANGED <<idx, idxv>>
          BY <2>2, <3>2, EndedByEnqueue
        <4>. QED BY <1>1, <2>2, <3>1, <3>2, <4>1 DEF Recorded, Alone
      <3>3. CASE ~Updated(d)
        <4>1. \A u \in Updater : ~On(u, d)
          BY <3>3 DEF Updated, On
        <4>2. ~Pruned(d) /\ idxv[d] = payload[d]
          BY <1>1, <2>2, <3>1, <3>3 DEF Recorded, Indexed, Alone
        <4>3. \A p \in Pruner : ~Prunes(p, d, {"hash"})
          BY <4>2 DEF Pruned, Prunes
        <4>. QED BY <3>1, <4>1, <4>2, <4>3, KeyRecord
      <3>. QED BY <3>2, <3>3 DEF Updated, On
    <2>. QED BY <1>1, <1>3, <2>1, <2>2, RecordedUpdate, RecordedPrune DEF RecordedNext
  <1>. QED BY <1>2, <1>3

\* What leaves the queue while its key lives is left to the sweeper, or has no TTL.
LEMMA QueuedStep ==
    ASSUME TypeInv, [Next]_vars, NEW d \in Key, Alone(d), Recorded(d), Queued(d)
    PROVE  Queued(d)'
  <1>. SUFFICES ASSUME history'[d] = "exact", payload'[d] \notin {None, {}}, ~Updated(d)',
                       d \in expiring', d \notin missed'
                PROVE  d \in queue'
    BY DEF Queued, Indexed
  <1>1. ~Start(d)
    BY BegunNotIndexed DEF Indexed
  <1>2. history[d] = "exact" /\ payload'[d] = payload[d]
    BY <1>1, KeyStays
  <1>3. ASSUME NEW u \in Updater, On(u, d) PROVE d \in queue'
    BY <1>3, EndedByEnqueue DEF Enqueue, On
  <1>4. CASE ~Updated(d)
    <2>1. \A u \in Updater : ~On(u, d)
      BY <1>4 DEF Updated, On
    <2>2. ~Pruned(d) /\ idxv[d] # {} /\ (d \in expiring /\ d \notin missed => d \in queue)
      BY <1>2, <1>4 DEF Alone, Recorded, Queued, Indexed
    <2>3. CASE UNCHANGED <<journal, writes>>
      <3>1. d \in expiring
        BY <2>3 DEF journal
      <3>2. CASE UNCHANGED <<queue, missed>>
        BY <2>2, <3>1, <3>2
      <3>3. ASSUME NEW u \in Updater, Enqueue(u) PROVE d \in queue'
        BY <2>2, <3>1, <3>3 DEF Enqueue
      <3>4. ASSUME NEW k \in Key, CommitFlushed(k) \/ RefreshHotTTL(k) PROVE d \in queue'
        <4>1. CASE k = d
          BY <2>2, <3>4, <4>1 DEF CommitFlushed, RefreshHotTTL, QueueIfIndexed
        <4>2. CASE k # d
          BY <2>2, <3>1, <3>4, <4>2 DEF CommitFlushed, RefreshHotTTL, QueueIfIndexed
        <4>. QED BY <4>1, <4>2
      <3>5. ASSUME NEW k \in Key, DeadLetter(k) PROVE d \in queue'
        BY <2>2, <3>1, <3>5 DEF DeadLetter, index
      <3>6. ASSUME NEW p \in Pruner, Rescore(p) PROVE d \in queue'
        BY <2>2, <3>1, <3>6 DEF Rescore
      <3>7. ASSUME NEW p \in Pruner, Dequeue(p), missed' = missed PROVE d \in queue'
        <4>1. d \notin prune[p].ks
          BY <2>2, <3>7 DEF Dequeue, Pruned
        <4>. QED BY <2>2, <3>1, <3>7, <4>1 DEF Dequeue
      <3>. QED BY <3>2, <3>3, <3>4, <3>5, <3>6, <3>7, QueueSteps DEF Commits
    <2>4. ASSUME NEW u \in Updater, Write(u) \/ Hydrate(u) PROVE d \in queue'
      <3>1. PICK k \in Key, f \in Content :
              BeginUpdate(u, k, f) /\ expiring' \in {expiring \ {k}, expiring \cup {k}}
        BY <2>4 DEF Write, Hydrate
      <3>2. k # d
        BY <1>1, <3>1 DEF Start
      <3>. QED BY <2>2, <3>1, <3>2 DEF BeginUpdate, index
    <2>5. ASSUME NEW k \in Key, CommitFlushed(k) \/ DeadLetter(k) \/ RefreshHotTTL(k)
          PROVE  d \in queue'
      <3>1. CASE k = d
        BY <2>2, <2>5, <3>1 DEF CommitFlushed, DeadLetter, RefreshHotTTL, QueueIfIndexed
      <3>2. CASE k # d
        BY <2>2, <2>5, <3>2 DEF CommitFlushed, DeadLetter, RefreshHotTTL, QueueIfIndexed, journal, index
      <3>. QED BY <3>1, <3>2
    <2>6. ASSUME NEW k \in Key, Expire(k) PROVE d \in queue'
      <3>1. k # d
        BY <2>6 DEF Expire, TypeInv, JournalType
      <3>. QED BY <2>2, <2>6, <3>1 DEF Expire, index
    <2>. QED BY <2>3, <2>4, <2>5, <2>6, JournalSteps DEF Commits
  <1>. QED BY <1>3, <1>4 DEF Updated, On

-----------------------------------------------------------------------------
(* The theorems.                                                           *)

LEMMA KeyInvariant == Spec => []KeyInv
  <1>1. Init => KeyInv
    <2>. SUFFICES ASSUME Init, NEW k \in Key
                  PROVE  Alone(k) /\ Found(k) /\ Recorded(k) /\ Queued(k)
      BY DEF KeyInv
    <2>1. /\ \A u \in Updater : ~On(u, k)
          /\ \A p \in Pruner : prune[p].at = "idle"
          /\ \A i \in Index : k \notin idx[i]
          /\ payload[k] = None /\ expiring = {}
      BY IdleAt DEF Init, On
    <2>2. ~Pruned(k) /\ \A p \in Pruner : ~Prunes(p, k, {"sets"}) /\ ~Prunes(p, k, {"hash"})
      BY <2>1 DEF Pruned, Prunes
    <2>. QED BY <2>1, <2>2 DEF Alone, Found, Recorded, Queued, OnlyIn, Indexed
  <1>2. TypeInv /\ KeyInv /\ [Next]_vars => KeyInv'
    BY AloneStep, FoundStep, RecordedStep, QueuedStep DEF KeyInv
  <1>. QED BY <1>1, <1>2, TypeInvariant, PTL DEF Spec

\* While a key lives and nothing raced on it, Query finds it under each of its values:
\* a prune, whatever it read and however late it acts, takes only what is dead.
THEOREM KeysAreFound == Spec => []FoundByItsValues
  <1>1. TypeInv /\ KeyInv => FoundByItsValues
    <2>. SUFFICES ASSUME TypeInv, KeyInv, NEW k \in Key, Settled(k), history[k] # "raced"
                  PROVE  \A i \in payload[k] : k \in idx[i]
      BY DEF FoundByItsValues
    <2>. QED BY DEF KeyInv, Found, Settled, Indexed
  <1>. QED BY <1>1, TypeInvariant, KeyInvariant, PTL

\* ... and under no value it has left, as long as its updates neither overlapped nor were
\* cut off and its record has not lapsed: the record of the old values is never stale.
\* The range set of a field that became a string is the one exception, which `left` names.
THEOREM KeysLeaveOldValues == Spec => []FoundByNoOther
  <1>1. TypeInv /\ KeyInv => FoundByNoOther
    <2>. SUFFICES ASSUME TypeInv, KeyInv, NEW k \in Key, Settled(k), history[k] = "exact"
                  PROVE  /\ idxv[k] = payload[k]
                         /\ \A i \in Index : k \in idx[i] => i \in payload[k] \cup left[k]
      BY DEF FoundByNoOther
    <2>. QED BY DEF KeyInv, Recorded, Settled, Indexed, OnlyIn
  <1>. QED BY <1>1, TypeInvariant, KeyInvariant, PTL

\* An indexed key with a TTL is queued for pruning, but for the two ways of missing it
\* that the property names.
THEOREM DyingKeysAreQueued == Spec => []QueuedToDie
  <1>1. TypeInv /\ KeyInv => QueuedToDie
    <2>. SUFFICES ASSUME TypeInv, KeyInv, NEW k \in Key, Settled(k), history[k] = "exact",
                         k \in expiring \ missed
                  PROVE  k \in queue
      BY DEF QueuedToDie
    <2>. QED BY DEF KeyInv, Queued, Settled, Indexed
  <1>. QED BY <1>1, TypeInvariant, KeyInvariant, PTL
=============================================================================
