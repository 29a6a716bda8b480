------------------------------- MODULE Indexes -------------------------------
(***************************************************************************)
(* Secondary indexes of one band (internal/shield/index.go, bulk.go): the  *)
(* index keys, the values recorded for each correlation key, the registry  *)
(* and the expiry queue; maintained by writers and hydrations after the    *)
(* journal, and pruned by the queue pruner, the sweeper and queries.       *)
(*                                                                         *)
(* A payload is the set of index keys its contract derives: the equality   *)
(* sets of its values and the range sets of its numeric fields, one of     *)
(* them for a field.  The scores of a range set are not modelled, nor when *)
(* an entry of the expiry queue falls due: it is a hint, and its entry may *)
(* be taken at any time.                                                   *)
(***************************************************************************)
EXTENDS Naturals, FiniteSets

CONSTANTS
    Key,        \* correlation keys of the band
    Index,      \* index keys of the band
    Numeric,    \* the range sets among them; the others are equality sets
    FieldOf,    \* field of an index key
    Content,    \* payloads, each the index keys it belongs to
    None,       \* no payload
    Updater,    \* goroutines that write or hydrate, then update the indexes
    Pruner,     \* goroutines that prune, sweep or query
    MaxWrites,  \* bound: payloads put into the journal
    MaxLapses   \* bound: keys of the index that reach their own TTL

ASSUME IndexAssumption ==
    /\ IsFiniteSet(Key) /\ IsFiniteSet(Index)
    /\ Numeric \subseteq Index /\ \A i, j \in Numeric : FieldOf[i] = FieldOf[j] => i = j
    /\ Content \subseteq SUBSET Index /\ None \notin Content
    /\ \A fields \in Content : \A i, j \in fields : FieldOf[i] = FieldOf[j] => i = j
    /\ {MaxWrites, MaxLapses} \subseteq Nat

VARIABLES
    payload,   \* journal entry of a key, or None
    expiring,  \* keys whose entry has a TTL
    idx,       \* members of each index key
    idxv,      \* values recorded for a key; {} when there is no hash
    reg,       \* index keys registered
    queue,     \* members of the expiry queue
    update,    \* where each updater is
    prune,     \* where each pruner is
    writes, lapses,
    \* History, read by no action.
    history,   \* by key: "exact", "complete" or "raced"
    missed,    \* keys the code leaves to the sweeper
    left       \* by key: range sets an update has left it in, and forgotten

journal  == <<payload, expiring>>
index    == <<idx, idxv, reg, queue>>
vars     == <<journal, index, update, prune, writes, lapses, history, missed, left>>

Idle   == [at |-> "idle"]
Failed == [at |-> "failed"]

Init ==
    /\ payload = [k \in Key |-> None] /\ expiring = {}
    /\ idx = [i \in Index |-> {}] /\ idxv = [k \in Key |-> {}]
    /\ reg = {} /\ queue = {}
    /\ update = [u \in Updater |-> Idle] /\ prune = [p \in Pruner |-> Idle]
    /\ writes = 0 /\ lapses = 0
    /\ history = [k \in Key |-> "exact"] /\ missed = {}
    /\ left = [k \in Key |-> {}]

\* What is under way on a key: an update, a prune that has found it dead.
Updated(k) == \E u \in Updater : update[u] # Idle /\ update[u].k = k
Pruned(k)  ==
    \E p \in Pruner : prune[p].at \in {"values", "sets", "hash", "dequeue"} /\ k \in prune[p].ks

\* Keys something happened to that their updates cannot account for.
Raced(ks) == history' = [k \in Key |-> IF k \in ks THEN "raced" ELSE history[k]]

-----------------------------------------------------------------------------
(* Updates.  The journal's entry first, the indexes after it.              *)

\* An update of k that nothing else overlaps leaves it complete again.
BeginUpdate(u, k, fields) ==
    /\ writes < MaxWrites /\ writes' = writes + 1
    /\ update[u] = Idle
    /\ payload' = [payload EXCEPT ![k] = fields]
    /\ update' = IF fields = {} THEN update
                 ELSE [update EXCEPT ![u] = [at |-> "read", k |-> k, fields |-> fields, old |-> {}]]
    /\ history' = [history EXCEPT ![k] =
         IF Updated(k) \/ Pruned(k) THEN "raced"
         ELSE IF @ = "raced" /\ fields # {} THEN "complete" ELSE @]
    /\ UNCHANGED <<index, prune, lapses, missed, left>>

\* Write: the journal, and then UpdateIndexes, unless there is nothing to index.
Write(u) ==
    \E k \in Key, fields \in Content :
      /\ BeginUpdate(u, k, fields)
      /\ expiring' = expiring \ {k}

\* Hydration of a miss, with what the store has by now.
Hydrate(u) ==
    \E k \in Key, fields \in Content :
      /\ payload[k] = None
      /\ BeginUpdate(u, k, fields)
      /\ expiring' = expiring \cup {k}

At(u, here, next) ==
    /\ update[u].at = here
    /\ update' = [update EXCEPT ![u] =
         IF next = "idle" THEN Idle
         ELSE [@ EXCEPT !.at = next, !.old = IF next = "remove" THEN update[u].old ELSE {}]]
    /\ UNCHANGED <<journal, prune, writes, lapses, history>>

\* indexValues, a round-trip of its own.
ReadOldValues(u) ==
    /\ update[u].at = "read"
    /\ update' = [update EXCEPT ![u] = [@ EXCEPT !.at = "add", !.old = idxv[update[u].k]]]
    /\ UNCHANGED <<journal, index, prune, writes, lapses, history, missed, left>>

\* queueIndexUpdate is a pipeline, not a transaction: into the index keys and the registry ...
AddMember(u) ==
    /\ At(u, "add", "remove")
    /\ idx' = [i \in Index |-> idx[i] \cup {k \in {update[u].k} : i \in update[u].fields}]
    /\ reg' = reg \cup update[u].fields
    /\ UNCHANGED <<idxv, queue, missed, left>>

\* What leaves the indexes when `old` gives way to `fields`: an equality set that is not
\* among the values any more; a range set only if its field has no value now.
Removed(old, fields) ==
    {i \in old \ fields : i \in Numeric => \A j \in fields : FieldOf[j] # FieldOf[i]}

Leave(u, removed) ==
    /\ At(u, "remove", "record")
    /\ LET k == update[u].k  fields == update[u].fields  old == update[u].old
       IN /\ idx' = [i \in Index |-> idx[i] \ {d \in {k} : i \in removed}]
          /\ idxv' = [idxv EXCEPT ![k] = {}]
          /\ left' = [left EXCEPT ![k] = (@ \cup (old \ Removed(old, fields))) \ fields]
    /\ UNCHANGED <<reg, queue, missed>>

\* Mutant: values that stay are taken for old ones.
RemoveEveryOld(u) == Leave(u, update[u].old)

\* Mutant: values the key no longer has are left.
RemoveNoOld(u) == Leave(u, {})

\* ... out of those it has left, and the record of them deleted ...
RemoveOld(u) == Leave(u, Removed(update[u].old, update[u].fields))

\* ... the record of the new ones ...
RecordValues(u) ==
    /\ At(u, "record", "enqueue")
    /\ idxv' = [idxv EXCEPT ![update[u].k] = update[u].fields]
    /\ UNCHANGED <<idx, reg, queue, missed, left>>

\* ... and the expiry queue.
Enqueue(u) ==
    /\ At(u, "enqueue", "idle")
    /\ queue' = queue \cup {update[u].k} /\ missed' = missed \ {update[u].k}
    /\ UNCHANGED <<idx, idxv, reg, left>>

\* A lost connection or a crash; nobody repeats the update.
UpdateFails(u) ==
    /\ update[u] # Idle
    /\ update' = [update EXCEPT ![u] = Idle]
    /\ Raced({update[u].k})
    /\ UNCHANGED <<journal, index, prune, writes, lapses, missed, left>>

-----------------------------------------------------------------------------
(* The life of a payload.                                                  *)

\* With a TTL, an indexed key is queued.
QueueIfIndexed(k) ==
    IF idxv[k] = {} THEN UNCHANGED <<queue, missed>>
    ELSE queue' = queue \cup {k} /\ missed' = missed \ {k}

\* Mutant: a commit leaves the queue alone.
CommitUnqueued(k) ==
    /\ payload[k] # None /\ k \notin expiring
    /\ expiring' = expiring \cup {k}
    /\ UNCHANGED <<payload, index, update, prune, writes, lapses, history, missed, left>>

\* commitFlushedLua
CommitFlushed(k) ==
    /\ payload[k] # None /\ k \notin expiring
    /\ expiring' = expiring \cup {k}
    /\ QueueIfIndexed(k)
    /\ UNCHANGED <<payload, idx, idxv, reg, update, prune, writes, lapses, history, left>>

\* deadLetterIfUnchangedLua has a TTL for the key and does not queue it.
DeadLetter(k) ==
    /\ payload[k] # None /\ k \notin expiring
    /\ expiring' = expiring \cup {k}
    /\ missed' = missed \cup {k}
    /\ UNCHANGED <<payload, index, update, prune, writes, lapses, history, left>>

\* Mutant: a TTL for any key, unflushed or gone.
RefreshUnchecked(k) ==
    /\ expiring' = expiring \cup {k}
    /\ QueueIfIndexed(k)
    /\ UNCHANGED <<payload, idx, idxv, reg, update, prune, writes, lapses, history, left>>

\* extendTTLLua
RefreshHotTTL(k) ==
    /\ k \in expiring
    /\ QueueIfIndexed(k)
    /\ UNCHANGED <<journal, idx, idxv, reg, update, prune, writes, lapses, history, left>>

Expire(k) ==
    /\ k \in expiring
    /\ payload' = [payload EXCEPT ![k] = None] /\ expiring' = expiring \ {k}
    /\ UNCHANGED <<index, update, prune, writes, lapses, history, missed, left>>

\* The window has passed since the last update that touched an index key, the record
\* of a key or the registry; payloads that were kept longer lose it.
Lapse ==
    /\ lapses < MaxLapses /\ lapses' = lapses + 1
    /\ \A u \in Updater : update[u] = Idle
    /\ \/ \E i \in Index : /\ idx[i] # {} /\ idx' = [idx EXCEPT ![i] = {}]
                           /\ Raced(idx[i])
                           /\ UNCHANGED <<idxv, reg>>
       \/ \E k \in Key : /\ idxv[k] # {} /\ idxv' = [idxv EXCEPT ![k] = {}]
                         /\ history' = [history EXCEPT ![k] = IF @ = "exact" THEN "complete" ELSE @]
                         /\ UNCHANGED <<idx, reg>>
       \/ reg # {} /\ reg' = {} /\ UNCHANGED <<idx, idxv, history>>
    /\ UNCHANGED <<journal, queue, update, prune, writes, missed, left>>

-----------------------------------------------------------------------------
(* Pruning.  Every Redis call of it is a step, and may fail.               *)

Task(at, todo, fallback, ks) ==
    [at |-> at, todo |-> todo, fallback |-> fallback, ks |-> ks, old |-> [k \in ks |-> {}]]

Prune(p, task) == prune' = [prune EXCEPT ![p] = task]

\* A sweep goes on with its next index key; anything else ends.
Continue(p) == Prune(p, IF prune[p].todo = {} THEN Idle ELSE Task("scan", prune[p].todo, {}, {}))

\* PruneExpiredIndexes: a key that is due.
StartPrune(p) ==
    /\ prune[p] = Idle
    /\ \E k \in queue : Prune(p, Task("pttl", {}, {}, {k}))
    /\ UNCHANGED <<journal, index, update, writes, lapses, history, missed, left>>

\* QueryBand: the candidates of an intersection; their range sets are read with their
\* payloads, and are fallbacks as well.
StartQuery(p) ==
    /\ prune[p] = Idle
    /\ \E eqKeys \in (SUBSET (Index \ Numeric)) \ {{}}, rangeKeys \in SUBSET Numeric :
         LET candidates == {k \in Key : \A i \in eqKeys : k \in idx[i]}
         IN candidates # {} /\ Prune(p, Task("check", {}, eqKeys \cup rangeKeys, candidates))
    /\ UNCHANGED <<journal, index, update, writes, lapses, history, missed, left>>

\* SweepIndexBand: the registry, and then each index key of it.
StartSweep(p) ==
    /\ prune[p] = Idle /\ reg # {}
    /\ Prune(p, Task("scan", reg, {}, {}))
    /\ UNCHANGED <<journal, index, update, writes, lapses, history, missed, left>>

Scan(p) ==
    /\ prune[p].at = "scan"
    /\ \E i \in prune[p].todo :
         Prune(p, Task(IF idx[i] = {} THEN "unregister" ELSE "check",
                       prune[p].todo \ {i}, {i}, idx[i]))
    /\ UNCHANGED <<journal, index, update, writes, lapses, history, missed, left>>

\* An index key the scan found empty goes from the registry, empty or not by now.
Unregister(p) ==
    /\ prune[p].at = "unregister"
    /\ reg' = reg \ prune[p].fallback
    /\ Continue(p)
    /\ UNCHANGED <<journal, idx, idxv, queue, update, writes, lapses, history, missed, left>>

\* RegisterExistingIndexes, when a pod starts: an index key the registry has not.
Register(p) ==
    /\ prune[p] = Idle
    /\ \E i \in Index \ reg : idx[i] # {} /\ reg' = reg \cup {i}
    /\ UNCHANGED <<journal, idx, idxv, queue, update, prune, writes, lapses, history, missed, left>>

\* PTTL of a due key: dead, unflushed, or alive for a while ...
CheckDue(p) ==
    /\ prune[p].at = "pttl"
    /\ \E k \in prune[p].ks :
         /\ Prune(p, [prune[p] EXCEPT !.at = IF payload[k] = None THEN "values"
                                            ELSE IF k \in expiring THEN "alive" ELSE "persistent"])
         /\ Raced({k} \cap {d \in Key : payload[d] = None /\ Updated(d)})
    /\ UNCHANGED <<journal, index, update, writes, lapses, missed, left>>

\* ... which is acted on in the next round-trip, flushed or written by now or not.
Rescore(p) ==
    /\ \/ /\ prune[p].at = "persistent"
          /\ queue' = queue \ prune[p].ks
          /\ missed' = missed \cup (prune[p].ks \cap expiring)
       \/ /\ prune[p].at = "alive"
          /\ queue' = queue \cup prune[p].ks
          /\ missed' = missed \ prune[p].ks
    /\ Prune(p, Idle)
    /\ UNCHANGED <<journal, idx, idxv, reg, update, writes, lapses, history, left>>

\* The payloads of the candidates or members: those that are gone are dead.
CheckPayloads(p) ==
    /\ prune[p].at = "check"
    /\ LET dead == {k \in prune[p].ks : payload[k] = None}
       IN /\ IF dead = {} THEN Continue(p)
             ELSE Prune(p, Task("values", prune[p].todo, prune[p].fallback, dead))
          /\ Raced({k \in dead : Updated(k)})
    /\ UNCHANGED <<journal, index, update, writes, lapses, missed, left>>

\* pruneIndexMembers: the recorded values, read in a round-trip of their own ...
ReadValues(p) ==
    /\ prune[p].at = "values"
    /\ Prune(p, [prune[p] EXCEPT !.at = "sets", !.old = [k \in prune[p].ks |-> idxv[k]]])
    /\ UNCHANGED <<journal, index, update, writes, lapses, history, missed, left>>

\* Mutant: only the recorded values.
PruneRecorded(p) ==
    /\ prune[p].at = "sets"
    /\ idx' = [i \in Index |-> idx[i] \ {k \in prune[p].ks : i \in prune[p].old[k]}]
    /\ Prune(p, Task("hash", prune[p].todo, {}, prune[p].ks))
    /\ UNCHANGED <<journal, idxv, reg, queue, update, writes, lapses, history, missed, left>>

\* ... out of these and of the index keys the caller came by ...
PruneMembers(p) ==
    /\ prune[p].at = "sets"
    /\ idx' = [i \in Index |-> idx[i] \
                 {k \in prune[p].ks : i \in prune[p].fallback \cup prune[p].old[k]}]
    /\ Prune(p, Task("hash", prune[p].todo, {}, prune[p].ks))
    /\ UNCHANGED <<journal, idxv, reg, queue, update, writes, lapses, history, missed, left>>

\* ... then the record and the queue.
DropValues(p) ==
    /\ prune[p].at = "hash"
    /\ idxv' = [k \in Key |-> IF k \in prune[p].ks THEN {} ELSE idxv[k]]
    /\ Prune(p, [prune[p] EXCEPT !.at = "dequeue"])
    /\ UNCHANGED <<journal, idx, reg, queue, update, writes, lapses, history, missed, left>>

Dequeue(p) ==
    /\ prune[p].at = "dequeue"
    /\ queue' = queue \ prune[p].ks
    /\ Continue(p)
    /\ UNCHANGED <<journal, idx, idxv, reg, update, writes, lapses, history, missed, left>>

\* A tick, or a query, that finds nothing.
NothingDue(p) == prune[p] = Idle /\ UNCHANGED vars

PruneFails(p) ==
    /\ prune[p] \notin {Idle, Failed}
    /\ Prune(p, Failed)
    /\ UNCHANGED <<journal, index, update, writes, lapses, history, missed, left>>

\* The error is logged, and the next tick or query begins anew.
LogFailure(p) ==
    /\ prune[p] = Failed
    /\ Prune(p, Idle)
    /\ UNCHANGED <<journal, index, update, writes, lapses, history, missed, left>>

Update(u) == \/ Write(u) \/ Hydrate(u) \/ ReadOldValues(u) \/ AddMember(u) \/ RemoveOld(u)
             \/ RecordValues(u) \/ Enqueue(u) \/ UpdateFails(u)

PruneStep(p) == \/ Scan(p) \/ Unregister(p) \/ CheckDue(p) \/ Rescore(p) \/ CheckPayloads(p)
                \/ ReadValues(p) \/ PruneMembers(p) \/ DropValues(p) \/ Dequeue(p) \/ LogFailure(p)

Next ==
    \/ \E u \in Updater : Update(u)
    \/ \E k \in Key : CommitFlushed(k) \/ DeadLetter(k) \/ RefreshHotTTL(k) \/ Expire(k)
    \/ Lapse
    \/ \E p \in Pruner : StartPrune(p) \/ StartQuery(p) \/ StartSweep(p) \/ Register(p)
                          \/ NothingDue(p) \/ PruneStep(p) \/ PruneFails(p)

\* The goroutine of startIndexSweeper goes on with what it is at, and its select
\* takes the sweep's tick again and again, whatever the pruner's does.
Spec == Init /\ [][Next]_vars /\ \A p \in Pruner : WF_vars(PruneStep(p)) /\ SF_vars(StartSweep(p))

-----------------------------------------------------------------------------
(* Properties.                                                             *)

IndexTypeOK ==
    /\ payload \in [Key -> Content \cup {None}]
    /\ expiring \subseteq {k \in Key : payload[k] # None}
    /\ idx \in [Index -> SUBSET Key] /\ idxv \in [Key -> SUBSET Index]
    /\ reg \subseteq Index /\ queue \subseteq Key
    /\ \A u \in Updater : update[u] = Idle \/
         update[u] \in [at : {"read", "add", "remove", "record", "enqueue"}, k : Key,
                        fields : Content \ {{}}, old : SUBSET Index]
    /\ \A p \in Pruner : prune[p] \in {Idle, Failed} \/
         /\ prune[p].todo \subseteq Index /\ prune[p].fallback \subseteq Index
         /\ prune[p].old \in [prune[p].ks -> SUBSET Index] /\ prune[p].ks \subseteq Key
    /\ writes \leq MaxWrites /\ lapses \leq MaxLapses
    /\ history \in [Key -> {"exact", "complete", "raced"}]
    /\ left \in [Key -> SUBSET Index]

Settled(k) == payload[k] \notin {None, {}} /\ ~Updated(k)

\* After an update that nothing overlapped and that was not cut off, Query finds the key
\* under each of its values, whatever happened to the indexes before, for as long as
\* it lives and the index keys do: pruning takes only what is dead.
FoundByItsValues ==
    \A k \in Key : Settled(k) /\ history[k] # "raced" => \A i \in payload[k] : k \in idx[i]

\* A key whose updates never overlapped, nor were cut off, is found under no other
\* value, and the record later updates and prunes go by says so: also after prunes
\* that were cut off at any point, and after it died and came back.  But the range set
\* of a field that was a number and became a string keeps it, without a record.
FoundByNoOther ==
    \A k \in Key : Settled(k) /\ history[k] = "exact" =>
        /\ idxv[k] = payload[k]
        /\ \A i \in Index : k \in idx[i] => i \in payload[k] \cup left[k]

\* An indexed key that will expire is in the expiry queue, so that its entries go with
\* it.  Two keys are left to the sweeper: one that was dead-lettered, and one whose
\* flush came between the pruner's look at it and the pruner's ZREM.
QueuedToDie ==
    \A k \in Key : Settled(k) /\ history[k] = "exact" /\ k \in expiring \ missed => k \in queue

\* No dead key stays in an index the sweeper knows of, whatever the queue missed and
\* the races left.
OutageEnds == <>[](\A p \in Pruner : prune[p] # Failed)

EventuallyPruned ==
    OutageEnds => <>[](\A i \in reg : \A k \in idx[i] : payload[k] # None)
=============================================================================
