------------------------------ MODULE Batcher ------------------------------
(***************************************************************************)
(* Batched writes and the shutdown of a pod: writers hand their entries to *)
(* the batcher goroutine (internal/shield/shield.go), which runs their     *)
(* scripts in one pipeline and answers each of them, while DrainAndClose   *)
(* (sluice.go) stops the batcher, then the flush engine, then Redis.       *)
(*                                                                         *)
(* One band, flushed by the band goroutine of this pod.  A cycle of it is  *)
(* one step here: FlushEngine has the interleavings within a cycle, and    *)
(* the other pods.  Writes are numbered as they begin, in all keys         *)
(* together, and the number is the payload.                                *)
(***************************************************************************)
EXTENDS Integers, Sequences, FiniteSets, FiniteSetsExt

CONSTANTS
    Key,        \* correlation keys of the band
    Writer,     \* goroutines calling Write
    BatchSize,  \* entries of a full batch
    Capacity,   \* entries batchCh holds
    MaxBatch,   \* Config.MaxBatchSize of the flush engine
    MaxWrites   \* bound: writes

ASSUME BatcherAssumption ==
    /\ IsFiniteSet(Key)
    /\ {BatchSize, Capacity, MaxBatch} \subseteq Nat \ {0}
    /\ MaxWrites \in Nat

VARIABLES
    \* The batcher.
    batchCh,      \* entries handed in
    batchRunning, \* the batcher takes entries
    stopBatch,    \* the channel stopBatch is closed
    batcher,      \* where runBatcher is, and where flushBatch goes back to
    buf,          \* entries of the current batch
    errs,         \* results of the current pipeline
    \* Writers.
    call,         \* what each writer is doing
    done,         \* what the reply channel of each write was sent
    \* The band in Redis and in the store.
    journal,      \* write the payload hash of each key holds
    dirty,        \* members of the dirty set
    sink,         \* write each document holds
    \* The band goroutine of the flush engine.
    stopCh,       \* it has been told to stop
    flushing,     \* it has not returned
    \* DrainAndClose.
    closer,
    \* History, read by no action.
    begun,        \* number of writes begun
    executed,     \* writes whose script has run
    earlier,      \* for each key and write of it, the writes that were over when it began
    flushedAll    \* the final flush took and stored whatever was dirty

batching == <<batchCh, batchRunning, stopBatch, batcher, buf, errs>>
band     == <<journal, dirty, sink>>
flusher  == <<stopCh, flushing, flushedAll>>
history  == <<begun, executed, earlier>>
vars     == <<batching, call, done, band, flusher, closer, history>>

Write   == 1..MaxWrites
Idle    == [at |-> "idle"]
Entry   == [n : Write, key : Key]
Nothing == [k \in Key |-> 0]

Init ==
    /\ batchCh = <<>> /\ buf = <<>> /\ errs = <<>>
    /\ batchRunning = TRUE /\ stopBatch = FALSE
    /\ batcher = [at |-> "select", then |-> "select"]
    /\ call = [w \in Writer |-> Idle]
    /\ done = [n \in Write |-> "none"]
    /\ journal = Nothing /\ sink = Nothing /\ dirty = {}
    /\ stopCh = FALSE /\ flushing = TRUE /\ flushedAll = FALSE
    /\ closer = "open"
    /\ begun = 0
    /\ executed = {}
    /\ earlier = [k \in Key |-> [n \in Write |-> {}]]

-----------------------------------------------------------------------------
(* Which writes are over, for the properties: those that have been         *)
(* answered, and those whose caller gave up that will not run any more.    *)

InBatcher == {batchCh[i].n : i \in DOMAIN batchCh} \union {buf[i].n : i \in DOMAIN buf}

Returned == (1..begun) \ {call[w].n : w \in {v \in Writer : call[v] # Idle}}

Over == {n \in Returned : n \in InBatcher => done[n] # "none"}

-----------------------------------------------------------------------------
(* Writers: Sluice.Write over Shield.writeWithKind.                        *)

\* The closed flag is read once, at the start.
Enter(w, k) ==
    /\ call[w] = Idle
    /\ closer = "open"
    /\ begun < MaxWrites
    /\ begun' = begun + 1
    /\ call' = [call EXCEPT ![w] = [at |-> "entered", n |-> begun + 1, key |-> k]]
    /\ earlier' = [earlier EXCEPT ![k][begun + 1] = Over \union {0}]
    /\ UNCHANGED <<batching, done, band, flusher, closer, executed>>

\* ErrLibraryClosed.
Refuse(w) ==
    /\ call[w] = Idle
    /\ closer # "open"
    /\ UNCHANGED vars

\* RLock: a Lock that is waiting goes first.
MayReadLock == closer # "lock"

\* enqueueBatched: batched, under the read lock until the entry is handed over,
\* or direct.
EnqueueBatched(w) ==
    /\ call[w].at = "entered"
    /\ MayReadLock
    /\ call' = [call EXCEPT ![w].at = IF batchRunning THEN "handoff" ELSE "direct"]
    /\ UNCHANGED <<batching, done, band, flusher, closer, history>>

\* Mutant: the writer is answered as soon as its entry is buffered.
SendAndAnswer(w) ==
    /\ call[w].at = "handoff"
    /\ Len(batchCh) < Capacity
    /\ batchCh' = Append(batchCh, [n |-> call[w].n, key |-> call[w].key])
    /\ done' = [done EXCEPT ![call[w].n] = "ok"]
    /\ call' = [call EXCEPT ![w].at = "wait"]
    /\ UNCHANGED <<batchRunning, stopBatch, batcher, buf, errs, band, flusher, closer,
                   begun, executed, earlier>>

Send(w) ==
    /\ call[w].at = "handoff"
    /\ Len(batchCh) < Capacity
    /\ batchCh' = Append(batchCh, [n |-> call[w].n, key |-> call[w].key])
    /\ call' = [call EXCEPT ![w].at = "wait"]
    /\ UNCHANGED <<batchRunning, stopBatch, batcher, buf, errs, done, band, flusher, closer,
                   begun, executed, earlier>>

\* The context ends, while the channel is full or the reply is outstanding.
GiveUp(w) ==
    /\ call[w].at \in {"handoff", "wait"}
    /\ call' = [call EXCEPT ![w] = Idle]
    /\ UNCHANGED <<batching, done, band, flusher, closer, history>>

Receive(w) ==
    /\ call[w].at = "wait"
    /\ done[call[w].n] # "none"
    /\ call' = [call EXCEPT ![w] = Idle]
    /\ UNCHANGED <<batching, done, band, flusher, closer, history>>

\* atomicWriteLua, for write n of k.
AtomicWrite(k, n) ==
    /\ journal' = [journal EXCEPT ![k] = n]
    /\ dirty' = dirty \union {k}
    /\ executed' = executed \union {n}
    /\ UNCHANGED sink

\* The script of write n of k returns result r; an error may come after it ran.
ScriptReturns(k, n, r) ==
    \/ r \in {"ok", "error"} /\ closer # "done" /\ AtomicWrite(k, n)
    \/ r # "ok" /\ UNCHANGED <<band, executed>>

\* The write past the batcher.
WriteDirect(w) ==
    /\ call[w].at = "direct"
    /\ \E r \in {"ok", "error"} : ScriptReturns(call[w].key, call[w].n, r)
    /\ call' = [call EXCEPT ![w] = Idle]
    /\ UNCHANGED <<batching, done, flusher, closer, begun, earlier>>

-----------------------------------------------------------------------------
(* runBatcher.                                                             *)

ToDo(b) == [i \in DOMAIN b |-> "todo"]

\* flush: the pipeline of what is in b, unless that is nothing, and then on to p.
Flush(b, p) ==
    batcher' = IF b = <<>> THEN [at |-> p, then |-> p] ELSE [at |-> "pipeline", then |-> p]

\* Mutant: an entry more than batchSize.
TakeEntryOverfull ==
    /\ batcher.at \in {"select", "drain"}
    /\ batchCh # <<>>
    /\ batchCh' = Tail(batchCh)
    /\ buf' = Append(buf, Head(batchCh))
    /\ errs' = ToDo(buf')
    /\ IF Len(buf') > BatchSize THEN Flush(buf', batcher.at) ELSE UNCHANGED batcher
    /\ UNCHANGED <<batchRunning, stopBatch, call, done, band, flusher, closer, history>>

\* An entry off the channel; a full batch is flushed at once.
TakeEntry ==
    /\ batcher.at \in {"select", "drain"}
    /\ batchCh # <<>>
    /\ batchCh' = Tail(batchCh)
    /\ buf' = Append(buf, Head(batchCh))
    /\ errs' = ToDo(buf')
    /\ IF Len(buf') >= BatchSize THEN Flush(buf', batcher.at) ELSE UNCHANGED batcher
    /\ UNCHANGED <<batchRunning, stopBatch, call, done, band, flusher, closer, history>>

Tick ==
    /\ batcher.at = "select"
    /\ Flush(buf, "select")
    /\ UNCHANGED <<batchCh, batchRunning, stopBatch, buf, errs, call, done, band, flusher, closer,
                   history>>

\* Mutant: the batcher returns with its last batch and leaves the channel.
BeginDrainAtEnd ==
    /\ batcher.at = "select"
    /\ stopBatch
    /\ Flush(buf, "gone")
    /\ UNCHANGED <<batchCh, batchRunning, stopBatch, buf, errs, call, done, band, flusher, closer,
                   history>>

\* The select finds stopBatch closed: drain what is left ...
BeginDrain ==
    /\ batcher.at = "select"
    /\ stopBatch
    /\ batcher' = [at |-> "drain", then |-> "drain"]
    /\ UNCHANGED <<batchCh, batchRunning, stopBatch, buf, errs, call, done, band, flusher, closer,
                   history>>

\* Mutant: no return after the last flush.
EndDrainNever ==
    /\ batcher.at = "drain"
    /\ batchCh = <<>>
    /\ Flush(buf, "drain")
    /\ UNCHANGED <<batchCh, batchRunning, stopBatch, buf, errs, call, done, band, flusher, closer,
                   history>>

\* ... until the channel is empty.
EndDrain ==
    /\ batcher.at = "drain"
    /\ batchCh = <<>>
    /\ Flush(buf, "gone")
    /\ UNCHANGED <<batchCh, batchRunning, stopBatch, buf, errs, call, done, band, flusher, closer,
                   history>>

-----------------------------------------------------------------------------
(* flushBatch over pipelineWrites.                                         *)

Pending(s) == {i \in DOMAIN errs : errs[i] = s}

\* One script of the pipeline, in the order of the batch.  NOSCRIPT the first
\* time is remembered, the second time it is an error.
RunScript(i) ==
    /\ batcher.at = "pipeline"
    /\ i \in DOMAIN buf
    /\ errs[i] \in {"todo", "again"}
    /\ i = Min(Pending(errs[i]))
    /\ \E r \in {"ok", "error"} \union IF errs[i] = "todo" THEN {"noscript"} ELSE {} :
        /\ ScriptReturns(buf[i].key, buf[i].n, r)
        /\ errs' = [errs EXCEPT ![i] = r]
    /\ UNCHANGED <<batchCh, batchRunning, stopBatch, batcher, buf, call, done, flusher, closer,
                   begun, earlier>>

\* The script is loaded again for the entries that need it, or that fails.
Reload ==
    /\ batcher.at = "pipeline"
    /\ Pending("todo") = {} /\ Pending("noscript") # {}
    /\ \E r \in {"again", "error"} :
        errs' = [i \in DOMAIN errs |-> IF errs[i] = "noscript" THEN r ELSE errs[i]]
    /\ UNCHANGED <<batchCh, batchRunning, stopBatch, batcher, buf, call, done, band, flusher, closer,
                   history>>

\* Mutant: every writer gets the result of the first entry.
ReplyFirst(n) == errs[1]

\* What the reply channel of write n of the batch is sent.
ReplyOf(n) == errs[CHOOSE i \in DOMAIN buf : buf[i].n = n]

\* Every entry's writer gets the entry's own result; the sends never block.
Deliver ==
    /\ batcher.at = "pipeline"
    /\ \A i \in DOMAIN errs : errs[i] \in {"ok", "error"}
    /\ done' = [n \in Write |->
                  IF \E i \in DOMAIN buf : buf[i].n = n THEN ReplyOf(n) ELSE done[n]]
    /\ batcher' = [batcher EXCEPT !.at = batcher.then]
    /\ buf' = <<>> /\ errs' = <<>>
    /\ UNCHANGED <<batchCh, batchRunning, stopBatch, call, band, flusher, closer, history>>

-----------------------------------------------------------------------------
(* The band goroutine.                                                     *)

\* flushBand, for the select of runBand that took a tick or a signal, or found
\* stopCh closed (final): at most one batch of the dirty set goes to the store and
\* is committed, or the cycle fails.
FlushBand(final) ==
    /\ flushing
    /\ IF final THEN stopCh ELSE dirty # {}
    /\ \/ \E B \in SUBSET dirty :
            /\ Cardinality(B) = Min({MaxBatch, Cardinality(dirty)})
            /\ sink' = [k \in Key |-> IF k \in B THEN journal[k] ELSE sink[k]]
            /\ dirty' = dirty \ B
            /\ flushedAll' = (final /\ B = dirty)
       \/ UNCHANGED <<sink, dirty, flushedAll>>
    /\ flushing' = ~final
    /\ UNCHANGED <<batching, call, done, journal, stopCh, closer, history>>

-----------------------------------------------------------------------------
(* DrainAndClose.  The DLQ, gauge and sweeper goroutines, which it cancels *)
(* first, touch nothing that is modelled here.                             *)

\* closed.CompareAndSwap.
BeginClose ==
    /\ closer = "open"
    /\ closer' = "closed"
    /\ UNCHANGED <<batching, call, done, band, flusher, history>>

\* StopBatcher calls Lock, which from now on goes before any RLock ...
StopBatcher ==
    /\ closer = "closed"
    /\ closer' = "lock"
    /\ UNCHANGED <<batching, call, done, band, flusher, history>>

\* Mutant: batchRunning is cleared without the lock.
StopTakingAtOnce ==
    /\ closer = "lock"
    /\ batchRunning' = FALSE
    /\ stopBatch' = TRUE
    /\ closer' = "await"
    /\ UNCHANGED <<batchCh, batcher, buf, errs, call, done, band, flusher, history>>

\* ... and gets it when no writer is handing over.  Under the lock batchRunning
\* is cleared; then stopBatch is closed, which the batcher may see any time later.
StopTaking ==
    /\ closer = "lock"
    /\ \A w \in Writer : call[w].at # "handoff"
    /\ batchRunning' = FALSE
    /\ stopBatch' = TRUE
    /\ closer' = "await"
    /\ UNCHANGED <<batchCh, batcher, buf, errs, call, done, band, flusher, history>>

\* Mutant: no batchWg.Wait.
StopEngineAtOnce ==
    /\ closer = "await"
    /\ stopCh' = TRUE
    /\ closer' = "engine"
    /\ UNCHANGED <<batching, call, done, band, flushing, flushedAll, history>>

\* batchWg.Wait, and then DrainAndStop of the engine.
StopEngine ==
    /\ closer = "await"
    /\ batcher.at = "gone"
    /\ stopCh' = TRUE
    /\ closer' = "engine"
    /\ UNCHANGED <<batching, call, done, band, flushing, flushedAll, history>>

\* The band goroutine has returned: Redis and the sink are closed.
CloseRedis ==
    /\ closer = "engine"
    /\ ~flushing
    /\ closer' = "done"
    /\ UNCHANGED <<batching, call, done, band, flusher, history>>

-----------------------------------------------------------------------------
WriterStep(w) == EnqueueBatched(w) \/ Send(w) \/ Receive(w) \/ WriteDirect(w)

BatcherStep ==
    \/ TakeEntry \/ Tick \/ BeginDrain \/ EndDrain
    \/ \E i \in 1..BatchSize : RunScript(i)
    \/ Reload \/ Deliver

CloserStep == StopBatcher \/ StopTaking \/ StopEngine \/ CloseRedis

Next ==
    \/ \E w \in Writer, k \in Key : Enter(w, k)
    \/ \E w \in Writer : Refuse(w) \/ GiveUp(w) \/ WriterStep(w)
    \/ BatcherStep
    \/ FlushBand(FALSE) \/ FlushBand(TRUE)
    \/ BeginClose \/ CloserStep

Spec == Init /\ [][Next]_vars

\* Goroutines that can go on do, every call to Redis and to the store has a
\* deadline, and a select that finds stopCh closed every time takes that case some
\* time.  No writer need give up, and nobody need close.
FairSpec ==
    /\ Spec
    /\ \A w \in Writer : WF_vars(WriterStep(w))
    /\ WF_vars(BatcherStep)
    /\ WF_vars(FlushBand(TRUE))
    /\ WF_vars(CloserStep)

-----------------------------------------------------------------------------
(* Properties.                                                             *)

\* Every variable has its type; neither the channel nor a batch overflows.
TypeOK ==
    /\ batchCh \in Seq(Entry) /\ Len(batchCh) <= Capacity
    /\ {batchRunning, stopBatch} \subseteq BOOLEAN
    /\ batcher.at \in {"select", "drain", "pipeline", "gone"}
    /\ buf \in Seq(Entry) /\ Len(buf) <= BatchSize
    /\ DOMAIN errs = DOMAIN buf
    /\ \A w \in Writer : call[w] # Idle => call[w].n \in Write /\ call[w].key \in Key
    /\ done \in [Write -> {"none", "ok", "error"}]
    /\ {journal, sink} \subseteq [Key -> 0..MaxWrites]
    /\ dirty \subseteq Key
    /\ {stopCh, flushing, flushedAll} \subseteq BOOLEAN
    /\ closer \in {"open", "closed", "lock", "await", "engine", "done"}
    /\ begun \in 0..MaxWrites
    /\ executed \subseteq Write

\* README.md:524, "Ack means journaled" for each caller's own entry: a write is
\* not answered with nil unless its script has run, whatever became of the other
\* entries of its pipeline and of the reload after NOSCRIPT.
AckMeansJournaled == \A n \in Write : done[n] = "ok" => n \in executed

\* A payload is never replaced by one whose write was over before its own began,
\* whichever of them went through the batcher, through a reload or past it.
JournalOrder ==
    [][\A k \in Key : journal[k] # 0 /\ journal'[k] # journal[k]
                        => journal'[k] \notin earlier[k][journal[k]]]_vars

\* Comment of StopBatcher: every entry already queued is flushed and its writer
\* gets its result.  When the batcher is gone nothing is left in the channel,
\* nothing can come, and every entry it was handed has been answered.
NoEntryStranded ==
    batcher.at = "gone" =>
        /\ batchCh = <<>> /\ buf = <<>>
        /\ \A w \in Writer : call[w].at # "handoff"
        /\ \A w \in Writer : call[w].at = "wait" => done[call[w].n] # "none"

\* DrainAndClose: unless the final flush failed or left part of the dirty set
\* behind, the store has every write the batcher acknowledged, or one that is not
\* older.
CloseFlushes ==
    closer = "done" /\ flushedAll =>
        \A k \in Key, n \in Write : done[n] = "ok" => sink[k] \notin earlier[k][n]

\* A write returns even if its context never ends: through a full channel, a
\* shutdown, or the batcher's last batch.
WritesReturn == \A w \in Writer : call[w] # Idle ~> call[w] = Idle

\* DrainAndClose returns, whatever the writers and the batcher are doing.
CloseReturns == closer # "open" ~> closer = "done"
=============================================================================
