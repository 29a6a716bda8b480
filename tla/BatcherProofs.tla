---------------------------- MODULE BatcherProofs ----------------------------
(***************************************************************************)
(* Proofs, for any keys, writers and sizes, of the safety properties of    *)
(* Batcher: acknowledged means journaled, the journal's order, and that    *)
(* the shutdown strands no entry and leaves no acknowledged write behind.  *)
(*                                                                         *)
(* What they rest on is where a write can be: with its caller until it is  *)
(* handed over, then in the channel, then in the batch, and answered when  *)
(* it has left that; and in no two of these at once.                       *)
(***************************************************************************)
EXTENDS Batcher, SequenceTheorems, TLAPS

\* The states of a caller, of the batcher and of a script.
CallType == {Idle} \cup [at : {"entered", "handoff", "direct", "wait"}, n : Write, key : Key]
LoopType == [at : {"select", "drain", "pipeline", "gone"}, then : {"select", "drain", "gone"}]
Result   == {"todo", "noscript", "again", "ok", "error"}

ChannelType ==
    /\ batchCh \in Seq(Entry) /\ Len(batchCh) \leq Capacity
    /\ buf \in Seq(Entry)

\* A batch that is not being flushed has room for an entry.
BatchType ==
    /\ batcher \in LoopType
    /\ Len(buf) \leq BatchSize
    /\ batcher.at \in {"select", "drain"} => Len(buf) < BatchSize
    /\ DOMAIN errs = DOMAIN buf
    /\ \A i \in DOMAIN errs : errs[i] \in Result

CallsType ==
    /\ call \in [Writer -> CallType]
    /\ begun \in 0..MaxWrites
    /\ earlier \in [Key -> [Write -> SUBSET (0..MaxWrites)]]

DoneType == done \in [Write -> {"none", "ok", "error"}]

BandType ==
    /\ journal \in [Key -> 0..MaxWrites] /\ sink \in [Key -> 0..MaxWrites]
    /\ dirty \subseteq Key
    /\ executed \subseteq Write

FlagsType ==
    /\ batchRunning \in BOOLEAN /\ stopBatch \in BOOLEAN
    /\ stopCh \in BOOLEAN /\ flushing \in BOOLEAN /\ flushedAll \in BOOLEAN
    /\ closer \in {"open", "closed", "lock", "await", "engine", "done"}

TypeInv == ChannelType /\ BatchType /\ CallsType /\ DoneType /\ BandType /\ FlagsType

-----------------------------------------------------------------------------
(* The steps of the system, by the state they change.                      *)

queues == <<batchCh, buf>>

LEMMA QueueSteps ==
    ASSUME [Next]_vars
    PROVE  \/ UNCHANGED queues
           \/ \E w \in Writer : Send(w)
           \/ TakeEntry \/ Deliver
  <1>. USE DEF queues, batching
  <1>1. ASSUME NEW w \in Writer,
               \/ \E k \in Key : Enter(w, k)
               \/ Refuse(w) \/ GiveUp(w) \/ EnqueueBatched(w) \/ Receive(w) \/ WriteDirect(w)
        PROVE  UNCHANGED queues
    BY <1>1 DEF Enter, Refuse, GiveUp, EnqueueBatched, Receive, WriteDirect, vars
  <1>2. ASSUME Tick \/ BeginDrain \/ EndDrain \/ Reload \/ (\E i \in 1..BatchSize : RunScript(i))
        PROVE  UNCHANGED queues
    BY <1>2 DEF Tick, BeginDrain, EndDrain, Reload, RunScript
  <1>3. ASSUME FlushBand(TRUE) \/ FlushBand(FALSE) \/ BeginClose \/ CloserStep
        PROVE  UNCHANGED queues
    BY <1>3 DEF FlushBand, BeginClose, CloserStep, StopBatcher, StopTaking, StopEngine, CloseRedis
  <1>. QED BY <1>1, <1>2, <1>3 DEF Next, WriterStep, BatcherStep, vars

LEMMA LoopSteps ==
    ASSUME [Next]_vars
    PROVE  \/ UNCHANGED <<batcher, buf, errs>>
           \/ TakeEntry \/ Tick \/ BeginDrain \/ EndDrain \/ Reload \/ Deliver
           \/ \E i \in 1..BatchSize : RunScript(i)
  <1>. USE DEF batching
  <1>1. ASSUME NEW w \in Writer,
               \/ \E k \in Key : Enter(w, k)
               \/ Refuse(w) \/ GiveUp(w) \/ WriterStep(w)
        PROVE  UNCHANGED <<batcher, buf, errs>>
    BY <1>1 DEF WriterStep, Enter, Refuse, GiveUp, EnqueueBatched, Send, Receive, WriteDirect, vars
  <1>2. ASSUME FlushBand(TRUE) \/ FlushBand(FALSE) \/ BeginClose \/ CloserStep
        PROVE  UNCHANGED <<batcher, buf, errs>>
    BY <1>2 DEF FlushBand, BeginClose, CloserStep, StopBatcher, StopTaking, StopEngine, CloseRedis
  <1>. QED BY <1>1, <1>2 DEF Next, BatcherStep, vars

\* A caller moves on, or is done with its write; only Enter begins one.
Ends(w) == /\ call[w].at \in {"handoff", "wait", "direct"}
           /\ call' = [call EXCEPT ![w] = Idle]

LEMMA CallSteps ==
    ASSUME [Next]_vars
    PROVE  \/ \E w \in Writer, k \in Key : Enter(w, k)
           \/ /\ UNCHANGED <<begun, earlier>>
              /\ \/ call' = call
                 \/ \E w \in Writer : EnqueueBatched(w) \/ Send(w) \/ Ends(w)
  <1>. USE DEF history
  <1>1. ASSUME NEW w \in Writer, EnqueueBatched(w) \/ Send(w)
        PROVE  UNCHANGED <<begun, earlier>>
    BY <1>1 DEF EnqueueBatched, Send
  <1>2. ASSUME NEW w \in Writer, GiveUp(w) \/ Receive(w) \/ WriteDirect(w)
        PROVE  UNCHANGED <<begun, earlier>> /\ Ends(w)
    BY <1>2 DEF GiveUp, Receive, WriteDirect, Ends
  <1>3. ASSUME BatcherStep PROVE UNCHANGED <<begun, earlier, call>>
    BY <1>3 DEF BatcherStep, TakeEntry, Tick, BeginDrain, EndDrain, Reload, RunScript, Deliver
  <1>4. ASSUME FlushBand(TRUE) \/ FlushBand(FALSE) \/ BeginClose \/ CloserStep
        PROVE  UNCHANGED <<begun, earlier, call>>
    BY <1>4 DEF FlushBand, BeginClose, CloserStep, StopBatcher, StopTaking, StopEngine, CloseRedis
  <1>5. ASSUME NEW w \in Writer, Refuse(w) PROVE UNCHANGED <<begun, earlier, call>>
    BY <1>5 DEF Refuse, vars
  <1>. QED BY <1>1, <1>2, <1>3, <1>4, <1>5 DEF Next, WriterStep, vars

\* A script runs for a caller that writes past the batcher, or for an entry.
RunsDirect(w)  == call[w].at = "direct" /\ AtomicWrite(call[w].key, call[w].n)
RunsBatched(i) == /\ batcher.at = "pipeline" /\ i \in DOMAIN buf
                  /\ AtomicWrite(buf[i].key, buf[i].n)

LEMMA BandSteps ==
    ASSUME [Next]_vars
    PROVE  \/ UNCHANGED <<band, executed>>
           \/ \E w \in Writer : RunsDirect(w)
           \/ \E i \in 1..BatchSize : RunsBatched(i)
           \/ executed' = executed /\ (FlushBand(TRUE) \/ FlushBand(FALSE))
  <1>. USE DEF history
  <1>1. ASSUME NEW w \in Writer,
               \/ \E k \in Key : Enter(w, k)
               \/ Refuse(w) \/ GiveUp(w) \/ EnqueueBatched(w) \/ Send(w) \/ Receive(w)
        PROVE  UNCHANGED <<band, executed>>
    BY <1>1 DEF Enter, Refuse, GiveUp, EnqueueBatched, Send, Receive, vars
  <1>2. ASSUME NEW w \in Writer, WriteDirect(w)
        PROVE  UNCHANGED <<band, executed>> \/ RunsDirect(w)
    BY <1>2 DEF WriteDirect, ScriptReturns, RunsDirect
  <1>3. ASSUME NEW i \in 1..BatchSize, RunScript(i)
        PROVE  UNCHANGED <<band, executed>> \/ RunsBatched(i)
    BY <1>3 DEF RunScript, ScriptReturns, RunsBatched
  <1>4. ASSUME TakeEntry \/ Tick \/ BeginDrain \/ EndDrain \/ Reload \/ Deliver
        PROVE  UNCHANGED <<band, executed>>
    BY <1>4 DEF TakeEntry, Tick, BeginDrain, EndDrain, Reload, Deliver
  <1>5. ASSUME BeginClose \/ CloserStep
        PROVE  UNCHANGED <<band, executed>>
    BY <1>5 DEF BeginClose, CloserStep, StopBatcher, StopTaking, StopEngine, CloseRedis
  <1>6. ASSUME FlushBand(TRUE) \/ FlushBand(FALSE) PROVE executed' = executed
    BY <1>6 DEF FlushBand
  <1>. QED BY <1>1, <1>2, <1>3, <1>4, <1>5, <1>6 DEF Next, WriterStep, BatcherStep, vars

LEMMA DoneSteps ==
    ASSUME [Next]_vars
    PROVE  done' = done \/ Deliver
  <1>1. ASSUME NEW w \in Writer,
               \/ \E k \in Key : Enter(w, k)
               \/ Refuse(w) \/ GiveUp(w) \/ WriterStep(w)
        PROVE  done' = done
    BY <1>1 DEF WriterStep, Enter, Refuse, GiveUp, EnqueueBatched, Send, Receive, WriteDirect, vars
  <1>2. ASSUME TakeEntry \/ Tick \/ BeginDrain \/ EndDrain \/ Reload
               \/ \E i \in 1..BatchSize : RunScript(i)
        PROVE  done' = done
    BY <1>2 DEF TakeEntry, Tick, BeginDrain, EndDrain, Reload, RunScript
  <1>3. ASSUME FlushBand(TRUE) \/ FlushBand(FALSE) \/ BeginClose \/ CloserStep
        PROVE  done' = done
    BY <1>3 DEF FlushBand, BeginClose, CloserStep, StopBatcher, StopTaking, StopEngine, CloseRedis
  <1>. QED BY <1>1, <1>2, <1>3 DEF Next, BatcherStep, vars
LEMMA FlagSteps ==
    ASSUME [Next]_vars
    PROVE  \/ UNCHANGED <<batchRunning, stopBatch, flusher, closer>>
           \/ FlushBand(TRUE) \/ FlushBand(FALSE)
           \/ BeginClose \/ CloserStep
  <1>. USE DEF batching
  <1>1. ASSUME NEW w \in Writer,
               \/ \E k \in Key : Enter(w, k)
               \/ Refuse(w) \/ GiveUp(w) \/ WriterStep(w)
        PROVE  UNCHANGED <<batchRunning, stopBatch, flusher, closer>>
    BY <1>1 DEF WriterStep, Enter, Refuse, GiveUp, EnqueueBatched, Send, Receive, WriteDirect, vars
  <1>2. ASSUME BatcherStep
        PROVE  UNCHANGED <<batchRunning, stopBatch, flusher, closer>>
    BY <1>2 DEF BatcherStep, TakeEntry, Tick, BeginDrain, EndDrain, Reload, RunScript, Deliver
  <1>. QED BY <1>1, <1>2 DEF Next, vars

-----------------------------------------------------------------------------
(* Type correctness.                                                       *)

LEMMA QueueFacts ==
    ASSUME ChannelType
    PROVE  /\ Len(batchCh) \in Nat /\ DOMAIN batchCh = 1..Len(batchCh)
           /\ Len(buf) \in Nat /\ DOMAIN buf = 1..Len(buf)
           /\ \A i \in 1..Len(batchCh) : batchCh[i] \in Entry
           /\ \A i \in 1..Len(buf) : buf[i] \in Entry
           /\ Capacity \in Nat \ {0} /\ BatchSize \in Nat \ {0} /\ MaxWrites \in Nat
  <1>1. \A i \in 1..Len(batchCh) : batchCh[i] \in Entry
    BY ElementOfSeq DEF ChannelType
  <1>2. \A i \in 1..Len(buf) : buf[i] \in Entry
    BY ElementOfSeq DEF ChannelType
  <1>. QED BY <1>1, <1>2, LenProperties, BatcherAssumption DEF ChannelType

\* What a caller hands over goes to the end of the channel.
LEMMA SendsEntry ==
    ASSUME ChannelType, CallsType, NEW w \in Writer, Send(w)
    PROVE  /\ call[w].n \in Write /\ call[w].key \in Key /\ call[w].at = "handoff"
           /\ batchCh' \in Seq(Entry) /\ buf' = buf
           /\ Len(batchCh') = Len(batchCh) + 1 /\ Len(batchCh) < Capacity
           /\ \A i \in 1..Len(batchCh) : batchCh'[i] = batchCh[i]
           /\ batchCh'[Len(batchCh) + 1] = [n |-> call[w].n, key |-> call[w].key]
  <1>1. call[w].n \in Write /\ call[w].key \in Key /\ call[w].at = "handoff"
    BY DEF Send, CallsType, CallType, Idle
  <1>2. [n |-> call[w].n, key |-> call[w].key] \in Entry
    BY <1>1 DEF Entry
  <1>3. batchCh \in Seq(Entry)
    BY DEF ChannelType
  <1>4. /\ batchCh' = Append(batchCh, [n |-> call[w].n, key |-> call[w].key])
        /\ Len(batchCh) < Capacity /\ buf' = buf
    BY DEF Send
  <1>. QED BY <1>1, <1>2, <1>3, <1>4, AppendProperties

\* The first entry of the channel goes to the end of the batch.
LEMMA TakesEntry ==
    ASSUME ChannelType, TakeEntry
    PROVE  /\ batchCh' \in Seq(Entry) /\ buf' \in Seq(Entry)
           /\ Len(batchCh) > 0 /\ Len(batchCh') = Len(batchCh) - 1
           /\ \A i \in 1..Len(batchCh') : batchCh'[i] = batchCh[i + 1]
           /\ Len(buf') = Len(buf) + 1
           /\ \A i \in 1..Len(buf) : buf'[i] = buf[i]
           /\ buf'[Len(buf) + 1] = batchCh[1]
  <1>1. batchCh \in Seq(Entry) /\ batchCh # <<>> /\ buf \in Seq(Entry)
    BY DEF ChannelType, TakeEntry
  <1>2. batchCh' = Tail(batchCh) /\ buf' = Append(buf, Head(batchCh))
    BY DEF TakeEntry
  <1>3. /\ Head(batchCh) \in Entry /\ Tail(batchCh) \in Seq(Entry)
        /\ Len(Tail(batchCh)) = Len(batchCh) - 1
        /\ \A i \in 1..Len(Tail(batchCh)) : Tail(batchCh)[i] = batchCh[i + 1]
    BY <1>1, HeadTailProperties
  <1>4. Len(batchCh) > 0 /\ Head(batchCh) = batchCh[1]
    BY <1>1, EmptySeq
  <1>5. /\ Append(buf, Head(batchCh)) \in Seq(Entry)
        /\ Len(Append(buf, Head(batchCh))) = Len(buf) + 1
        /\ \A i \in 1..Len(buf) : Append(buf, Head(batchCh))[i] = buf[i]
        /\ Append(buf, Head(batchCh))[Len(buf) + 1] = Head(batchCh)
    BY <1>1, <1>3, AppendProperties
  <1>. QED BY <1>2, <1>3, <1>4, <1>5

LEMMA StepChannelType ==
    ASSUME TypeInv, [Next]_vars
    PROVE  ChannelType'
  <1>. USE DEF ChannelType
  <1>a. ChannelType /\ CallsType /\ Len(batchCh) \in Nat
        /\ Capacity \in Nat /\ Len(batchCh) \leq Capacity
    BY QueueFacts DEF TypeInv
  <1>1. CASE UNCHANGED queues
    BY <1>1, <1>a DEF queues
  <1>2. ASSUME NEW w \in Writer, Send(w) PROVE ChannelType'
    <2>1. batchCh' \in Seq(Entry) /\ Len(batchCh') = Len(batchCh) + 1 /\ Len(batchCh) < Capacity
          /\ buf' = buf
      BY <1>2, <1>a, SendsEntry
    <2>. QED BY <1>a, <2>1
  <1>3. ASSUME TakeEntry PROVE ChannelType'
    <2>1. batchCh' \in Seq(Entry) /\ Len(batchCh') = Len(batchCh) - 1 /\ buf' \in Seq(Entry)
      BY <1>3, <1>a, TakesEntry
    <2>. QED BY <1>a, <2>1
  <1>4. CASE Deliver
    BY <1>4, <1>a DEF Deliver
  <1>. QED BY <1>1, <1>2, <1>3, <1>4, QueueSteps

LEMMA StepBatchType ==
    ASSUME TypeInv, [Next]_vars
    PROVE  BatchType'
  <1>. USE DEF BatchType, LoopType
  <1>a. ChannelType /\ BatchType
    BY DEF TypeInv
  <1>b. Len(buf) \in Nat /\ DOMAIN buf = 1..Len(buf) /\ BatchSize \in Nat \ {0}
    BY <1>a, QueueFacts
  <1>1. CASE UNCHANGED <<batcher, buf, errs>>
    BY <1>1, <1>a
  <1>2. CASE TakeEntry
    <2>1. buf' \in Seq(Entry) /\ Len(buf') = Len(buf) + 1
      BY <1>2, <1>a, TakesEntry
    <2>2. batcher.at \in {"select", "drain"} /\ Len(buf) < BatchSize
      BY <1>2, <1>a DEF TakeEntry
    <2>3. DOMAIN errs' = DOMAIN buf' /\ \A i \in DOMAIN errs' : errs'[i] \in Result
      BY <1>2 DEF TakeEntry, ToDo, Result
    <2>4. CASE Len(buf') >= BatchSize
      <3>1. buf' # <<>>
        BY <1>b, <2>1
      <3>2. batcher' = [at |-> "pipeline", then |-> batcher.at]
        BY <1>2, <2>4, <3>1 DEF TakeEntry, Flush
      <3>. QED BY <1>b, <2>1, <2>2, <2>3, <3>2
    <2>5. CASE ~(Len(buf') >= BatchSize)
      BY <1>2, <1>a, <1>b, <2>1, <2>3, <2>5 DEF TakeEntry
    <2>. QED BY <2>4, <2>5
  <1>3. CASE Tick \/ BeginDrain \/ EndDrain
    <2>1. buf' = buf /\ errs' = errs /\ batcher.at \in {"select", "drain"}
      BY <1>3 DEF Tick, BeginDrain, EndDrain
    <2>2. batcher' \in LoopType
      BY <1>3 DEF Tick, BeginDrain, EndDrain, Flush
    <2>. QED BY <1>a, <2>1, <2>2
  <1>4. ASSUME NEW i \in 1..BatchSize, RunScript(i) PROVE BatchType'
    <2>1. PICK r \in {"ok", "error", "noscript"} : errs' = [errs EXCEPT ![i] = r]
      BY <1>4 DEF RunScript
    <2>2. batcher' = batcher /\ buf' = buf
      BY <1>4 DEF RunScript
    <2>. QED BY <1>a, <2>1, <2>2 DEF Result
  <1>5. CASE Reload
    <2>1. PICK r \in {"again", "error"} :
            errs' = [i \in DOMAIN errs |-> IF errs[i] = "noscript" THEN r ELSE errs[i]]
      BY <1>5 DEF Reload
    <2>2. batcher' = batcher /\ buf' = buf
      BY <1>5 DEF Reload
    <2>. QED BY <1>a, <2>1, <2>2 DEF Result
  <1>6. CASE Deliver
    <2>1. buf' = <<>> /\ errs' = <<>> /\ batcher' = [batcher EXCEPT !.at = batcher.then]
      BY <1>6 DEF Deliver
    <2>2. Len(buf') = 0 /\ DOMAIN errs' = {}
      BY <2>1
    <2>. QED BY <1>a, <1>b, <2>1, <2>2
  <1>. QED BY <1>1, <1>2, <1>3, <1>4, <1>5, <1>6, LoopSteps
\* What is over was begun.
LEMMA OverBegun ==
    ASSUME CallsType
    PROVE  begun \in Nat /\ begun \leq MaxWrites /\ Over \subseteq 1..begun /\ 1..begun \subseteq Write
  <1>1. begun \in 0..MaxWrites /\ MaxWrites \in Nat
    BY BatcherAssumption DEF CallsType
  <1>. QED BY <1>1 DEF Over, Returned, Write

LEMMA StepCallsType ==
    ASSUME TypeInv, [Next]_vars
    PROVE  CallsType'
  <1>. USE DEF CallsType
  <1>a. CallsType
    BY DEF TypeInv
  <1>b. Idle \in CallType
    BY DEF CallType
  <1>1. ASSUME NEW w \in Writer, NEW k \in Key, Enter(w, k) PROVE CallsType'
    <2>1. begun' = begun + 1 /\ begun + 1 \in Write /\ begun' \in 0..MaxWrites
      BY <1>1, <1>a, BatcherAssumption DEF Enter, Write
    <2>2. call' = [call EXCEPT ![w] = [at |-> "entered", n |-> begun + 1, key |-> k]]
      BY <1>1 DEF Enter
    <2>3. [at |-> "entered", n |-> begun + 1, key |-> k] \in CallType
      BY <2>1 DEF CallType
    <2>4. call' \in [Writer -> CallType]
      BY <1>a, <2>2, <2>3
    <2>5. earlier' = [earlier EXCEPT ![k][begun + 1] = Over \union {0}]
      BY <1>1 DEF Enter
    <2>6. Over \union {0} \in SUBSET (0..MaxWrites)
      BY <1>a, OverBegun, BatcherAssumption
    <2>7. earlier' \in [Key -> [Write -> SUBSET (0..MaxWrites)]]
      BY <1>a, <2>1, <2>5, <2>6
    <2>. QED BY <2>1, <2>4, <2>7
  <1>2. ASSUME NEW w \in Writer, NEW at \in {"handoff", "wait", "direct"},
               call[w].at # "idle", call' = [call EXCEPT ![w].at = at]
        PROVE  call' \in [Writer -> CallType]
    <2>1. call[w] \in [at : {"entered", "handoff", "direct", "wait"}, n : Write, key : Key]
      BY <1>2, <1>a DEF CallType, Idle
    <2>2. [call[w] EXCEPT !.at = at] \in CallType
      BY <2>1 DEF CallType
    <2>3. call' = [call EXCEPT ![w] = [call[w] EXCEPT !.at = at]]
      BY <1>2
    <2>. QED BY <1>a, <2>2, <2>3
  <1>3. ASSUME NEW w \in Writer, EnqueueBatched(w) \/ Send(w) \/ Ends(w)
        PROVE  call' \in [Writer -> CallType]
    <2>1. CASE EnqueueBatched(w)
      <3>1. PICK at \in {"handoff", "direct"} : call' = [call EXCEPT ![w].at = at]
        BY <2>1 DEF EnqueueBatched
      <3>. QED BY <1>2, <2>1, <3>1 DEF EnqueueBatched
    <2>2. CASE Send(w)
      BY <1>2, <2>2 DEF Send
    <2>3. CASE Ends(w)
      BY <1>a, <1>b, <2>3 DEF Ends
    <2>. QED BY <1>3, <2>1, <2>2, <2>3
  <1>. QED BY <1>a, <1>1, <1>3, CallSteps

\* What Deliver sends is the result of an entry of the batch; the other reply
\* channels stay as they are.
LEMMA Delivers ==
    ASSUME TypeInv, Deliver
    PROVE  /\ DOMAIN done' = Write
           /\ \A n \in Write :
                \/ done'[n] = done[n] /\ ~ \E i \in DOMAIN buf : buf[i].n = n
                \/ \E i \in DOMAIN buf : /\ buf[i].n = n /\ done'[n] = errs[i]
                                         /\ errs[i] \in {"ok", "error"}
  <1>1. done' = [n \in Write |->
                   IF \E i \in DOMAIN buf : buf[i].n = n THEN ReplyOf(n) ELSE done[n]]
    BY DEF Deliver
  <1>2. ASSUME NEW n \in Write, \E i \in DOMAIN buf : buf[i].n = n
        PROVE  \E i \in DOMAIN buf : /\ buf[i].n = n /\ ReplyOf(n) = errs[i]
                                     /\ errs[i] \in {"ok", "error"}
    <2>. DEFINE j == CHOOSE i \in DOMAIN buf : buf[i].n = n
    <2>1. j \in DOMAIN buf /\ buf[j].n = n
      BY <1>2
    <2>2. ReplyOf(n) = errs[j] /\ errs[j] \in {"ok", "error"}
      BY <2>1 DEF ReplyOf, Deliver, TypeInv, BatchType
    <2>. QED BY <2>1, <2>2
  <1>. QED BY <1>1, <1>2

LEMMA StepDoneType ==
    ASSUME TypeInv, [Next]_vars
    PROVE  DoneType'
  <1>1. CASE Deliver
    <2>1. done' = [n \in Write |->
                     IF \E i \in DOMAIN buf : buf[i].n = n THEN ReplyOf(n) ELSE done[n]]
      BY <1>1 DEF Deliver
    <2>2. \A n \in Write : done'[n] \in {"none", "ok", "error"}
      BY <1>1, Delivers DEF TypeInv, DoneType
    <2>. QED BY <2>1, <2>2 DEF DoneType
  <1>2. CASE done' = done
    BY <1>2 DEF TypeInv, DoneType
  <1>. QED BY <1>1, <1>2, DoneSteps

\* A script is that of a write that is under way, with its caller or in the batch.
LEMMA RunsTyped ==
    ASSUME TypeInv
    PROVE  /\ \A w \in Writer : RunsDirect(w) => call[w].n \in Write /\ call[w].key \in Key
           /\ \A i \in 1..BatchSize : RunsBatched(i) => buf[i].n \in Write /\ buf[i].key \in Key
  <1>1. \A w \in Writer : RunsDirect(w) => call[w].n \in Write /\ call[w].key \in Key
    BY DEF RunsDirect, TypeInv, CallsType, CallType, Idle
  <1>2. \A i \in 1..BatchSize : RunsBatched(i) => buf[i] \in Entry
    BY QueueFacts DEF RunsBatched, TypeInv
  <1>. QED BY <1>1, <1>2 DEF Entry

LEMMA StepBandType ==
    ASSUME TypeInv, [Next]_vars
    PROVE  BandType'
  <1>. USE DEF BandType
  <1>a. BandType
    BY DEF TypeInv
  <1>b. \A n \in Write : n \in 0..MaxWrites
    BY BatcherAssumption DEF Write
  <1>1. CASE UNCHANGED <<band, executed>>
    BY <1>1, <1>a DEF band
  <1>2. ASSUME NEW k \in Key, NEW n \in Write, AtomicWrite(k, n) PROVE BandType'
    BY <1>2, <1>a, <1>b DEF AtomicWrite
  <1>3. ASSUME executed' = executed, NEW final, FlushBand(final) PROVE BandType'
    BY <1>3, <1>a DEF FlushBand, history
  <1>. QED BY <1>1, <1>2, <1>3, RunsTyped, BandSteps DEF RunsDirect, RunsBatched

LEMMA StepFlagsType ==
    ASSUME TypeInv, [Next]_vars
    PROVE  FlagsType'
  <1>. USE DEF FlagsType
  <1>a. FlagsType
    BY DEF TypeInv
  <1>1. CASE UNCHANGED <<batchRunning, stopBatch, flusher, closer>>
    BY <1>1, <1>a DEF flusher
  <1>2. ASSUME NEW final \in BOOLEAN, FlushBand(final) PROVE FlagsType'
    BY <1>2, <1>a DEF FlushBand, batching
  <1>3. CASE BeginClose \/ CloserStep
    BY <1>3, <1>a DEF BeginClose, CloserStep, StopBatcher, StopTaking, StopEngine, CloseRedis,
                      batching, flusher
  <1>. QED BY <1>1, <1>2, <1>3, FlagSteps

LEMMA InitTypeInv == Init => TypeInv
  <1>. SUFFICES ASSUME Init PROVE TypeInv
    OBVIOUS
  <1>. USE BatcherAssumption DEF Init
  <1>1. ChannelType /\ BatchType
    BY DEF ChannelType, BatchType, LoopType
  <1>2. CallsType
    BY DEF CallsType, CallType
  <1>3. DoneType /\ BandType
    BY DEF DoneType, BandType, Nothing
  <1>4. FlagsType
    BY DEF FlagsType
  <1>. QED BY <1>1, <1>2, <1>3, <1>4 DEF TypeInv

LEMMA StepTypeInv ==
    ASSUME TypeInv, [Next]_vars
    PROVE  TypeInv'
  BY StepChannelType, StepBatchType, StepCallsType, StepDoneType, StepBandType, StepFlagsType
     DEF TypeInv

LEMMA TypeInvariant == Spec => []TypeInv
  <1>1. TypeInv /\ [Next]_vars => TypeInv'
    BY StepTypeInv
  <1>. QED BY <1>1, InitTypeInv, PTL DEF Spec

\* internal/shield/shield.go:816-836, 956-1000: neither the channel nor a batch overflows,
\* every entry of the batch has a result of its own, and a reply is nil or an error.
THEOREM BatcherTypeCorrect == Spec => []TypeOK
  <1>1. TypeInv => TypeOK
    <2>. SUFFICES ASSUME TypeInv PROVE TypeOK
      OBVIOUS
    <2>1. /\ batchCh \in Seq(Entry) /\ Len(batchCh) <= Capacity
          /\ batcher.at \in {"select", "drain", "pipeline", "gone"}
          /\ buf \in Seq(Entry) /\ Len(buf) <= BatchSize
          /\ DOMAIN errs = DOMAIN buf
      BY DEF TypeInv, ChannelType, BatchType, LoopType
    <2>2. {batchRunning, stopBatch} \subseteq BOOLEAN /\ {stopCh, flushing, flushedAll} \subseteq BOOLEAN
      BY DEF TypeInv, FlagsType
    <2>3. \A w \in Writer : call[w] # Idle => call[w].n \in Write /\ call[w].key \in Key
      BY DEF TypeInv, CallsType, CallType
    <2>4. /\ done \in [Write -> {"none", "ok", "error"}]
          /\ {journal, sink} \subseteq [Key -> 0..MaxWrites]
          /\ dirty \subseteq Key
          /\ closer \in {"open", "closed", "lock", "await", "engine", "done"}
          /\ begun \in 0..MaxWrites
          /\ executed \subseteq Write
      BY DEF TypeInv, FlagsType, CallsType, DoneType, BandType
    <2>. QED BY <2>1, <2>2, <2>3, <2>4 DEF TypeOK
  <1>. QED BY <1>1, TypeInvariant, PTL
-----------------------------------------------------------------------------
(* Acknowledged means journaled.                                           *)

\* A result of nil is that of a script that has run, and so is a reply of nil.
AckInv ==
    /\ \A i \in DOMAIN buf : errs[i] = "ok" => buf[i].n \in executed
    /\ AckMeansJournaled

LEMMA ExecutedGrows ==
    ASSUME [Next]_vars
    PROVE  executed \subseteq executed'
  <1>1. ASSUME NEW k, NEW n, AtomicWrite(k, n) PROVE executed \subseteq executed'
    BY <1>1 DEF AtomicWrite
  <1>. QED BY <1>1, BandSteps DEF RunsDirect, RunsBatched

LEMMA StepAckInv ==
    ASSUME TypeInv, AckInv, [Next]_vars
    PROVE  AckInv'
  <1>a. executed \subseteq executed'
    BY ExecutedGrows
  <1>b. DOMAIN errs = DOMAIN buf
    BY DEF TypeInv, BatchType
  <1>1. ASSUME NEW n \in Write, done'[n] = "ok" PROVE n \in executed'
    <2>1. CASE done' = done
      BY <1>1, <1>a, <2>1 DEF AckInv, AckMeansJournaled
    <2>2. CASE Deliver
      BY <1>1, <1>a, <2>2, Delivers DEF AckInv, AckMeansJournaled
    <2>. QED BY <2>1, <2>2, DoneSteps
  <1>2. ASSUME NEW i \in DOMAIN buf', errs'[i] = "ok" PROVE buf'[i].n \in executed'
    <2>1. CASE buf' = buf /\ (errs'[i] = "ok" => errs[i] = "ok")
      BY <1>2, <1>a, <2>1 DEF AckInv
    <2>2. CASE TakeEntry
      BY <1>2, <2>2 DEF TakeEntry, ToDo
    <2>3. ASSUME NEW j \in 1..BatchSize, RunScript(j) PROVE buf'[i].n \in executed'
      <3>1. PICK r \in {"ok", "error", "noscript"} :
              ScriptReturns(buf[j].key, buf[j].n, r) /\ errs' = [errs EXCEPT ![j] = r]
        BY <2>3 DEF RunScript
      <3>2. buf' = buf
        BY <2>3 DEF RunScript
      <3>3. CASE i = j
        <4>1. r = "ok"
          BY <1>2, <1>b, <3>1, <3>2, <3>3
        <4>. QED BY <3>1, <3>2, <3>3, <4>1 DEF ScriptReturns, AtomicWrite
      <3>4. CASE i # j
        <4>1. errs'[i] = errs[i]
          BY <1>2, <1>b, <3>1, <3>2, <3>4
        <4>. QED BY <2>1, <3>2, <4>1
      <3>. QED BY <3>3, <3>4
    <2>4. CASE Reload
      <3>1. PICK r \in {"again", "error"} :
              errs' = [l \in DOMAIN errs |-> IF errs[l] = "noscript" THEN r ELSE errs[l]]
        BY <2>4 DEF Reload
      <3>2. buf' = buf
        BY <2>4 DEF Reload
      <3>3. errs'[i] = "ok" => errs[i] = "ok"
        BY <1>2, <1>b, <3>1, <3>2
      <3>. QED BY <2>1, <3>2, <3>3
    <2>5. CASE Deliver
      BY <1>2, <2>5 DEF Deliver
    <2>6. CASE Tick \/ BeginDrain \/ EndDrain
      BY <2>1, <2>6 DEF Tick, BeginDrain, EndDrain
    <2>. QED BY <2>1, <2>2, <2>3, <2>4, <2>5, <2>6, LoopSteps
  <1>. QED BY <1>1, <1>2 DEF AckInv, AckMeansJournaled

\* README.md:524 over internal/shield/shield.go:183-260, 1219-1235: a write through the
\* batcher is answered with nil only when its own script has run.
THEOREM AckedWritesAreJournaled == Spec => []AckMeansJournaled
  <1>1. Init => TypeInv /\ AckInv
    BY InitTypeInv DEF Init, AckInv, AckMeansJournaled
  <1>2. TypeInv /\ AckInv /\ [Next]_vars => TypeInv' /\ AckInv'
    BY StepTypeInv, StepAckInv
  <1>3. AckInv => AckMeansJournaled
    BY DEF AckInv
  <1>. QED BY <1>1, <1>2, <1>3, PTL DEF Spec

-----------------------------------------------------------------------------
(* Where a write is.                                                       *)

\* The writes handed over and not answered.
InChannel == {batchCh[i].n : i \in 1..Len(batchCh)}
InBatch   == {buf[i].n : i \in 1..Len(buf)}

\* Two callers have two writes, and none of the future is about ...
CallersApart ==
    /\ \A w \in Writer : call[w] # Idle => call[w].n \leq begun
    /\ \A v, w \in Writer : call[v] # Idle /\ call[w] # Idle /\ call[v].n = call[w].n => v = w

\* ... a write its caller has not handed over is in no queue and has no answer ...
HandedOverOnce ==
    \A w \in Writer : call[w].at \in {"entered", "handoff", "direct"} =>
        call[w].n \notin InChannel \cup InBatch /\ done[call[w].n] = "none"

\* ... one that is waited for is in a queue or has its answer ...
AnswerComes ==
    \A w \in Writer : call[w].at = "wait" =>
        call[w].n \in InChannel \cup InBatch \/ done[call[w].n] # "none"

\* ... and one in a queue is there once, without an answer.
QueuedOnce ==
    /\ \A i, j \in 1..Len(batchCh) : batchCh[i].n = batchCh[j].n => i = j
    /\ InChannel \cap InBatch = {}
    /\ \A n \in InChannel \cup InBatch : n \leq begun /\ done[n] = "none"

FutureIsClean == \A n \in Write : n > begun => done[n] = "none" /\ n \notin executed

PlacesInv == CallersApart /\ HandedOverOnce /\ AnswerComes /\ QueuedOnce /\ FutureIsClean

\* Who moves a write from one place to the next.
LEMMA PlaceSteps ==
    ASSUME [Next]_vars
    PROVE  \/ UNCHANGED <<queues, done, call, begun>>
           \/ UNCHANGED <<queues, done>> /\ \E w \in Writer, k \in Key : Enter(w, k)
           \/ UNCHANGED <<queues, done, begun>> /\ \E w \in Writer : EnqueueBatched(w) \/ Ends(w)
           \/ UNCHANGED <<buf, done, begun>> /\ \E w \in Writer : Send(w)
           \/ UNCHANGED <<done, call, begun>> /\ TakeEntry
           \/ UNCHANGED <<call, begun>> /\ Deliver
  <1>. USE DEF queues, batching, history
  <1>1. ASSUME NEW w \in Writer, NEW k \in Key, Enter(w, k) PROVE UNCHANGED <<queues, done>>
    BY <1>1 DEF Enter
  <1>2. ASSUME NEW w \in Writer, EnqueueBatched(w) PROVE UNCHANGED <<queues, done, begun>>
    BY <1>2 DEF EnqueueBatched
  <1>3. ASSUME NEW w \in Writer, GiveUp(w) \/ Receive(w) \/ WriteDirect(w)
        PROVE  UNCHANGED <<queues, done, begun>> /\ Ends(w)
    BY <1>3 DEF GiveUp, Receive, WriteDirect, Ends
  <1>4. ASSUME NEW w \in Writer, Send(w) PROVE UNCHANGED <<buf, done, begun>>
    BY <1>4 DEF Send
  <1>5. ASSUME TakeEntry PROVE UNCHANGED <<done, call, begun>>
    BY <1>5 DEF TakeEntry
  <1>6. ASSUME Deliver PROVE UNCHANGED <<call, begun>>
    BY <1>6 DEF Deliver
  <1>7. ASSUME Tick \/ BeginDrain \/ EndDrain \/ Reload \/ \E i \in 1..BatchSize : RunScript(i)
        PROVE  UNCHANGED <<queues, done, call, begun>>
    BY <1>7 DEF Tick, BeginDrain, EndDrain, Reload, RunScript
  <1>8. ASSUME FlushBand(TRUE) \/ FlushBand(FALSE) \/ BeginClose \/ CloserStep
        PROVE  UNCHANGED <<queues, done, call, begun>>
    BY <1>8 DEF FlushBand, BeginClose, CloserStep, StopBatcher, StopTaking, StopEngine, CloseRedis
  <1>9. ASSUME NEW w \in Writer, Refuse(w) PROVE UNCHANGED <<queues, done, call, begun>>
    BY <1>9 DEF Refuse, vars
  <1>. QED BY <1>1, <1>2, <1>3, <1>4, <1>5, <1>6, <1>7, <1>8, <1>9
           DEF Next, WriterStep, BatcherStep, vars

\* One caller moves.
LEMMA CallMoves ==
    ASSUME TypeInv, NEW w \in Writer
    PROVE  /\ \A k \in Key : Enter(w, k) =>
                /\ call[w] = Idle /\ call'[w] = [at |-> "entered", n |-> begun + 1, key |-> k]
                /\ begun' = begun + 1 /\ begun + 1 \in Write
                /\ \A v \in Writer \ {w} : call'[v] = call[v]
           /\ EnqueueBatched(w) =>
                /\ call[w].at = "entered" /\ call'[w].at \in {"handoff", "direct"}
                /\ call'[w].n = call[w].n /\ call'[w].key = call[w].key
                /\ \A v \in Writer \ {w} : call'[v] = call[v]
           /\ Send(w) =>
                /\ call[w].at = "handoff" /\ call'[w].at = "wait"
                /\ call'[w].n = call[w].n /\ call'[w].key = call[w].key
                /\ \A v \in Writer \ {w} : call'[v] = call[v]
           /\ Ends(w) => call'[w] = Idle /\ \A v \in Writer \ {w} : call'[v] = call[v]
  <1>a. call \in [Writer -> CallType] /\ begun \in 0..MaxWrites /\ MaxWrites \in Nat
    BY BatcherAssumption DEF TypeInv, CallsType
  <1>1. ASSUME NEW k \in Key, Enter(w, k)
        PROVE  /\ call[w] = Idle /\ call'[w] = [at |-> "entered", n |-> begun + 1, key |-> k]
               /\ begun' = begun + 1 /\ begun + 1 \in Write
               /\ \A v \in Writer \ {w} : call'[v] = call[v]
    BY <1>1, <1>a DEF Enter, Write
  <1>2. ASSUME NEW at, call[w].at # "idle", call' = [call EXCEPT ![w].at = at]
        PROVE  /\ call'[w].at = at /\ call'[w].n = call[w].n /\ call'[w].key = call[w].key
               /\ \A v \in Writer \ {w} : call'[v] = call[v]
    <2>1. call[w] \in [at : {"entered", "handoff", "direct", "wait"}, n : Write, key : Key]
      BY <1>2, <1>a DEF CallType, Idle
    <2>2. call'[w] = [call[w] EXCEPT !.at = at] /\ \A v \in Writer \ {w} : call'[v] = call[v]
      BY <1>2, <1>a
    <2>. QED BY <2>1, <2>2
  <1>3. ASSUME EnqueueBatched(w)
        PROVE  /\ call[w].at = "entered" /\ call'[w].at \in {"handoff", "direct"}
               /\ call'[w].n = call[w].n /\ call'[w].key = call[w].key
               /\ \A v \in Writer \ {w} : call'[v] = call[v]
    <2>1. PICK at \in {"handoff", "direct"} : call' = [call EXCEPT ![w].at = at]
      BY <1>3 DEF EnqueueBatched
    <2>. QED BY <1>2, <1>3, <2>1 DEF EnqueueBatched
  <1>4. ASSUME Send(w)
        PROVE  /\ call[w].at = "handoff" /\ call'[w].at = "wait"
               /\ call'[w].n = call[w].n /\ call'[w].key = call[w].key
               /\ \A v \in Writer \ {w} : call'[v] = call[v]
    BY <1>2, <1>4 DEF Send
  <1>5. ASSUME Ends(w) PROVE call'[w] = Idle /\ \A v \in Writer \ {w} : call'[v] = call[v]
    BY <1>5, <1>a DEF Ends
  <1>. QED BY <1>1, <1>3, <1>4, <1>5

\* One write moves.
LEMMA QueueMoves ==
    ASSUME TypeInv
    PROVE  /\ UNCHANGED queues => InChannel' = InChannel /\ InBatch' = InBatch
           /\ \A w \in Writer : Send(w) => /\ InChannel' = InChannel \cup {call[w].n}
                                           /\ InBatch' = InBatch
           /\ TakeEntry => /\ batchCh[1].n \in InChannel
                           /\ InChannel = InChannel' \cup {batchCh[1].n}
                           /\ InBatch' = InBatch \cup {batchCh[1].n}
           /\ Deliver => InChannel' = InChannel /\ InBatch' = {}
  <1>. USE DEF InChannel, InBatch
  <1>a. ChannelType /\ CallsType /\ Len(batchCh) \in Nat /\ Len(buf) \in Nat
    BY QueueFacts DEF TypeInv
  <1>1. ASSUME NEW w \in Writer, Send(w)
        PROVE  InChannel' = InChannel \cup {call[w].n} /\ InBatch' = InBatch
    <2>0. /\ Len(batchCh') = Len(batchCh) + 1 /\ buf' = buf
          /\ \A i \in 1..Len(batchCh) : batchCh'[i] = batchCh[i]
          /\ batchCh'[Len(batchCh) + 1] = [n |-> call[w].n, key |-> call[w].key]
      BY <1>1, <1>a, SendsEntry
    <2>1. /\ Len(batchCh') = Len(batchCh) + 1 /\ buf' = buf
          /\ \A i \in 1..Len(batchCh) : batchCh'[i] = batchCh[i]
          /\ batchCh'[Len(batchCh) + 1].n = call[w].n
      BY <2>0
    <2>2. \A i \in 1..Len(batchCh') : i \in 1..Len(batchCh) \/ i = Len(batchCh) + 1
      BY <1>a, <2>1
    <2>3. \A i \in 1..Len(batchCh) : i \in 1..Len(batchCh')
      BY <1>a, <2>1
    <2>4. Len(batchCh) + 1 \in 1..Len(batchCh')
      BY <1>a, <2>1
    <2>. QED BY <2>1, <2>2, <2>3, <2>4
  <1>2. ASSUME TakeEntry
        PROVE  /\ batchCh[1].n \in InChannel
               /\ InChannel = InChannel' \cup {batchCh[1].n}
               /\ InBatch' = InBatch \cup {batchCh[1].n}
    <2>1. /\ Len(batchCh) > 0 /\ Len(batchCh') = Len(batchCh) - 1
          /\ \A i \in 1..Len(batchCh') : batchCh'[i] = batchCh[i + 1]
          /\ Len(buf') = Len(buf) + 1
          /\ \A i \in 1..Len(buf) : buf'[i] = buf[i]
          /\ buf'[Len(buf) + 1] = batchCh[1]
      BY <1>2, <1>a, TakesEntry
    <2>2. 1 \in 1..Len(batchCh)
      BY <1>a, <2>1
    <2>3. \A i \in 1..Len(batchCh') : i + 1 \in 1..Len(batchCh)
      BY <1>a, <2>1
    <2>4. \A i \in 1..Len(batchCh) : i = 1 \/ (i - 1 \in 1..Len(batchCh') /\ (i - 1) + 1 = i)
      BY <1>a, <2>1
    <2>5. InChannel = InChannel' \cup {batchCh[1].n}
      <3>1. ASSUME NEW i \in 1..Len(batchCh') PROVE batchCh'[i].n \in InChannel
        BY <2>1, <2>3
      <3>2. ASSUME NEW i \in 1..Len(batchCh) PROVE batchCh[i].n \in InChannel' \cup {batchCh[1].n}
        <4>1. CASE i # 1
          <5>1. i - 1 \in 1..Len(batchCh') /\ (i - 1) + 1 = i
            BY <2>4, <4>1
          <5>2. batchCh'[i - 1] = batchCh[i]
            BY <2>1, <5>1
          <5>. QED BY <5>1, <5>2
        <4>. QED BY <4>1
      <3>. QED BY <2>2, <3>1, <3>2
    <2>6. \A i \in 1..Len(buf') : i \in 1..Len(buf) \/ i = Len(buf) + 1
      BY <1>a, <2>1
    <2>7. (\A i \in 1..Len(buf) : i \in 1..Len(buf')) /\ Len(buf) + 1 \in 1..Len(buf')
      BY <1>a, <2>1
    <2>8. InBatch' = InBatch \cup {batchCh[1].n}
      BY <2>1, <2>6, <2>7
    <2>. QED BY <2>2, <2>5, <2>8
  <1>3. ASSUME Deliver PROVE InChannel' = InChannel /\ InBatch' = {}
    <2>1. batchCh' = batchCh /\ Len(buf') = 0
      BY <1>3 DEF Deliver
    <2>2. \A i \in 1..Len(buf') : FALSE
      BY <2>1
    <2>. QED BY <2>1, <2>2
  <1>. QED BY <1>1, <1>2, <1>3 DEF queues

LEMMA StepCallersApart ==
    ASSUME TypeInv, CallersApart, [Next]_vars
    PROVE  CallersApart'
  <1>. USE DEF CallersApart
  <1>a. begun \in Nat /\ \A w \in Writer : call[w] # Idle => call[w].n \in Nat
    BY BatcherAssumption DEF TypeInv, CallsType, CallType, Write
  <1>1. CASE UNCHANGED <<call, begun>>
    BY <1>1
  <1>2. ASSUME NEW w \in Writer, NEW k \in Key, Enter(w, k) PROVE CallersApart'
    <2>0. /\ call'[w] = [at |-> "entered", n |-> begun + 1, key |-> k] /\ begun' = begun + 1
          /\ \A v \in Writer \ {w} : call'[v] = call[v]
      BY <1>2, CallMoves
    <2>1. /\ call'[w].n = begun + 1 /\ begun' = begun + 1
          /\ \A v \in Writer \ {w} : call'[v] = call[v]
      BY <2>0
    <2>2. \A v \in Writer \ {w} : call'[v] # Idle => call'[v].n \leq begun /\ call'[v].n \in Nat
      BY <1>a, <2>1
    <2>3. ASSUME NEW v \in Writer, call'[v] # Idle PROVE call'[v].n \leq begun'
      BY <1>a, <2>1, <2>2, <2>3
    <2>4. ASSUME NEW u \in Writer, NEW v \in Writer, call'[u] # Idle, call'[v] # Idle,
                 call'[u].n = call'[v].n
          PROVE  u = v
      <3>1. CASE u = w \/ v = w
        BY <1>a, <2>1, <2>2, <2>4, <3>1
      <3>2. CASE u # w /\ v # w
        BY <2>1, <2>4, <3>2
      <3>. QED BY <3>1, <3>2
    <2>. QED BY <2>3, <2>4
  <1>3. ASSUME begun' = begun, NEW w \in Writer, EnqueueBatched(w) \/ Send(w) \/ Ends(w)
        PROVE  CallersApart'
    <2>1. \A v \in Writer : call'[v] # Idle => call[v] # Idle /\ call'[v].n = call[v].n
      BY <1>3, CallMoves DEF Idle
    <2>. QED BY <1>3, <2>1
  <1>. QED BY <1>1, <1>2, <1>3, PlaceSteps

LEMMA StepHandedOverOnce ==
    ASSUME TypeInv, PlacesInv, [Next]_vars
    PROVE  HandedOverOnce'
  <1>. SUFFICES ASSUME NEW v \in Writer, call'[v].at \in {"entered", "handoff", "direct"}
                PROVE  call'[v].n \notin InChannel' \cup InBatch' /\ done'[call'[v].n] = "none"
    BY DEF HandedOverOnce
  <1>. DEFINE Before == /\ call[v].at \in {"entered", "handoff", "direct"}
                        /\ call'[v].n = call[v].n
              Clear  == /\ call[v].n \notin InChannel \cup InBatch /\ done[call[v].n] = "none"
                        /\ call[v].n \in Write
  <1>a. Before => Clear
    BY DEF PlacesInv, HandedOverOnce, TypeInv, CallsType, CallType, Idle
  <1>1. CASE UNCHANGED <<queues, done, call, begun>>
    BY <1>a, <1>1, QueueMoves
  <1>2. ASSUME UNCHANGED <<queues, done>>, NEW w \in Writer, NEW k \in Key, Enter(w, k)
        PROVE  call'[v].n \notin InChannel' \cup InBatch' /\ done'[call'[v].n] = "none"
    <2>1. CASE v = w
      <3>0. /\ call'[v] = [at |-> "entered", n |-> begun + 1, key |-> k]
            /\ begun + 1 \in Write
        BY <1>2, <2>1, CallMoves
      <3>1. call'[v].n = begun + 1 /\ begun + 1 \in Write /\ begun \in Nat
        BY <3>0, OverBegun DEF TypeInv
      <3>2. begun + 1 \notin InChannel \cup InBatch
        <4>1. ~(begun + 1 \leq begun) /\ begun + 1 > begun
          BY <3>1
        <4>. QED BY <4>1 DEF PlacesInv, QueuedOnce
      <3>3. done[begun + 1] = "none"
        <4>1. begun + 1 > begun
          BY <3>1
        <4>. QED BY <3>1, <4>1 DEF PlacesInv, FutureIsClean
      <3>. QED BY <1>2, <3>1, <3>2, <3>3, QueueMoves
    <2>2. CASE v # w
      <3>1. Before
        BY <1>2, <2>2, CallMoves
      <3>. QED BY <1>a, <1>2, <3>1, QueueMoves
    <2>. QED BY <2>1, <2>2
  <1>3. ASSUME UNCHANGED <<queues, done, begun>>, NEW w \in Writer, EnqueueBatched(w) \/ Ends(w)
        PROVE  call'[v].n \notin InChannel' \cup InBatch' /\ done'[call'[v].n] = "none"
    <2>1. Before
      BY <1>3, CallMoves DEF Idle
    <2>. QED BY <1>a, <1>3, <2>1, QueueMoves
  <1>4. ASSUME UNCHANGED <<buf, done, begun>>, NEW w \in Writer, Send(w)
        PROVE  call'[v].n \notin InChannel' \cup InBatch' /\ done'[call'[v].n] = "none"
    <2>1. v # w /\ Before /\ call[w].at = "handoff"
      BY <1>4, CallMoves
    <2>2. call[v].n # call[w].n
      BY <2>1 DEF PlacesInv, CallersApart, Idle
    <2>3. InChannel' = InChannel \cup {call[w].n} /\ InBatch' = InBatch
      BY <1>4, QueueMoves
    <2>. QED BY <1>a, <1>4, <2>1, <2>2, <2>3
  <1>5. CASE UNCHANGED <<done, call, begun>> /\ TakeEntry
    <2>1. InChannel' \cup InBatch' \subseteq InChannel \cup InBatch
      BY <1>5, QueueMoves
    <2>. QED BY <1>a, <1>5, <2>1
  <1>6. CASE UNCHANGED <<call, begun>> /\ Deliver
    <2>1. InChannel' = InChannel /\ InBatch' = {} /\ Clear /\ call' = call
      BY <1>a, <1>6, QueueMoves
    <2>2. done'[call[v].n] = done[call[v].n]
      <3>1. \A i \in DOMAIN buf : buf[i].n # call[v].n
        BY <2>1, QueueFacts DEF InBatch, TypeInv
      <3>. QED BY <1>6, <2>1, <3>1, Delivers
    <2>. QED BY <2>1, <2>2
  <1>. QED BY <1>1, <1>2, <1>3, <1>4, <1>5, <1>6, PlaceSteps

LEMMA StepAnswerComes ==
    ASSUME TypeInv, PlacesInv, [Next]_vars
    PROVE  AnswerComes'
  <1>. SUFFICES ASSUME NEW v \in Writer, call'[v].at = "wait"
                PROVE  call'[v].n \in InChannel' \cup InBatch' \/ done'[call'[v].n] # "none"
    BY DEF AnswerComes
  <1>. DEFINE Waits == call[v].at = "wait" /\ call'[v].n = call[v].n
              Comes == call[v].n \in InChannel \cup InBatch \/ done[call[v].n] # "none"
  <1>a. Waits => Comes /\ call[v].n \in Write
    BY DEF PlacesInv, AnswerComes, TypeInv, CallsType, CallType, Idle
  <1>1. CASE UNCHANGED <<queues, done, call, begun>>
    BY <1>a, <1>1, QueueMoves
  <1>2. ASSUME UNCHANGED <<queues, done>>, NEW w \in Writer,
               EnqueueBatched(w) \/ Ends(w) \/ \E k \in Key : Enter(w, k)
        PROVE  call'[v].n \in InChannel' \cup InBatch' \/ done'[call'[v].n] # "none"
    <2>1. Waits
      <3>1. CASE EnqueueBatched(w) \/ Ends(w)
        BY <3>1, CallMoves DEF Idle
      <3>2. ASSUME NEW k \in Key, Enter(w, k) PROVE Waits
        <4>1. /\ call'[w] = [at |-> "entered", n |-> begun + 1, key |-> k]
              /\ \A u \in Writer \ {w} : call'[u] = call[u]
          BY <3>2, CallMoves
        <4>2. v # w
          BY <4>1
        <4>. QED BY <4>1, <4>2
      <3>. QED BY <1>2, <3>1, <3>2
    <2>. QED BY <1>a, <1>2, <2>1, QueueMoves
  <1>3. ASSUME UNCHANGED <<buf, done, begun>>, NEW w \in Writer, Send(w)
        PROVE  call'[v].n \in InChannel' \cup InBatch' \/ done'[call'[v].n] # "none"
    <2>1. InChannel' = InChannel \cup {call[w].n} /\ InBatch' = InBatch
      BY <1>3, QueueMoves
    <2>2. v = w \/ Waits
      BY <1>3, CallMoves
    <2>. QED BY <1>a, <1>3, <2>1, <2>2, CallMoves
  <1>4. CASE UNCHANGED <<done, call, begun>> /\ TakeEntry
    <2>1. InChannel' \cup InBatch' = InChannel \cup InBatch
      BY <1>4, QueueMoves
    <2>. QED BY <1>a, <1>4, <2>1
  <1>5. CASE UNCHANGED <<call, begun>> /\ Deliver
    <2>1. Waits /\ InChannel' = InChannel
      BY <1>5, QueueMoves
    <2>2. CASE call[v].n \in InBatch
      <3>1. \E i \in DOMAIN buf : buf[i].n = call[v].n
        BY <2>2, QueueFacts DEF InBatch, TypeInv
      <3>2. done'[call[v].n] # "none"
        BY <1>a, <1>5, <2>1, <3>1, Delivers
      <3>. QED BY <2>1, <3>2
    <2>3. CASE done[call[v].n] # "none"
      <3>1. done'[call[v].n] # "none"
        BY <1>a, <1>5, <2>1, <2>3, Delivers
      <3>. QED BY <2>1, <3>1
    <2>. QED BY <1>a, <2>1, <2>2, <2>3
  <1>. QED BY <1>1, <1>2, <1>3, <1>4, <1>5, PlaceSteps

LEMMA StepQueuedOnce ==
    ASSUME TypeInv, PlacesInv, [Next]_vars
    PROVE  QueuedOnce'
  <1>. USE DEF QueuedOnce
  <1>a. QueuedOnce /\ begun \in Nat /\ Len(batchCh) \in Nat /\ ChannelType /\ CallsType
    BY QueueFacts, OverBegun DEF PlacesInv, TypeInv
  <1>b. \A n \in InChannel \cup InBatch : n \in Write /\ n \in Nat
    <2>1. \A e \in Entry : e.n \in Write
      BY DEF Entry
    <2>. QED BY <1>a, <2>1, QueueFacts DEF InChannel, InBatch, Write
  <1>1. CASE UNCHANGED <<queues, done>> /\ begun' \in {begun, begun + 1}
    <2>1. \A n \in InChannel \cup InBatch : n \leq begun'
      BY <1>a, <1>b, <1>1
    <2>2. InChannel' = InChannel /\ InBatch' = InBatch /\ batchCh' = batchCh /\ done' = done
      BY <1>1, QueueMoves DEF queues
    <2>. QED BY <1>a, <2>1, <2>2
  <1>2. ASSUME UNCHANGED <<buf, done, begun>>, NEW w \in Writer, Send(w) PROVE QueuedOnce'
    <2>1. InChannel' = InChannel \cup {call[w].n} /\ InBatch' = InBatch
      BY <1>2, QueueMoves
    <2>2. /\ call[w].n \notin InChannel \cup InBatch /\ done[call[w].n] = "none"
          /\ call[w].n \leq begun
      BY <1>2 DEF Send, PlacesInv, HandedOverOnce, CallersApart, Idle
    <2>3. /\ Len(batchCh') = Len(batchCh) + 1
          /\ \A i \in 1..Len(batchCh) : batchCh'[i] = batchCh[i]
          /\ batchCh'[Len(batchCh) + 1] = [n |-> call[w].n, key |-> call[w].key]
      BY <1>2, <1>a, SendsEntry
    <2>4. batchCh'[Len(batchCh) + 1].n = call[w].n
      BY <2>3
    <2>5. ASSUME NEW i \in 1..Len(batchCh'), NEW j \in 1..Len(batchCh'),
                 batchCh'[i].n = batchCh'[j].n
          PROVE  i = j
      <3>1. \A l \in 1..Len(batchCh) : batchCh'[l].n \in InChannel
        BY <2>3 DEF InChannel
      <3>2. \A l \in 1..Len(batchCh') : l \in 1..Len(batchCh) \/ l = Len(batchCh) + 1
        BY <1>a, <2>3
      <3>3. CASE i \in 1..Len(batchCh) /\ j \in 1..Len(batchCh)
        BY <1>a, <2>3, <2>5, <3>3
      <3>4. CASE i \notin 1..Len(batchCh) \/ j \notin 1..Len(batchCh)
        BY <2>2, <2>4, <2>5, <3>1, <3>2, <3>4
      <3>. QED BY <3>3, <3>4
    <2>. QED BY <1>a, <1>2, <2>1, <2>2, <2>5
  <1>3. CASE UNCHANGED <<done, call, begun>> /\ TakeEntry
    <2>1. /\ batchCh[1].n \in InChannel
          /\ InChannel = InChannel' \cup {batchCh[1].n}
          /\ InBatch' = InBatch \cup {batchCh[1].n}
      BY <1>3, QueueMoves
    <2>2. /\ Len(batchCh) > 0 /\ Len(batchCh') = Len(batchCh) - 1
          /\ \A i \in 1..Len(batchCh') : batchCh'[i] = batchCh[i + 1]
      BY <1>3, <1>a, TakesEntry
    <2>3. \A i \in 1..Len(batchCh') : i + 1 \in 1..Len(batchCh) /\ i + 1 # 1
      BY <1>a, <2>2
    <2>4. ASSUME NEW i \in 1..Len(batchCh'), NEW j \in 1..Len(batchCh'),
                 batchCh'[i].n = batchCh'[j].n
          PROVE  i = j
      <3>1. i + 1 = j + 1
        BY <1>a, <2>2, <2>3, <2>4
      <3>. QED BY <3>1
    <2>5. batchCh[1].n \notin InChannel'
      <3>1. ASSUME NEW i \in 1..Len(batchCh') PROVE batchCh'[i].n # batchCh[1].n
        <4>1. 1 \in 1..Len(batchCh)
          BY <1>a, <2>2
        <4>. QED BY <1>a, <2>2, <2>3, <4>1
      <3>. QED BY <3>1 DEF InChannel
    <2>. QED BY <1>a, <1>3, <2>1, <2>4, <2>5
  <1>4. CASE UNCHANGED <<call, begun>> /\ Deliver
    <2>1. InChannel' = InChannel /\ InBatch' = {} /\ batchCh' = batchCh
      BY <1>4, QueueMoves DEF Deliver
    <2>2. ASSUME NEW n \in InChannel PROVE done'[n] = done[n]
      <3>1. \A i \in DOMAIN buf : buf[i].n # n
        BY <1>a, QueueFacts DEF InBatch
      <3>. QED BY <1>b, <1>4, <3>1, Delivers
    <2>. QED BY <1>a, <1>4, <2>1, <2>2
  <1>5. \A w \in Writer, k \in Key : Enter(w, k) => begun' = begun + 1
    BY DEF Enter
  <1>. QED BY <1>1, <1>2, <1>3, <1>4, <1>5, PlaceSteps

\* A script that runs is of a write that has begun and has no answer.
LEMMA RunsBegun ==
    ASSUME TypeInv, PlacesInv
    PROVE  /\ \A w \in Writer : RunsDirect(w) => call[w].n \leq begun
           /\ \A i \in 1..BatchSize : RunsBatched(i) => buf[i].n \in InBatch /\ buf[i].n \leq begun
  <1>1. \A w \in Writer : RunsDirect(w) => call[w].n \leq begun
    BY DEF RunsDirect, PlacesInv, CallersApart, Idle
  <1>2. \A i \in 1..BatchSize : RunsBatched(i) => buf[i].n \in InBatch
    BY QueueFacts DEF RunsBatched, InBatch, TypeInv
  <1>. QED BY <1>1, <1>2 DEF PlacesInv, QueuedOnce

LEMMA StepFutureIsClean ==
    ASSUME TypeInv, PlacesInv, [Next]_vars
    PROVE  FutureIsClean'
  <1>. SUFFICES ASSUME NEW n \in Write, n > begun' PROVE done'[n] = "none" /\ n \notin executed'
    BY DEF FutureIsClean
  <1>a. begun \in Nat /\ n \in Nat
    BY OverBegun DEF TypeInv, Write
  <1>b. begun' \in {begun, begun + 1}
    BY PlaceSteps DEF Enter
  <1>c. n > begun /\ done[n] = "none" /\ n \notin executed
    BY <1>a, <1>b DEF PlacesInv, FutureIsClean
  <1>1. done'[n] = "none"
    <2>1. CASE Deliver
      <3>1. \A i \in DOMAIN buf : buf[i].n \in InBatch
        BY QueueFacts DEF InBatch, TypeInv
      <3>2. n \notin InBatch
        BY <1>a, <1>c DEF PlacesInv, QueuedOnce
      <3>. QED BY <1>c, <2>1, <3>1, <3>2, Delivers
    <2>. QED BY <1>c, <2>1, DoneSteps
  <1>2. n \notin executed'
    <2>1. ASSUME NEW k, NEW m \in Write, m \leq begun, AtomicWrite(k, m) PROVE n \notin executed'
      BY <1>a, <1>c, <2>1 DEF AtomicWrite, Write
    <2>. QED BY <1>c, <2>1, BandSteps, RunsBegun, RunsTyped DEF RunsDirect, RunsBatched
  <1>. QED BY <1>1, <1>2

LEMMA InitPlaces == Init => PlacesInv
  BY DEF Init, PlacesInv, CallersApart, HandedOverOnce, AnswerComes, QueuedOnce, FutureIsClean,
         InChannel, InBatch, Idle

LEMMA StepPlaces ==
    ASSUME TypeInv, PlacesInv, [Next]_vars
    PROVE  PlacesInv'
  BY StepCallersApart, StepHandedOverOnce, StepAnswerComes, StepQueuedOnce, StepFutureIsClean
     DEF PlacesInv

-----------------------------------------------------------------------------
(* The shutdown.                                                           *)

\* The batcher is on its way out only when it was told to go, from when on nobody
\* hands over an entry, and it leaves when nothing is left.
ShutInv ==
    /\ batchRunning # stopBatch
    /\ stopBatch => \A w \in Writer : call[w].at # "handoff"
    /\ batcher.at = "drain" \/ batcher.then \in {"drain", "gone"} => stopBatch
    /\ batcher.then = "gone" => batcher.at \in {"pipeline", "gone"} /\ batchCh = <<>>
    /\ batcher.at = "gone" => batcher.then = "gone" /\ buf = <<>>
    /\ stopCh => batcher.at = "gone"

LEMMA StepShutInv ==
    ASSUME TypeInv, ShutInv, [Next]_vars
    PROVE  ShutInv'
  <1>a. FlagsType /\ BatchType /\ ChannelType /\ CallsType
    BY DEF TypeInv
  <1>b. batchRunning' \in BOOLEAN /\ stopBatch' \in BOOLEAN
    BY StepFlagsType DEF FlagsType
  <1>1. /\ batchRunning' # stopBatch'
        /\ stopBatch => stopBatch'
        /\ stopBatch' => stopBatch \/ StopTaking
    <2>1. CASE StopTaking
      BY <2>1 DEF StopTaking
    <2>2. CASE UNCHANGED <<batchRunning, stopBatch>>
      BY <2>2 DEF ShutInv
    <2>3. ASSUME FlushBand(TRUE) \/ FlushBand(FALSE) \/ BeginClose \/ StopBatcher \/ StopEngine
                 \/ CloseRedis
          PROVE  UNCHANGED <<batchRunning, stopBatch>>
      BY <2>3 DEF FlushBand, BeginClose, StopBatcher, StopEngine, CloseRedis, batching
    <2>. QED BY <2>1, <2>2, <2>3, FlagSteps DEF CloserStep
  <1>2. stopBatch' => \A w \in Writer : call'[w].at # "handoff"
    <2>1. CASE StopTaking
      BY <2>1 DEF StopTaking
    <2>2. ASSUME stopBatch, NEW v \in Writer PROVE call'[v].at # "handoff"
      <3>1. call[v].at # "handoff" /\ ~batchRunning
        BY <1>a, <2>2 DEF ShutInv, FlagsType
      <3>2. ASSUME NEW w \in Writer, EnqueueBatched(w) PROVE call'[v].at # "handoff"
        <4>1. call' = [call EXCEPT ![w].at = "direct"] /\ call[w].at = "entered"
          BY <3>1, <3>2 DEF EnqueueBatched
        <4>2. call[w] \in [at : {"entered", "handoff", "direct", "wait"}, n : Write, key : Key]
          BY <1>a, <4>1 DEF CallsType, CallType, Idle
        <4>3. [call[w] EXCEPT !.at = "direct"].at = "direct"
          BY <4>2
        <4>. QED BY <1>a, <3>1, <4>1, <4>3 DEF CallsType
      <3>3. ASSUME NEW w \in Writer, Send(w) \/ Ends(w) PROVE call'[v].at # "handoff"
        BY <3>1, <3>3, CallMoves DEF Idle
      <3>4. ASSUME NEW w \in Writer, NEW k \in Key, Enter(w, k) PROVE call'[v].at # "handoff"
        <4>1. /\ call'[w] = [at |-> "entered", n |-> begun + 1, key |-> k]
              /\ \A u \in Writer \ {w} : call'[u] = call[u]
          BY <3>4, CallMoves
        <4>. QED BY <3>1, <4>1
      <3>. QED BY <3>1, <3>2, <3>3, <3>4, CallSteps
    <2>. QED BY <1>1, <2>1, <2>2
  <1>3. batcher'.at = "drain" \/ batcher'.then \in {"drain", "gone"} => stopBatch
    <2>1. CASE UNCHANGED <<batcher, buf, errs>>
      BY <2>1 DEF ShutInv
    <2>2. CASE TakeEntry
      BY <2>2 DEF ShutInv, TakeEntry, Flush
    <2>3. CASE Tick
      BY <2>3 DEF Tick, Flush
    <2>4. CASE BeginDrain
      BY <2>4 DEF BeginDrain
    <2>5. CASE EndDrain
      BY <2>5 DEF ShutInv, EndDrain
    <2>6. CASE Reload \/ \E i \in 1..BatchSize : RunScript(i)
      BY <2>6 DEF ShutInv, Reload, RunScript
    <2>7. CASE Deliver
      <3>1. batcher'.at = batcher.then /\ batcher'.then = batcher.then
        BY <1>a, <2>7 DEF Deliver, BatchType, LoopType
      <3>. QED BY <3>1 DEF ShutInv
    <2>. QED BY <2>1, <2>2, <2>3, <2>4, <2>5, <2>6, <2>7, LoopSteps
  <1>4. /\ batcher'.then = "gone" => batcher'.at \in {"pipeline", "gone"} /\ batchCh' = <<>>
        /\ batcher'.at = "gone" => batcher'.then = "gone" /\ buf' = <<>>
    <2>0. ASSUME batcher.then = "gone" PROVE batchCh' = <<>>
      <3>1. batchCh = <<>> /\ stopBatch /\ batcher.at \in {"pipeline", "gone"}
        BY <2>0 DEF ShutInv
      <3>2. \A w \in Writer : ~Send(w)
        BY <3>1 DEF ShutInv, Send
      <3>. QED BY <3>1, <3>2, QueueSteps DEF queues, TakeEntry, Deliver
    <2>1. CASE UNCHANGED <<batcher, buf, errs>>
      BY <2>0, <2>1 DEF ShutInv
    <2>2. CASE TakeEntry
      <3>1. batcher.then # "gone" /\ batcher.at \in {"select", "drain"}
        BY <2>2 DEF ShutInv, TakeEntry
      <3>2. batcher' = batcher \/ (batcher'.at = "pipeline" /\ batcher'.then = batcher.at)
            \/ (batcher'.at = batcher.at /\ batcher'.then = batcher.at)
        BY <2>2 DEF TakeEntry, Flush
      <3>. QED BY <3>1, <3>2
    <2>3. CASE Tick
      BY <2>3 DEF Tick, Flush
    <2>4. CASE BeginDrain
      BY <2>4 DEF BeginDrain
    <2>5. CASE EndDrain
      BY <2>5 DEF EndDrain, Flush
    <2>6. CASE Reload \/ \E i \in 1..BatchSize : RunScript(i)
      BY <2>0, <2>6 DEF ShutInv, Reload, RunScript
    <2>7. CASE Deliver
      <3>1. /\ batcher'.at = batcher.then /\ batcher'.then = batcher.then
            /\ batchCh' = batchCh /\ buf' = <<>>
        BY <1>a, <2>7 DEF Deliver, BatchType, LoopType
      <3>. QED BY <2>0, <3>1
    <2>. QED BY <2>1, <2>2, <2>3, <2>4, <2>5, <2>6, <2>7, LoopSteps
  <1>5. stopCh' => batcher'.at = "gone"
    <2>1. batcher.at = "gone" => batcher'.at = "gone"
      BY LoopSteps DEF TakeEntry, Tick, BeginDrain, EndDrain, Reload, Deliver, RunScript
    <2>2. stopCh' = stopCh \/ StopEngine
      BY FlagSteps DEF flusher, FlushBand, BeginClose, CloserStep, StopBatcher, StopTaking, CloseRedis
    <2>3. StopEngine => batcher.at = "gone"
      BY DEF StopEngine
    <2>. QED BY <2>1, <2>2, <2>3 DEF ShutInv
  <1>. QED BY <1>1, <1>2, <1>3, <1>4, <1>5 DEF ShutInv

LEMMA InitShutInv == Init => ShutInv
  <1>. SUFFICES ASSUME Init PROVE ShutInv
    OBVIOUS
  <1>1. batcher.at = "select" /\ batcher.then = "select"
    BY DEF Init
  <1>2. batchRunning # stopBatch /\ ~stopBatch /\ ~stopCh
    BY DEF Init
  <1>. QED BY <1>1, <1>2 DEF ShutInv

\* internal/shield/shield.go:937-954, the comment of StopBatcher: when the batcher
\* has returned, every entry that was handed over has been answered, nothing is
\* left in the channel, and nobody is about to put something there.
THEOREM ShutdownStrandsNobody == Spec => []NoEntryStranded
  <1>. DEFINE Inv == TypeInv /\ PlacesInv /\ ShutInv
  <1>1. Init => Inv
    BY InitTypeInv, InitPlaces, InitShutInv
  <1>2. Inv /\ [Next]_vars => Inv'
    BY StepTypeInv, StepPlaces, StepShutInv
  <1>3. Inv => NoEntryStranded
    <2>. SUFFICES ASSUME Inv, batcher.at = "gone"
                  PROVE  /\ batchCh = <<>> /\ buf = <<>>
                         /\ \A w \in Writer : call[w].at # "handoff"
                         /\ \A w \in Writer : call[w].at = "wait" => done[call[w].n] # "none"
      BY DEF NoEntryStranded
    <2>1. batchCh = <<>> /\ buf = <<>> /\ \A w \in Writer : call[w].at # "handoff"
      BY DEF ShutInv
    <2>2. InChannel \cup InBatch = {}
      BY <2>1 DEF InChannel, InBatch
    <2>. QED BY <2>1, <2>2 DEF PlacesInv, AnswerComes
  <1>. QED BY <1>1, <1>2, <1>3, PTL DEF Spec

-----------------------------------------------------------------------------
(* The order of writes.                                                    *)

\* What was over when a write began is still over, and the journal does not go
\* back to it once that write has run.
OrderInv ==
    /\ \A k \in Key, n \in Write : earlier[k][n] \subseteq Over \cup {0}
    /\ \A k \in Key, n \in Write : n > begun => earlier[k][n] = {}
    /\ \A k \in Key, w \in Writer : call[w] # Idle /\ call[w].key # k => earlier[k][call[w].n] = {}
    /\ \A k \in Key, i \in 1..Len(batchCh) : batchCh[i].key # k => earlier[k][batchCh[i].n] = {}
    /\ \A k \in Key, i \in 1..Len(buf) : buf[i].key # k => earlier[k][buf[i].n] = {}
    /\ \A k \in Key, n \in executed : journal[k] \notin earlier[k][n]

\* A clean document is the journal's, and what the final flush left was not
\* written over by a write that the batcher acknowledged.
SettledInv ==
    /\ \A k \in Key : k \notin dirty => sink[k] = journal[k]
    /\ flushedAll => /\ ~flushing /\ batcher.at = "gone"
                     /\ \A k \in Key, n \in Write : done[n] = "ok" => sink[k] \notin earlier[k][n]

\* What is over: begun, with no caller, and in no queue.
Rest == {n \in 1..begun : /\ \A w \in Writer : call[w] # Idle => call[w].n # n
                          /\ n \notin InChannel \cup InBatch}

LEMMA OverIsRest == TypeInv /\ PlacesInv => Over = Rest
  <1>. SUFFICES ASSUME TypeInv, PlacesInv PROVE Over = Rest
    OBVIOUS
  <1>1. InBatcher = InChannel \cup InBatch
    BY QueueFacts DEF TypeInv, InBatcher, InChannel, InBatch
  <1>2. \A n \in InChannel \cup InBatch : done[n] = "none"
    BY DEF PlacesInv, QueuedOnce
  <1>. QED BY <1>1, <1>2 DEF Over, Returned, Rest

\* A write that is over stays so.
LEMMA OverStays ==
    ASSUME TypeInv, PlacesInv, [Next]_vars
    PROVE  Over \subseteq Over'
  <1>1. Over = Rest /\ Over' = Rest'
    <2>1. (TypeInv /\ PlacesInv)'
      BY StepTypeInv, StepPlaces
    <2>2. (Over = Rest)'
      BY <2>1, OverIsRest, PTL
    <2>. QED BY <2>2, OverIsRest
  <1>. SUFFICES ASSUME NEW n \in Rest PROVE n \in Rest'
    BY <1>1
  <1>a. begun \in Nat /\ begun' \in {begun, begun + 1}
    BY PlaceSteps, OverBegun DEF TypeInv, Enter
  <1>b. n \in 1..begun /\ n \in 1..begun'
    BY <1>a DEF Rest
  <1>2. ASSUME NEW v \in Writer, call'[v] # Idle PROVE call'[v].n # n
    <2>1. CASE call' = call
      BY <1>2, <2>1 DEF Rest
    <2>2. ASSUME NEW w \in Writer, EnqueueBatched(w) \/ Send(w) \/ Ends(w) PROVE call'[v].n # n
      BY <1>2, <2>2, CallMoves DEF Rest, Idle
    <2>3. ASSUME NEW w \in Writer, NEW k \in Key, Enter(w, k) PROVE call'[v].n # n
      <3>1. /\ call'[w] = [at |-> "entered", n |-> begun + 1, key |-> k]
            /\ \A u \in Writer \ {w} : call'[u] = call[u]
        BY <2>3, CallMoves
      <3>2. call'[w].n = begun + 1
        BY <3>1
      <3>3. begun + 1 # n
        BY <1>a, <1>b
      <3>. QED BY <1>2, <3>1, <3>2, <3>3 DEF Rest
    <2>. QED BY <2>1, <2>2, <2>3, CallSteps
  <1>3. n \notin InChannel' \cup InBatch'
    <2>1. ASSUME NEW w \in Writer, Send(w) PROVE n \notin InChannel' \cup InBatch'
      <3>1. call[w].n # n
        BY <2>1 DEF Rest, Send, Idle
      <3>. QED BY <2>1, <3>1, QueueMoves DEF Rest
    <2>2. ASSUME UNCHANGED queues \/ TakeEntry \/ Deliver
          PROVE  InChannel' \cup InBatch' \subseteq InChannel \cup InBatch
      BY <2>2, QueueMoves
    <2>. QED BY <2>1, <2>2, QueueSteps DEF Rest
  <1>. QED BY <1>b, <1>2, <1>3 DEF Rest

\* A write whose script runs is not over.
LEMMA RunsNotOver ==
    ASSUME TypeInv, PlacesInv
    PROVE  /\ \A w \in Writer : RunsDirect(w) => call[w].n \notin Over \cup {0}
           /\ \A i \in 1..BatchSize : RunsBatched(i) => buf[i].n \notin Over \cup {0}
  <1>a. Over = Rest /\ 0 \notin Write
    BY OverIsRest DEF Write
  <1>1. \A w \in Writer : RunsDirect(w) => call[w].n \notin Rest
    BY DEF RunsDirect, Rest, Idle
  <1>2. \A i \in 1..BatchSize : RunsBatched(i) => buf[i].n \notin Rest
    BY RunsBegun DEF Rest
  <1>. QED BY <1>a, <1>1, <1>2, RunsTyped

\* Only the write that begins gets a past.
LEMMA PastSteps ==
    ASSUME TypeInv, [Next]_vars, NEW k \in Key, NEW n \in Write
    PROVE  /\ n \leq begun => earlier'[k][n] = earlier[k][n]
           /\ \/ earlier'[k][n] = earlier[k][n]
              \/ n = begun' /\ earlier'[k][n] = Over \cup {0}
           /\ \A w \in Writer, j \in Key : Enter(w, j) /\ k # j => earlier'[k][n] = earlier[k][n]
           /\ begun \in Nat /\ begun' \in Nat /\ begun \leq begun'
  <1>a. earlier \in [Key -> [Write -> SUBSET (0..MaxWrites)]] /\ begun \in Nat /\ n \in Nat
    BY OverBegun DEF TypeInv, CallsType, Write
  <1>1. ASSUME NEW w \in Writer, NEW j \in Key, Enter(w, j)
        PROVE  /\ n \leq begun => earlier'[k][n] = earlier[k][n]
               /\ \/ earlier'[k][n] = earlier[k][n]
                  \/ n = begun' /\ earlier'[k][n] = Over \cup {0}
               /\ k # j => earlier'[k][n] = earlier[k][n]
               /\ begun' = begun + 1
    <2>1. /\ earlier' = [earlier EXCEPT ![j][begun + 1] = Over \cup {0}] /\ begun' = begun + 1
      BY <1>1 DEF Enter
    <2>2. k # j => earlier'[k] = earlier[k]
      BY <1>a, <2>1
    <2>3. k = j => earlier'[k] = [earlier[k] EXCEPT ![begun + 1] = Over \cup {0}]
      BY <1>a, <2>1
    <2>4. k = j => earlier'[k][n] = IF n = begun + 1 THEN Over \cup {0} ELSE earlier[k][n]
      BY <1>a, <2>3
    <2>. QED BY <1>a, <2>1, <2>2, <2>4
  <1>2. CASE UNCHANGED <<begun, earlier>>
    BY <1>a, <1>2 DEF Enter
  <1>. QED BY <1>a, <1>1, <1>2, CallSteps
\* A script that runs is of a write of its key that is not over.
Runs(k, n) ==
    /\ AtomicWrite(k, n) /\ n \in Write /\ k \in Key
    /\ n \notin Over \cup {0} /\ n \leq begun
    /\ \A j \in Key \ {k} : earlier[j][n] = {}

LEMMA WriteSteps ==
    ASSUME TypeInv, PlacesInv, OrderInv, [Next]_vars
    PROVE  \/ UNCHANGED <<band, executed>>
           \/ \E k, n : Runs(k, n)
           \/ executed' = executed /\ (FlushBand(TRUE) \/ FlushBand(FALSE))
  <1>1. ASSUME NEW w \in Writer, RunsDirect(w) PROVE Runs(call[w].key, call[w].n)
    <2>1. \A j \in Key \ {call[w].key} : earlier[j][call[w].n] = {}
      BY <1>1 DEF RunsDirect, OrderInv, Idle
    <2>. QED BY <1>1, <2>1, RunsTyped, RunsBegun, RunsNotOver DEF Runs, RunsDirect
  <1>2. ASSUME NEW i \in 1..BatchSize, RunsBatched(i) PROVE Runs(buf[i].key, buf[i].n)
    <2>1. i \in 1..Len(buf)
      BY <1>2, QueueFacts DEF RunsBatched, TypeInv
    <2>2. \A j \in Key \ {buf[i].key} : earlier[j][buf[i].n] = {}
      BY <2>1 DEF OrderInv
    <2>. QED BY <1>2, <2>2, RunsTyped, RunsBegun, RunsNotOver DEF Runs, RunsBatched
  <1>. QED BY <1>1, <1>2, BandSteps

LEMMA StepPastIsOver ==
    ASSUME TypeInv, PlacesInv, OrderInv, [Next]_vars, NEW k \in Key, NEW n \in Write
    PROVE  /\ earlier'[k][n] \subseteq Over' \cup {0}
           /\ n > begun' => earlier'[k][n] = {}
  <1>1. Over \subseteq Over'
    BY OverStays
  <1>2. earlier[k][n] \subseteq Over \cup {0} /\ (n > begun => earlier[k][n] = {})
    BY DEF OrderInv
  <1>3. n \in Nat
    BY DEF Write
  <1>. QED BY <1>1, <1>2, <1>3, PastSteps

LEMMA StepPastOfCalls ==
    ASSUME TypeInv, PlacesInv, OrderInv, [Next]_vars,
           NEW k \in Key, NEW v \in Writer, call'[v] # Idle, call'[v].key # k
    PROVE  earlier'[k][call'[v].n] = {}
  <1>1. ASSUME call[v] # Idle, call'[v].n = call[v].n, call'[v].key = call[v].key
        PROVE  earlier'[k][call'[v].n] = {}
    <2>1. call[v].n \in Write /\ call[v].n \leq begun
      BY <1>1 DEF PlacesInv, CallersApart, TypeInv, CallsType, CallType
    <2>2. earlier[k][call[v].n] = {}
      BY <1>1 DEF OrderInv
    <2>. QED BY <1>1, <2>1, <2>2, PastSteps
  <1>2. ASSUME NEW w \in Writer, NEW j \in Key, Enter(w, j) PROVE earlier'[k][call'[v].n] = {}
    <2>1. /\ call'[w] = [at |-> "entered", n |-> begun + 1, key |-> j]
          /\ begun + 1 \in Write
          /\ \A u \in Writer \ {w} : call'[u] = call[u]
      BY <1>2, CallMoves
    <2>2. CASE v = w
      <3>1. call'[v].n = begun + 1 /\ call'[v].key = j
        BY <2>1, <2>2
      <3>2. earlier[k][begun + 1] = {}
        <4>1. begun + 1 > begun
          BY OverBegun DEF TypeInv
        <4>. QED BY <2>1, <4>1 DEF OrderInv
      <3>. QED BY <1>2, <2>1, <3>1, <3>2, PastSteps
    <2>3. CASE v # w
      BY <1>1, <2>1, <2>3
    <2>. QED BY <2>2, <2>3
  <1>3. ASSUME NEW w \in Writer, EnqueueBatched(w) \/ Send(w) \/ Ends(w)
        PROVE  call[v] # Idle /\ call'[v].n = call[v].n /\ call'[v].key = call[v].key
    BY <1>3, CallMoves DEF Idle
  <1>. QED BY <1>1, <1>2, <1>3, CallSteps

\* An entry and the past of its write.
PastOf(e) == /\ e \in Entry /\ e.n \leq begun
             /\ \A k \in Key : e.key # k => earlier[k][e.n] = {}

PastNext(e) == \A k \in Key : e.key # k => earlier'[k][e.n] = {}

LEMMA PastKept ==
    ASSUME TypeInv, [Next]_vars
    PROVE  \A e : PastOf(e) => PastNext(e)
  <1>. SUFFICES ASSUME NEW e, PastOf(e), NEW k \in Key, e.key # k PROVE earlier'[k][e.n] = {}
    BY DEF PastNext
  <1>1. e.n \in Write /\ e.n \leq begun /\ earlier[k][e.n] = {}
    BY DEF PastOf, Entry
  <1>. QED BY <1>1, PastSteps

LEMMA StepPastOfEntries ==
    ASSUME TypeInv, PlacesInv, OrderInv, [Next]_vars
    PROVE  /\ \A i \in 1..Len(batchCh') : PastNext(batchCh'[i])
           /\ \A i \in 1..Len(buf') : PastNext(buf'[i])
  <1>a. ChannelType /\ CallsType /\ Len(batchCh) \in Nat /\ Len(buf) \in Nat
    BY QueueFacts DEF TypeInv
  <1>b. /\ \A i \in 1..Len(batchCh) : PastOf(batchCh[i])
        /\ \A i \in 1..Len(buf) : PastOf(buf[i])
    <2>1. ASSUME NEW i \in 1..Len(batchCh) PROVE PastOf(batchCh[i])
      <3>1. batchCh[i] \in Entry /\ batchCh[i].n \in InChannel
        BY <1>a, QueueFacts DEF InChannel
      <3>2. batchCh[i].n \leq begun
        BY <3>1 DEF PlacesInv, QueuedOnce
      <3>. QED BY <3>1, <3>2 DEF PastOf, OrderInv
    <2>2. ASSUME NEW i \in 1..Len(buf) PROVE PastOf(buf[i])
      <3>1. buf[i] \in Entry /\ buf[i].n \in InBatch
        BY <1>a, QueueFacts DEF InBatch
      <3>2. buf[i].n \leq begun
        BY <3>1 DEF PlacesInv, QueuedOnce
      <3>. QED BY <3>1, <3>2 DEF PastOf, OrderInv
    <2>. QED BY <2>1, <2>2
  <1>c. /\ \A i \in 1..Len(batchCh) : PastNext(batchCh[i])
        /\ \A i \in 1..Len(buf) : PastNext(buf[i])
    BY <1>b, PastKept
  <1>1. CASE UNCHANGED queues
    BY <1>1, <1>c DEF queues
  <1>2. ASSUME NEW w \in Writer, Send(w)
        PROVE  /\ \A i \in 1..Len(batchCh') : PastNext(batchCh'[i])
               /\ \A i \in 1..Len(buf') : PastNext(buf'[i])
    <2>. DEFINE e == [n |-> call[w].n, key |-> call[w].key]
    <2>1. /\ Len(batchCh') = Len(batchCh) + 1 /\ buf' = buf
          /\ \A i \in 1..Len(batchCh) : batchCh'[i] = batchCh[i]
          /\ batchCh'[Len(batchCh) + 1] = e
          /\ call[w].n \in Write /\ call[w].key \in Key
      BY <1>2, <1>a, SendsEntry
    <2>2. PastOf(e)
      <3>1. call[w] # Idle /\ call[w].n \leq begun
        BY <1>2 DEF Send, PlacesInv, CallersApart, Idle
      <3>2. \A k \in Key : call[w].key # k => earlier[k][call[w].n] = {}
        BY <3>1 DEF OrderInv
      <3>. QED BY <2>1, <3>1, <3>2 DEF PastOf, Entry
    <2>3. PastNext(e)
      BY <2>2, PastKept
    <2>. HIDE DEF e
    <2>4. \A i \in 1..Len(batchCh') : i \in 1..Len(batchCh) \/ i = Len(batchCh) + 1
      BY <1>a, <2>1
    <2>. QED BY <1>c, <2>1, <2>3, <2>4
  <1>3. CASE TakeEntry
    <2>1. /\ Len(batchCh) > 0 /\ Len(batchCh') = Len(batchCh) - 1
          /\ \A i \in 1..Len(batchCh') : batchCh'[i] = batchCh[i + 1]
          /\ Len(buf') = Len(buf) + 1
          /\ \A i \in 1..Len(buf) : buf'[i] = buf[i]
          /\ buf'[Len(buf) + 1] = batchCh[1]
      BY <1>3, <1>a, TakesEntry
    <2>2. /\ 1 \in 1..Len(batchCh)
          /\ \A i \in 1..Len(batchCh') : i + 1 \in 1..Len(batchCh)
          /\ \A i \in 1..Len(buf') : i \in 1..Len(buf) \/ i = Len(buf) + 1
      BY <1>a, <2>1
    <2>. QED BY <1>c, <2>1, <2>2
  <1>4. CASE Deliver
    <2>1. batchCh' = batchCh /\ Len(buf') = 0
      BY <1>4 DEF Deliver
    <2>2. \A i \in 1..Len(buf') : FALSE
      BY <2>1
    <2>. QED BY <1>c, <2>1, <2>2
  <1>. QED BY <1>1, <1>2, <1>3, <1>4, QueueSteps
LEMMA StepJournalMovesOn ==
    ASSUME TypeInv, PlacesInv, OrderInv, [Next]_vars, NEW k \in Key, NEW n \in executed'
    PROVE  journal'[k] \notin earlier'[k][n]
  <1>a. journal \in [Key -> 0..MaxWrites] /\ executed \subseteq Write
    BY DEF TypeInv, BandType
  <1>b. ASSUME NEW m \in Write, m \leq begun PROVE earlier'[k][m] = earlier[k][m]
    BY <1>b, PastSteps
  <1>c. ASSUME NEW m \in executed PROVE m \leq begun
    <2>1. m \in Nat /\ begun \in Nat /\ ~(m > begun)
      BY <1>a, OverBegun DEF PlacesInv, FutureIsClean, TypeInv, Write
    <2>. QED BY <2>1
  <1>1. CASE journal' = journal /\ executed' = executed
    BY <1>1, <1>a, <1>b, <1>c DEF OrderInv
  <1>2. ASSUME NEW j, NEW m, Runs(j, m) PROVE journal'[k] \notin earlier'[k][n]
    <2>1. /\ m \in Write /\ m \leq begun /\ j \in Key /\ m \notin Over \cup {0}
          /\ \A l \in Key \ {j} : earlier[l][m] = {}
          /\ journal' = [journal EXCEPT ![j] = m] /\ executed' = executed \cup {m}
      BY <1>2 DEF Runs, AtomicWrite
    <2>2. n \in Write /\ n \leq begun
      BY <1>a, <1>c, <2>1
    <2>3. earlier'[k][n] = earlier[k][n]
      BY <1>b, <2>2
    <2>4. CASE k = j
      <3>1. journal'[k] = m
        BY <1>a, <2>1, <2>4
      <3>2. earlier[k][n] \subseteq Over \cup {0}
        BY <2>2 DEF OrderInv
      <3>. QED BY <2>1, <2>3, <3>1, <3>2
    <2>5. CASE k # j
      <3>1. journal'[k] = journal[k]
        BY <1>a, <2>1, <2>5
      <3>2. CASE n = m
        BY <2>1, <2>3, <2>5, <3>2
      <3>3. CASE n \in executed
        BY <2>3, <3>1, <3>3 DEF OrderInv
      <3>. QED BY <2>1, <3>2, <3>3
    <2>. QED BY <2>4, <2>5
  <1>. QED BY <1>1, <1>2, WriteSteps DEF band, FlushBand

LEMMA StepOrderInv ==
    ASSUME TypeInv, PlacesInv, OrderInv, [Next]_vars
    PROVE  OrderInv'
  <1>1. \A k \in Key, n \in Write : /\ earlier'[k][n] \subseteq Over' \cup {0}
                                    /\ n > begun' => earlier'[k][n] = {}
    BY StepPastIsOver
  <1>2. \A k \in Key, w \in Writer : call'[w] # Idle /\ call'[w].key # k => earlier'[k][call'[w].n] = {}
    BY StepPastOfCalls
  <1>3. /\ \A k \in Key, i \in 1..Len(batchCh') : batchCh'[i].key # k => earlier'[k][batchCh'[i].n] = {}
        /\ \A k \in Key, i \in 1..Len(buf') : buf'[i].key # k => earlier'[k][buf'[i].n] = {}
    BY StepPastOfEntries DEF PastNext
  <1>4. \A k \in Key, n \in executed' : journal'[k] \notin earlier'[k][n]
    BY StepJournalMovesOn
  <1>. QED BY <1>1, <1>2, <1>3, <1>4 DEF OrderInv

LEMMA InitOrderInv == Init => OrderInv
  <1>. SUFFICES ASSUME Init PROVE OrderInv
    OBVIOUS
  <1>1. \A k \in Key, n \in Write : earlier[k][n] = {}
    BY DEF Init
  <1>2. /\ Len(batchCh) = 0 /\ Len(buf) = 0 /\ executed = {}
        /\ \A w \in Writer : call[w] = Idle
    BY DEF Init
  <1>. QED BY <1>1, <1>2 DEF OrderInv

LEMMA OrderInvariant == Spec => [](TypeInv /\ PlacesInv /\ OrderInv)
  <1>1. Init => TypeInv /\ PlacesInv /\ OrderInv
    BY InitTypeInv, InitPlaces, InitOrderInv
  <1>2. TypeInv /\ PlacesInv /\ OrderInv /\ [Next]_vars => (TypeInv /\ PlacesInv /\ OrderInv)'
    BY StepTypeInv, StepPlaces, StepOrderInv
  <1>. QED BY <1>1, <1>2, PTL DEF Spec

\* internal/shield/shield.go:157-260: a payload in the journal is never replaced
\* by that of a write that was over before its own began, whichever of the two
\* went through the batcher, through a reload or past it.
THEOREM JournalKeepsOrder == Spec => JournalOrder
  <1>1. ASSUME TypeInv, PlacesInv, OrderInv, [Next]_vars
        PROVE  \A k \in Key : journal[k] # 0 /\ journal'[k] # journal[k]
                                => journal'[k] \notin earlier[k][journal[k]]
    <2>. SUFFICES ASSUME NEW k \in Key, journal[k] # 0, journal'[k] # journal[k]
                  PROVE  journal'[k] \notin earlier[k][journal[k]]
      OBVIOUS
    <2>1. journal \in [Key -> 0..MaxWrites]
      BY <1>1 DEF TypeInv, BandType
    <2>2. earlier[k][journal[k]] \subseteq Over \cup {0}
      <3>1. journal[k] \in Write
        BY <2>1, BatcherAssumption DEF Write
      <3>. QED BY <1>1, <3>1 DEF OrderInv
    <2>3. PICK j, m : Runs(j, m)
      BY <1>1, WriteSteps DEF band, FlushBand
    <2>4. journal' = [journal EXCEPT ![j] = m] /\ m \notin Over \cup {0}
      BY <2>3 DEF Runs, AtomicWrite
    <2>. QED BY <2>1, <2>2, <2>4
  <1>. QED BY <1>1, OrderInvariant, PTL DEF JournalOrder, Spec

LEMMA StepSettledInv ==
    ASSUME TypeInv, PlacesInv, OrderInv, ShutInv, AckInv, SettledInv, [Next]_vars
    PROVE  SettledInv'
  <1>a. /\ journal \in [Key -> 0..MaxWrites] /\ sink \in [Key -> 0..MaxWrites] /\ executed \subseteq Write
        /\ flushing \in BOOLEAN /\ flushedAll \in BOOLEAN /\ dirty \subseteq Key
    BY DEF TypeInv, BandType, FlagsType
  <1>1. ASSUME NEW k \in Key, k \notin dirty' PROVE sink'[k] = journal'[k]
    <2>1. CASE UNCHANGED <<band, executed>>
      BY <1>1, <2>1 DEF SettledInv, band
    <2>2. ASSUME NEW j, NEW m, Runs(j, m) PROVE sink'[k] = journal'[k]
      <3>1. /\ journal' = [journal EXCEPT ![j] = m] /\ dirty' = dirty \cup {j} /\ sink' = sink
        BY <2>2 DEF Runs, AtomicWrite
      <3>2. k # j /\ k \notin dirty
        BY <1>1, <3>1
      <3>. QED BY <1>a, <3>1, <3>2 DEF SettledInv
    <2>3. ASSUME NEW final, FlushBand(final) PROVE sink'[k] = journal'[k]
      BY <1>1, <2>3 DEF FlushBand, SettledInv
    <2>. QED BY <2>1, <2>2, <2>3, WriteSteps
  <1>2. ASSUME flushedAll, flushedAll' = flushedAll
        PROVE  /\ ~flushing' /\ batcher'.at = "gone"
               /\ \A k \in Key, n \in Write : done'[n] = "ok" => sink'[k] \notin earlier'[k][n]
    <2>1. ~flushing /\ batcher.at = "gone"
      BY <1>2 DEF SettledInv
    <2>2. \A final \in BOOLEAN : ~FlushBand(final)
      BY <2>1 DEF FlushBand
    <2>3. flushing' = flushing
      BY <2>2, FlagSteps DEF flusher, BeginClose, CloserStep, StopBatcher, StopTaking, StopEngine,
                             CloseRedis
    <2>4. UNCHANGED <<batcher, buf, errs>> /\ done' = done
      BY <2>1, LoopSteps, DoneSteps
         DEF TakeEntry, Tick, BeginDrain, EndDrain, Reload, Deliver, RunScript
    <2>5. sink' = sink
      BY <2>2, WriteSteps DEF band, Runs, AtomicWrite
    <2>6. ASSUME NEW k \in Key, NEW n \in Write, done'[n] = "ok" PROVE sink'[k] \notin earlier'[k][n]
      <3>1. n \leq begun
        <4>1. n \in Nat /\ begun \in Nat /\ ~(n > begun)
          BY <2>4, <2>6, OverBegun DEF PlacesInv, FutureIsClean, TypeInv, Write
        <4>. QED BY <4>1
      <3>2. earlier'[k][n] = earlier[k][n]
        BY <3>1, PastSteps
      <3>3. done[n] = "ok" /\ sink'[k] = sink[k]
        BY <2>4, <2>5, <2>6
      <3>4. sink[k] \notin earlier[k][n]
        BY <1>2, <3>3 DEF SettledInv
      <3>. QED BY <3>2, <3>3, <3>4
    <2>. QED BY <2>1, <2>3, <2>4, <2>6
  <1>3. ASSUME NEW final \in BOOLEAN, FlushBand(final), flushedAll'
        PROVE  flushedAll' = flushedAll \/
               /\ ~flushing' /\ batcher'.at = "gone"
               /\ \A k \in Key, n \in Write : done'[n] = "ok" => sink'[k] \notin earlier'[k][n]
    <2>1. CASE flushedAll' # flushedAll
      <3>1. /\ final /\ flushing' = ~final /\ stopCh
            /\ sink' = [k \in Key |-> IF k \in dirty THEN journal[k] ELSE sink[k]]
        BY <1>3, <2>1 DEF FlushBand
      <3>2. batcher'.at = "gone" /\ done' = done /\ earlier' = earlier
        BY <1>3, <3>1 DEF FlushBand, ShutInv, batching, history
      <3>3. \A k \in Key : sink'[k] = journal[k]
        BY <3>1 DEF SettledInv
      <3>4. ASSUME NEW k \in Key, NEW n \in Write, done'[n] = "ok" PROVE sink'[k] \notin earlier'[k][n]
        BY <3>2, <3>3, <3>4 DEF AckInv, AckMeansJournaled, OrderInv
      <3>5. ~flushing'
        BY <3>1
      <3>. QED BY <3>2, <3>4, <3>5
    <2>. QED BY <2>1
  <1>4. flushedAll' = flushedAll \/ \E final \in BOOLEAN : FlushBand(final)
    BY FlagSteps DEF flusher, BeginClose, CloserStep, StopBatcher, StopTaking, StopEngine, CloseRedis
  <1>5. flushedAll' =>
               /\ ~flushing' /\ batcher'.at = "gone"
               /\ \A k \in Key, n \in Write : done'[n] = "ok" => sink'[k] \notin earlier'[k][n]
    BY <1>2, <1>3, <1>4
  <1>. QED BY <1>1, <1>5 DEF SettledInv

\* sluice.go:799-834: unless its final flush failed or left part of the dirty set
\* behind, DrainAndClose leaves the store with every write the batcher
\* acknowledged, or with one that is not older.
THEOREM CloseLosesNothing == Spec => []CloseFlushes
  <1>. DEFINE Inv == TypeInv /\ PlacesInv /\ OrderInv /\ ShutInv /\ AckInv /\ SettledInv
  <1>1. Init => Inv
    BY InitTypeInv, InitPlaces, InitOrderInv, InitShutInv
       DEF Init, AckInv, AckMeansJournaled, SettledInv, Nothing
  <1>2. Inv /\ [Next]_vars => Inv'
    BY StepTypeInv, StepPlaces, StepOrderInv, StepShutInv, StepAckInv, StepSettledInv
  <1>3. Inv => CloseFlushes
    <2>. SUFFICES ASSUME Inv, flushedAll, NEW k \in Key, NEW n \in Write, done[n] = "ok"
                  PROVE  sink[k] \notin earlier[k][n]
      BY DEF CloseFlushes
    <2>1. SettledInv
      OBVIOUS
    <2>. QED BY <2>1 DEF SettledInv
  <1>. QED BY <1>1, <1>2, <1>3, PTL DEF Spec
=============================================================================
