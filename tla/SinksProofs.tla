----------------------------- MODULE SinksProofs -----------------------------
(***************************************************************************)
(* For any rows, batch size and number of faults: what the engine commits  *)
(* was applied, nothing is applied again but for a fault or an error that  *)
(* the sink does not map, and nothing is dead-lettered without a reason.   *)
(***************************************************************************)
EXTENDS Sinks, FiniteSetTheorems, TLAPS

\* A model the call has yet to send, and one it has named.
Unsent(i) == pc = "called" \/ i \in todo \/ (pc \in {"many", "bulk"} /\ i \in upserts)
Named(i)  == i \in permanent \/ i \in transient

CallTypeOK ==
    /\ \A i \in Id : row[i] \in Row
    /\ times \in [Id -> Nat] /\ faults \in Nat /\ struck \subseteq Id
    /\ pc \in {"idle", "called", "batch", "put", "many", "bulk", "rows", "returned"}
    /\ direct \subseteq Id /\ band \subseteq Id /\ acked \subseteq Id
    /\ batch \subseteq band /\ direct \cap band = {}
    /\ todo \subseteq batch /\ upserts \subseteq batch
    /\ pc = "idle" => batch = {}
    /\ pc \in {"idle", "called"} => upserts = {}
    /\ pc \in {"idle", "called", "bulk", "returned"} => todo = {}
    /\ pc # "returned" => outcome = "ok"

\* Every row of a call that goes well so far is to be sent, named or applied.
\* BatchWriteItem replaces the transient errors, so there are none before it.
Accounted ==
    /\ pc \in {"idle", "called", "batch"} => transient = {}
    /\ outcome = "ok" /\ pc # "idle" => \A i \in batch : Unsent(i) \/ Named(i) \/ times[i] > 0

\* A row that is to be sent, now or again, owes each time it was applied to a fault.
Due(i) ==
    \/ i \in direct \cup (band \ batch)
    \/ i \in batch /\ (Unsent(i) \/ Named(i) \/ outcome # "ok")

Debts == \A i \in Id : times[i] \leq 1 + faults /\ (Due(i) => times[i] \leq faults)

\* What is to be sent has no error yet, and is sent by one statement.
Separate ==
    /\ pc \in {"idle", "called"} => permanent = {}
    /\ pc \in {"idle", "called", "batch"} => transient = {}
    /\ \A i \in todo : ~Named(i)
    /\ pc \in {"many", "bulk"} => \A i \in upserts : ~Named(i) /\ i \notin todo

AccountInv == CallTypeOK /\ Accounted /\ AckedIsApplied
\* Every permanent error has its reason.
Bad(i) == ~Storable(i) \/ Outdone(i)
Excused ==
    /\ \A i \in Id : i \in Nat
    /\ pc \in {"batch", "put"} => backend = "dynamodb"
    /\ \A i \in permanent : Bad(i)

\* The rows of a multi-row statement are upserts, and so are those of DynamoDB.
Sorted ==
    /\ upserts \subseteq Plain(Id)
    /\ pc = "batch" => backend = "dynamodb" /\ todo \subseteq {i \in Plain(Id) : row[i].form = "good"}
    /\ pc \in {"many", "bulk", "rows"} => backend = "postgres"

BuryInv    == CallTypeOK /\ Excused /\ OnlyBadRowsBuried
OweInv     == CallTypeOK /\ row \in Seq(Row) /\ Separate /\ Sorted /\ (Mapped => Debts)

\* Every row is in one place, and has one verdict.
Placed ==
    /\ permanent \subseteq batch /\ transient \subseteq batch
    /\ permanent \cap transient = {}
    /\ buried \subseteq Id
    /\ acked \cap band = {} /\ buried \cap (band \cup direct \cup acked) = {}

Setting ==
    /\ backend \in Backend /\ row \in Seq(Row)
    /\ faults \in 0..MaxFaults /\ outcome \in {"ok", "error", "anonymous"}

PlaceInv   == CallTypeOK /\ Separate /\ Placed /\ Setting

-----------------------------------------------------------------------------
\* What the store does to the counts of rows S.
Applied(S) ==
    /\ times' \in [Id -> Nat]
    /\ \A i \in Id : /\ times[i] \leq times'[i] /\ times'[i] \leq 1 + times[i]
                     /\ i \notin S => times'[i] = times[i]
                     /\ i \in S => times'[i] > 0

LEMMA Applying ==
    ASSUME SinkAssumption, times \in [Id -> Nat], NEW S, Apply(S)
    PROVE  Applied(S)
<1>1. Often \in Nat /\ Often > 0
  BY DEF SinkAssumption, Often
<1> QED
  BY <1>1 DEF Apply, Applied

LEMMA Nothing == ASSUME times \in [Id -> Nat], UNCHANGED times PROVE Applied({})
BY DEF Applied

\* One statement for one row: it is applied, or named, or both after a fault.
Sent(i, S) ==
    /\ i \in todo /\ S \subseteq {i}
    /\ Applied(S) /\ todo' \subseteq todo \ {i}
    /\ permanent' \in {permanent, permanent \cup {i}} /\ transient' \in {transient, transient \cup {i}}
    /\ permanent' = permanent \/ transient' = transient
    /\ S = {i} \/ i \in permanent' \cup transient'
    /\ \/ /\ faults' = faults
          /\ S = {} \/ (permanent' = permanent /\ transient' = transient)
       \/ faults' = faults + 1

LEMMA Sending ==
    ASSUME SinkAssumption, times \in [Id -> Nat], FallbackPut \/ ExecOne
    PROVE  \E i, S : Sent(i, S)
<1>1. CASE FallbackPut
  <2>1. PICK i \in todo :
          /\ \/ /\ NoFault
                /\ Apply(Accepted({i}))
                /\ permanent' = permanent \cup ({i} \ Accepted({i})) /\ UNCHANGED transient
             \/ /\ \E S \in SUBSET Accepted({i}) : Apply(S)
                /\ \/ Fault /\ transient' = transient \cup {i} /\ UNCHANGED permanent
                   \/ FaultOf({i}) /\ permanent' = permanent \cup {i} /\ UNCHANGED transient
          /\ todo' \subseteq todo \ {i}
    BY <1>1 DEF FallbackPut, Return
  <2>2. CASE NoFault /\ Apply(Accepted({i})) /\ UNCHANGED transient
             /\ permanent' = permanent \cup ({i} \ Accepted({i}))
    <3>1. Sent(i, Accepted({i}))
      BY <2>1, <2>2, Applying DEF Sent, NoFault, harm, Accepted
    <3> QED
      BY <3>1
  <2>3. ASSUME NEW S \in SUBSET Accepted({i}), Apply(S),
               \/ Fault /\ transient' = transient \cup {i} /\ UNCHANGED permanent
               \/ FaultOf({i}) /\ permanent' = permanent \cup {i} /\ UNCHANGED transient
        PROVE  Sent(i, S)
    BY <2>1, <2>3, Applying DEF Sent, Fault, FaultOf, Accepted
  <2> QED
    BY <2>1, <2>2, <2>3
<1>2. CASE ExecOne
  <2>1. PICK i \in todo :
          /\ \/ /\ NoFault
                /\ Apply(Accepted({i}))
                /\ permanent' = permanent \cup Listed({i})
                /\ transient' = transient \cup ({i} \ (Accepted({i}) \cup Listed({i})))
             \/ /\ Fault
                /\ \E S \in SUBSET Accepted({i}) : Apply(S)
                /\ transient' = transient \cup {i} /\ UNCHANGED permanent
          /\ todo' = todo \ {i}
    BY <1>2 DEF ExecOne
  <2>2. CASE /\ NoFault /\ Apply(Accepted({i}))
             /\ permanent' = permanent \cup Listed({i})
             /\ transient' = transient \cup ({i} \ (Accepted({i}) \cup Listed({i})))
    <3>1. Applied(Accepted({i}))
      BY <2>2, Applying DEF Accepted
    <3>2. Sent(i, Accepted({i}))
      BY <2>1, <2>2, <3>1 DEF Sent, NoFault, harm, Accepted, Listed
    <3> QED
      BY <3>2
  <2>3. ASSUME NEW S \in SUBSET Accepted({i}), Apply(S), Fault,
               transient' = transient \cup {i} /\ UNCHANGED permanent
        PROVE  Sent(i, S)
    BY <2>1, <2>3, Applying DEF Sent, Fault, FaultOf, Accepted
  <2> QED
    BY <2>1, <2>2, <2>3
<1> QED
  BY <1>1, <1>2

\* The answer of one unordered bulk: what failed, and how it is named.
Answer(raced, hit, taken, failed) ==
    /\ raced \subseteq Accepted(batch) /\ hit \subseteq Accepted(batch) \ raced /\ taken \subseteq hit
    /\ failed = raced \cup hit \cup (batch \ Accepted(batch))
    /\ Applied((batch \ failed) \cup taken)
    /\ permanent' = {i \in failed : ClassifyBulkErr(i, raced) = "permanent"}
    /\ transient' = failed \ permanent'
    /\ faults' = faults \/ faults' = faults + 1
    /\ hit # {} => faults' = faults + 1 /\ struck' = struck \cup hit
    /\ struck' = struck \/ struck' = struck \cup hit
    /\ outcome' # "ok" => faults' = faults + 1

LEMMA Answering ==
    ASSUME SinkAssumption, times \in [Id -> Nat], DocDbBulkWrite
    PROVE  \E raced, hit, taken, failed : Answer(raced, hit, taken, failed)
<1>1. PICK raced \in SUBSET Accepted(batch) : \E hit \in SUBSET (Accepted(batch) \ raced), lost \in BOOLEAN :
        LET failed == raced \cup hit \cup (batch \ Accepted(batch)) IN
        /\ IF raced \cup hit = {} /\ ~lost THEN NoFault ELSE FaultOf(hit)
        /\ \E taken \in SUBSET hit : Apply((batch \ failed) \cup taken)
        /\ permanent' = {i \in failed : ClassifyBulkErr(i, raced) = "permanent"}
        /\ transient' = failed \ permanent'
        /\ Return(IF lost THEN "anonymous" ELSE "ok")
  BY Zenon DEF DocDbBulkWrite
<1>2. PICK hit \in SUBSET (Accepted(batch) \ raced), lost \in BOOLEAN :
        LET failed == raced \cup hit \cup (batch \ Accepted(batch)) IN
        /\ IF raced \cup hit = {} /\ ~lost THEN NoFault ELSE FaultOf(hit)
        /\ \E taken \in SUBSET hit : Apply((batch \ failed) \cup taken)
        /\ permanent' = {i \in failed : ClassifyBulkErr(i, raced) = "permanent"}
        /\ transient' = failed \ permanent'
        /\ Return(IF lost THEN "anonymous" ELSE "ok")
  BY <1>1
<1> DEFINE failed == raced \cup hit \cup (batch \ Accepted(batch))
<1>3. PICK taken \in SUBSET hit : Apply((batch \ failed) \cup taken)
  BY <1>2
<1>4. Applied((batch \ failed) \cup taken)
  BY <1>3, Applying
<1> QED
  <2>1. Answer(raced, hit, taken, failed)
    BY <1>2, <1>4 DEF Answer, NoFault, FaultOf, harm, Return
  <2> QED
    BY <2>1

\* The configuration stays.
LEMMA SetupStays == ASSUME [Next]_vars PROVE UNCHANGED setup
BY DEF Next, FlushBand, BulkWrite, Settle, DocDbBulkWrite, DocDbFails, DynamoPrepare, BatchWriteItem,
       ValidationException, BatchWriteItemFails, FallbackPut, PostgresPrepare, ExecOne, ManyDone,
       RowsDone, ExecuteBulk, ExecuteBulkFails, EmptyTick, Write, vars

LEMMA MappedStays == ASSUME UNCHANGED setup PROVE Mapped' = Mapped
<1>1. row' = row /\ backend' = backend
  BY DEF setup
<1>2. Id' = Id
  BY <1>1 DEF Id
<1>3. Plain(Id)' = Plain(Id)
  BY <1>1, <1>2 DEF Plain
<1>4. Crowded(Plain(Id))' = Crowded(Plain(Id))
  BY <1>1, <1>3 DEF Crowded
<1> QED
  BY <1>1, <1>2, <1>3, <1>4 DEF Mapped, Unmapped

\* A statement is not too large where all rows together would not be.
LEMMA CrowdedGrows ==
    ASSUME row \in Seq(Row), SinkAssumption, NEW S, S \subseteq Plain(Id), Crowded(S)
    PROVE  Crowded(Plain(Id))
<1>1. PICK i \in S : Cardinality({j \in S : row[j].cols = row[i].cols}) > MaxUpserts[row[i].cols]
  BY DEF Crowded
<1> DEFINE A == {j \in S : row[j].cols = row[i].cols}
           B == {j \in Plain(Id) : row[j].cols = row[i].cols}
<1>2. IsFiniteSet(Id)
  <2>1. Id = 1..Len(row) /\ Len(row) \in Nat
    BY DEF Id
  <2> QED
    BY <2>1, FS_Interval
<1>3. IsFiniteSet(B)
  <2>1. B \subseteq Id
    BY DEF Plain
  <2> QED
    BY <1>2, <2>1, FS_Subset
<1>4. A \subseteq B
  OBVIOUS
<1>5. Cardinality(A) \in Nat /\ Cardinality(B) \in Nat /\ Cardinality(A) \leq Cardinality(B)
  <2>1. IsFiniteSet(A) /\ Cardinality(A) \leq Cardinality(B)
    BY <1>3, <1>4, FS_Subset
  <2> QED
    BY <2>1, <1>3, FS_CardinalityType
<1>6. MaxUpserts[row[i].cols] \in Nat
  <2>1. i \in Id
    BY DEF Plain
  <2>2. row[i] \in Row
    BY <2>1 DEF Id
  <2> QED
    BY <2>2 DEF SinkAssumption
<1>7. Cardinality(B) > MaxUpserts[row[i].cols] /\ i \in Plain(Id)
  BY <1>1, <1>5, <1>6
<1> QED
  BY <1>7 DEF Crowded

-----------------------------------------------------------------------------
\* The types are kept by every step.
LEMMA CallTypes == ASSUME SinkAssumption, CallTypeOK, [Next]_vars PROVE CallTypeOK'
<1> USE DEF CallTypeOK, Id
<1>1. CASE BulkWrite
  BY <1>1 DEF BulkWrite, Oldest, setup, harm, fate
<1>2. CASE Settle
  BY <1>2 DEF Settle, Leaves, setup, harm
<1>3. CASE DocDbBulkWrite
  <2>1. PICK raced, hit, taken, failed : Answer(raced, hit, taken, failed)
    BY <1>3, Answering DEF CallTypeOK
  <2> QED
    BY <1>3, <2>1 DEF DocDbBulkWrite, Answer, Applied, Accepted, Return, setup, fate
<1>4. CASE DocDbFails
  BY <1>4 DEF DocDbFails, Apply, Return, NoFault, Fault, FaultOf, setup, harm, fate
<1>5. CASE DynamoPrepare
  BY <1>5 DEF DynamoPrepare, Firsts, Plain, Return, setup, harm, fate
<1>6. CASE BatchWriteItem
  BY <1>6 DEF BatchWriteItem, Apply, Return, NoFault, Fault, FaultOf, setup, harm, fate
<1>7. CASE ValidationException
  BY <1>7 DEF ValidationException, setup, harm, fate
<1>8. CASE BatchWriteItemFails
  <2>1. PICK S \in SUBSET Accepted(todo) : Applied(S)
    BY <1>8, Applying DEF BatchWriteItemFails
  <2>2. faults' \in Nat /\ struck' \subseteq Id
    BY <1>8 DEF BatchWriteItemFails, NoFault, Fault, FaultOf, harm
  <2> QED
    BY <1>8, <2>1, <2>2 DEF BatchWriteItemFails, Applied, Return, setup, fate
<1>9. CASE FallbackPut
  BY <1>9 DEF FallbackPut, Apply, Return, NoFault, Fault, FaultOf, setup, harm, fate
<1>10. CASE PostgresPrepare
  BY <1>10 DEF PostgresPrepare, Firsts, SameColumns, Plain, setup, harm, fate
<1>11. CASE ExecOne
  BY <1>11 DEF ExecOne, Apply, NoFault, Fault, FaultOf, setup, harm, fate
<1>12. CASE ManyDone
  BY <1>12 DEF ManyDone, Return, setup, harm, fate
<1>13. CASE RowsDone
  BY <1>13 DEF RowsDone, Return, setup, harm, fate
<1>14. CASE ExecuteBulk
  BY <1>14 DEF ExecuteBulk, NameAll, Apply, Return, NoFault, setup, harm, fate
<1>15. CASE ExecuteBulkFails
  BY <1>15 DEF ExecuteBulkFails, NameAll, Apply, Return, Fault, FaultOf, setup, harm, fate
<1>16. ASSUME NEW i \in direct, Write(i) PROVE CallTypeOK'
  BY <1>16 DEF Write, Apply, NoFault, Fault, FaultOf, setup, harm, call
<1>17. CASE EmptyTick \/ UNCHANGED vars
  BY <1>17 DEF EmptyTick, vars, setup, harm, fate, call
<1> QED
  BY <1>1, <1>2, <1>3, <1>4, <1>5, <1>6, <1>7, <1>8, <1>9, <1>10, <1>11, <1>12, <1>13, <1>14,
     <1>15, <1>16, <1>17 DEF Next, FlushBand

-----------------------------------------------------------------------------
\* A row that is not accepted is refused for a listed reason or another.
LEMMA Refusals ==
    ASSUME SinkAssumption, CallTypeOK, NEW i \in Id
    PROVE  row[i].refuses \in {"no", "listed", "unlisted"}
BY DEF SinkAssumption, CallTypeOK

\* Every step of a call applies the rows it takes off its list, or names them.
LEMMA Accounting == ASSUME SinkAssumption, AccountInv, [Next]_vars PROVE AccountInv'
<1> USE DEF AccountInv, Accounted, AckedIsApplied, CallTypeOK, Unsent, Named, Id
<1>0. CallTypeOK'
  BY CallTypes
<1>1. CASE BulkWrite
  BY <1>0, <1>1 DEF BulkWrite, setup, harm, fate
<1>2. CASE Settle
  BY <1>0, <1>2 DEF Settle, Leaves, setup, harm
<1>3. CASE DocDbBulkWrite
  <2>1. PICK raced, hit, taken, failed : Answer(raced, hit, taken, failed)
    BY <1>3, Answering DEF CallTypeOK
  <2> QED
    BY <1>0, <1>3, <2>1 DEF DocDbBulkWrite, Answer, Applied, Return, setup, fate
<1>4. CASE DocDbFails
  BY <1>0, <1>4 DEF DocDbFails, Apply, Return, setup, harm, fate
<1>5. CASE DynamoPrepare
  BY <1>0, <1>5 DEF DynamoPrepare, Return, setup, harm, fate
<1>6. CASE BatchWriteItem
  <2>1. PICK unprocessed \in SUBSET todo : /\ Applied(todo \ unprocessed) /\ transient' = unprocessed
                                          /\ pc' = "returned"
    BY <1>6, Applying DEF BatchWriteItem, Return
  <2> QED
    BY <1>0, <1>6, <2>1 DEF BatchWriteItem, Applied, setup, fate
<1>7. CASE ValidationException
  BY <1>0, <1>7 DEF ValidationException, setup, harm, fate
<1>8. CASE BatchWriteItemFails
  BY <1>0, <1>8 DEF BatchWriteItemFails, Apply, Return, setup, harm, fate
<1>9. CASE FallbackPut
  <2>1. PICK i, S : Sent(i, S)
    BY <1>9, Sending
  <2> QED
    BY <1>0, <1>9, <2>1 DEF FallbackPut, Sent, Applied, Return, setup, fate
<1>10. CASE PostgresPrepare
  BY <1>0, <1>10 DEF PostgresPrepare, setup, harm, fate
<1>11. CASE ExecOne
  <2>1. PICK i, S : Sent(i, S)
    BY <1>11, Sending
  <2> QED
    BY <1>0, <1>11, <2>1 DEF ExecOne, Sent, Applied, setup, fate
<1>12. CASE ManyDone
  BY <1>0, <1>12 DEF ManyDone, Return, setup, harm, fate
<1>13. CASE RowsDone
  BY <1>0, <1>13 DEF RowsDone, Return, setup, harm, fate
<1>14. CASE ExecuteBulk
  <2>1. \/ /\ Applied(upserts) /\ Return("ok") /\ UNCHANGED transient
        \/ Applied({}) /\ pc' = "rows" /\ todo' = upserts /\ UNCHANGED <<outcome, transient>>
        \/ Applied({}) /\ NameAll
        \/ Applied({}) /\ Return("error") /\ UNCHANGED transient
    BY <1>14, Applying, Nothing DEF ExecuteBulk
  <2> QED
    BY <1>0, <1>14, <2>1 DEF ExecuteBulk, NameAll, Applied, Return, setup, fate
<1>15. CASE ExecuteBulkFails
  BY <1>0, <1>15 DEF ExecuteBulkFails, NameAll, Apply, Return, setup, harm, fate
<1>16. ASSUME NEW i \in direct, Write(i) PROVE AccountInv'
  <2>1. \/ Applied({i}) /\ acked' \in {acked, acked \cup {i}}
        \/ Applied({}) /\ acked' = acked
    BY <1>16, Applying, Nothing DEF Write
  <2> QED
    BY <1>0, <1>16, <2>1 DEF Write, Applied, setup, call
<1>17. CASE EmptyTick \/ UNCHANGED vars
  BY <1>17 DEF EmptyTick, vars, setup, harm, fate, call
<1> QED
  BY <1>1, <1>2, <1>3, <1>4, <1>5, <1>6, <1>7, <1>8, <1>9, <1>10, <1>11, <1>12, <1>13, <1>14,
     <1>15, <1>16, <1>17 DEF Next, FlushBand

\* No step puts a row on its list that is named.
LEMMA Separation == ASSUME SinkAssumption, CallTypeOK, Separate, [Next]_vars PROVE Separate'
<1> USE DEF Separate, CallTypeOK, Named, Id
<1>1. CASE BulkWrite
  BY <1>1 DEF BulkWrite, setup, harm, fate
<1>2. CASE Settle
  BY <1>2 DEF Settle, setup, harm
<1>3. CASE DocDbBulkWrite
  BY <1>3 DEF DocDbBulkWrite, Return, setup, harm, fate
<1>4. CASE DocDbFails
  BY <1>4 DEF DocDbFails, Return, setup, harm, fate
<1>5. CASE DynamoPrepare
  BY <1>5 DEF DynamoPrepare, Return, setup, harm, fate
<1>6. CASE BatchWriteItem
  BY <1>6 DEF BatchWriteItem, Return, setup, harm, fate
<1>7. CASE ValidationException
  BY <1>7 DEF ValidationException, setup, harm, fate
<1>8. CASE BatchWriteItemFails
  BY <1>8 DEF BatchWriteItemFails, Return, setup, harm, fate
<1>9. CASE FallbackPut
  BY <1>9 DEF FallbackPut, Return, Accepted, setup, harm, fate
<1>10. CASE PostgresPrepare
  BY <1>10 DEF PostgresPrepare, Firsts, SameColumns, Plain, setup, harm, fate
<1>11. CASE ExecOne
  BY <1>11 DEF ExecOne, Listed, Accepted, setup, harm, fate
<1>12. CASE ManyDone
  BY <1>12 DEF ManyDone, Return, setup, harm, fate
<1>13. CASE RowsDone
  BY <1>13 DEF RowsDone, Return, setup, harm, fate
<1>14. CASE ExecuteBulk
  BY <1>14 DEF ExecuteBulk, NameAll, Return, setup, harm, fate
<1>15. CASE ExecuteBulkFails
  BY <1>15 DEF ExecuteBulkFails, NameAll, Return, setup, harm, fate
<1>16. CASE (\E i \in direct : Write(i)) \/ EmptyTick \/ UNCHANGED vars
  BY <1>16 DEF Write, EmptyTick, vars, setup, harm, fate, call
<1> QED
  BY <1>1, <1>2, <1>3, <1>4, <1>5, <1>6, <1>7, <1>8, <1>9, <1>10, <1>11, <1>12, <1>13, <1>14,
     <1>15, <1>16 DEF Next, FlushBand

\* Statements of many rows are only made of upserts.
LEMMA Sorting == ASSUME SinkAssumption, CallTypeOK, Sorted, [Next]_vars PROVE Sorted'
<1>0. UNCHANGED setup
  BY SetupStays
<1>1. row' = row /\ backend' = backend
  BY <1>0 DEF setup
<1>2. Plain(Id)' = Plain(Id)
  BY <1>1 DEF Plain, Id
<1>3. {i \in Plain(Id) : row[i].form = "good"}' = {i \in Plain(Id) : row[i].form = "good"}
  BY <1>1, <1>2
<1>4. CASE PostgresPrepare
  <2>1. upserts' \subseteq Plain(Id)
    BY <1>4 DEF PostgresPrepare, Firsts, SameColumns, Plain, CallTypeOK
  <2> QED
    BY <1>1, <1>2, <1>4, <2>1 DEF PostgresPrepare, Sorted
<1>5. CASE DynamoPrepare
  <2>1. pc' = "batch" => todo' \subseteq {i \in Plain(Id) : row[i].form = "good"}
    BY <1>5 DEF DynamoPrepare, Firsts, Plain, Return, CallTypeOK
  <2> QED
    BY <1>1, <1>2, <1>3, <1>5, <2>1 DEF DynamoPrepare, Return, Sorted
<1>6. CASE ~PostgresPrepare /\ ~DynamoPrepare
  <2>1. upserts' \subseteq upserts
    BY <1>6 DEF Next, FlushBand, BulkWrite, Settle, DocDbBulkWrite, DocDbFails, BatchWriteItem,
         ValidationException, BatchWriteItemFails, FallbackPut, ExecOne, ManyDone, RowsDone,
         ExecuteBulk, ExecuteBulkFails, EmptyTick, Write, vars, call
  <2>2. pc' = "batch" => pc = "batch" /\ todo' = todo
    BY <1>6 DEF Next, FlushBand, BulkWrite, Settle, DocDbBulkWrite, DocDbFails, BatchWriteItem, Return,
         ValidationException, BatchWriteItemFails, FallbackPut, ExecOne, ManyDone, RowsDone, NameAll,
         ExecuteBulk, ExecuteBulkFails, EmptyTick, Write, vars, call
  <2>3. pc' \in {"many", "bulk", "rows"} => pc \in {"many", "bulk", "rows"}
    BY <1>6 DEF Next, FlushBand, BulkWrite, Settle, DocDbBulkWrite, DocDbFails, BatchWriteItem, Return,
         ValidationException, BatchWriteItemFails, FallbackPut, ExecOne, ManyDone, RowsDone, NameAll,
         ExecuteBulk, ExecuteBulkFails, EmptyTick, Write, vars, call
  <2> QED
    BY <1>1, <1>2, <1>3, <2>1, <2>2, <2>3 DEF Sorted
<1> QED
  BY <1>4, <1>5, <1>6

LEMMA Paying ==
    ASSUME CallTypeOK, CallTypeOK', Id' = Id, Debts, NEW S, Applied(S),
           faults' \in {faults, faults + 1}, \A i \in Id : Due(i)' => Due(i) \/ faults' = faults + 1,
           \A i \in S : Due(i) /\ (Due(i)' => faults' = faults + 1)
    PROVE  Debts'
<1> SUFFICES ASSUME NEW i \in Id PROVE times'[i] \leq 1 + faults' /\ (Due(i)' => times'[i] \leq faults')
  BY DEF Debts
<1>1. /\ faults \in Nat /\ times[i] \in Nat /\ times'[i] \in Nat
      /\ times[i] \leq 1 + faults /\ (Due(i) => times[i] \leq faults)
      /\ times'[i] \leq 1 + times[i] /\ (i \notin S => times'[i] = times[i])
  BY DEF CallTypeOK, Debts, Applied
<1>2. CASE i \in S
  BY <1>1, <1>2
<1>3. CASE i \notin S
  BY <1>1, <1>3
<1> QED
  BY <1>2, <1>3

\* A step that applies a row takes it off its list, or is a fault.
LEMMA Owing ==
    ASSUME SinkAssumption, CallTypeOK, row \in Seq(Row), Separate, Sorted, Mapped, Debts, [Next]_vars
    PROVE  Debts'
<1>0. CallTypeOK' /\ Separate' /\ Id' = Id
  BY CallTypes, Separation, SetupStays DEF setup, Id
<1> USE DEF Separate, CallTypeOK, Unsent, Named
<1>1. CASE BulkWrite
  <2>1. faults' = faults /\ Applied({})
    BY <1>1, Nothing DEF BulkWrite, setup, harm, fate, call
  <2>2. \A i \in Id : Due(i)' => Due(i)
    BY <1>0, <1>1 DEF Due, BulkWrite, setup, fate, call
  <2> QED
    BY <1>0, <2>1, <2>2, Paying
<1>2. CASE Settle
  <2>1. faults' = faults /\ Applied({})
    BY <1>2, Nothing DEF Settle, Leaves, setup, harm, fate, call
  <2>2. \A i \in Id : Due(i)' => Due(i)
    BY <1>0, <1>2 DEF Due, Settle, Leaves, setup, fate, call
  <2> QED
    BY <1>0, <2>1, <2>2, Paying
<1>3. CASE DocDbBulkWrite
  <2>1. PICK raced, hit, taken, failed : Answer(raced, hit, taken, failed)
    BY <1>3, Answering
  <2>2. pc = "called" /\ pc' = "returned" /\ todo' = {} /\ UNCHANGED <<fate, batch, upserts>>
    BY <1>3 DEF DocDbBulkWrite, Return
  <2>3. \A i \in Id : Due(i)' => Due(i)
    BY <2>2 DEF Due, fate
  <2>4. (batch \ failed) \cup taken \subseteq batch /\ faults' \in {faults, faults + 1}
    BY <2>1 DEF Answer, Accepted
  <2>5. ASSUME NEW i \in (batch \ failed) \cup taken PROVE Due(i) /\ (Due(i)' => faults' = faults + 1)
    <3>1. Due(i)
      BY <2>2, <2>4, <2>5 DEF Due
    <3>2. CASE hit = {}
      <4>1. i \notin permanent' /\ i \notin transient' /\ i \in batch'
        BY <2>1, <2>2, <2>5, <3>2 DEF Answer
      <4>2. CASE outcome' = "ok"
        BY <2>2, <3>1, <4>1, <4>2 DEF Due, fate
      <4> QED
        BY <2>1, <3>1, <4>2 DEF Answer
    <3>3. CASE hit # {}
      BY <2>1, <3>1, <3>3 DEF Answer
    <3> QED
      BY <3>2, <3>3
  <2> QED
    BY <1>0, <2>1, <2>3, <2>4, <2>5, Paying DEF Answer
<1>4. CASE DocDbFails
  <2>1. \/ Applied({}) /\ faults' = faults
        \/ faults' = faults + 1 /\ \E S \in SUBSET Accepted(batch) : Applied(S)
    BY <1>4, Applying, Nothing DEF DocDbFails, NoFault, Fault, FaultOf, harm
  <2>2. PICK S \in SUBSET batch : Applied(S) /\ faults' \in {faults, faults + 1}
                                 /\ (S # {} => faults' = faults + 1)
    BY <2>1 DEF Accepted
  <2>3. \A i \in Id : (Due(i)' => Due(i)) /\ (i \in batch => Due(i))
    BY <1>0, <1>4 DEF DocDbFails, Due, Return, fate
  <2> QED
    BY <1>0, <2>2, <2>3, Paying
<1>5. CASE DynamoPrepare
  <2>1. faults' = faults /\ Applied({})
    BY <1>5, Nothing DEF DynamoPrepare, Return, setup, harm, fate, call
  <2>2. \A i \in Id : Due(i)' => Due(i)
    BY <1>0, <1>5 DEF Due, DynamoPrepare, Return, setup, fate, call
  <2> QED
    BY <1>0, <2>1, <2>2, Paying
<1>6. CASE BatchWriteItem
  <2>1. PICK unprocessed \in SUBSET todo :
          /\ Applied(todo \ unprocessed) /\ transient' = unprocessed
          /\ IF unprocessed = {} THEN faults' = faults /\ outcome' = "ok" ELSE faults' = faults + 1
    BY <1>6, Applying DEF BatchWriteItem, Return, NoFault, Fault, FaultOf, harm
  <2>2. pc' = "returned" /\ todo' = {} /\ UNCHANGED <<fate, batch, upserts, permanent>>
    BY <1>6 DEF BatchWriteItem, Return
  <2>3. \A i \in Id : (Due(i)' => Due(i) \/ faults' = faults + 1) /\ (i \in todo => Due(i))
    BY <1>6, <2>1, <2>2 DEF BatchWriteItem, Due, fate
  <2>4. ASSUME unprocessed = {}, NEW i \in todo PROVE ~Due(i)'
    BY <2>1, <2>2, <2>4 DEF Due, fate
  <2> QED
    BY <1>0, <2>1, <2>3, <2>4, Paying
<1>7. CASE ValidationException
  <2>1. faults' = faults /\ Applied({})
    BY <1>7, Nothing DEF ValidationException, setup, harm, fate, call
  <2>2. \A i \in Id : Due(i)' => Due(i)
    BY <1>0, <1>7 DEF Due, ValidationException, setup, fate, call
  <2> QED
    BY <1>0, <2>1, <2>2, Paying
<1>8. CASE BatchWriteItemFails
  <2>1. PICK S \in SUBSET Accepted(todo) : Applied(S)
    BY <1>8, Applying DEF BatchWriteItemFails
  <2>2. Accepted(todo) \cup Listed(todo) = todo
    BY <1>8, Refusals DEF BatchWriteItemFails, Sorted, Mapped, Unmapped, Accepted, Listed, Plain, Id
  <2>3. faults' = faults + 1
    BY <1>8, <2>2 DEF BatchWriteItemFails, Fault, FaultOf
  <2>4. S \subseteq todo
    BY <2>1 DEF Accepted
  <2>5. \A i \in todo : i \in Id /\ Due(i)
    BY DEF Due
  <2> QED
    BY <1>0, <2>1, <2>3, <2>4, <2>5, Paying
<1>9. CASE FallbackPut
  <2>1. PICK i, S : Sent(i, S)
    BY <1>9, Sending
  <2>2. /\ pc' \in {"put", "returned"} /\ pc = "put" /\ outcome' = outcome
        /\ UNCHANGED <<fate, batch, upserts>>
    BY <1>9 DEF FallbackPut, Return
  <2>3. \A j \in Id : (Due(j)' => Due(j)) /\ (j = i => Due(j))
    BY <2>1, <2>2 DEF Sent, Due, fate
  <2>4. ASSUME i \in S, faults' = faults PROVE ~Due(i)'
    BY <2>1, <2>2, <2>4 DEF Sent, Due, fate
  <2> QED
    BY <1>0, <2>1, <2>3, <2>4, Paying DEF Sent
<1>10. CASE PostgresPrepare
  <2>1. faults' = faults /\ Applied({})
    BY <1>10, Nothing DEF PostgresPrepare, setup, harm, fate, call
  <2>2. \A i \in Id : Due(i)' => Due(i)
    BY <1>0, <1>10 DEF Due, PostgresPrepare, setup, fate, call
  <2> QED
    BY <1>0, <2>1, <2>2, Paying
<1>11. CASE ExecOne
  <2>1. PICK i, S : Sent(i, S)
    BY <1>11, Sending
  <2>2. pc' = pc /\ pc \in {"many", "rows"} /\ UNCHANGED <<outcome, fate, batch, upserts>>
    BY <1>11 DEF ExecOne
  <2>3. \A j \in Id : (Due(j)' => Due(j)) /\ (j = i => Due(j))
    BY <2>1, <2>2 DEF Sent, Due, fate
  <2>4. ASSUME i \in S, faults' = faults PROVE ~Due(i)'
    BY <2>1, <2>2, <2>4 DEF Sent, Due, fate
  <2> QED
    BY <1>0, <2>1, <2>3, <2>4, Paying DEF Sent
<1>12. CASE ManyDone
  <2>1. faults' = faults /\ Applied({})
    BY <1>12, Nothing DEF ManyDone, Return, setup, harm, fate, call
  <2>2. \A i \in Id : Due(i)' => Due(i)
    BY <1>0, <1>12 DEF Due, ManyDone, Return, setup, fate, call
  <2> QED
    BY <1>0, <2>1, <2>2, Paying
<1>13. CASE RowsDone
  <2>1. faults' = faults /\ Applied({})
    BY <1>13, Nothing DEF RowsDone, Return, setup, harm, fate, call
  <2>2. \A i \in Id : Due(i)' => Due(i)
    BY <1>0, <1>13 DEF Due, RowsDone, Return, setup, fate, call
  <2> QED
    BY <1>0, <2>1, <2>2, Paying
<1>14. CASE ExecuteBulk
  <2>1. ~Crowded(upserts)
    BY <1>14, CrowdedGrows DEF ExecuteBulk, Sorted, Mapped
  <2>2. ~\E i \in upserts : row[i].form = "uncoded"
    BY <1>14 DEF ExecuteBulk, Sorted, Mapped, Unmapped, Id
  <2>3. \/ Applied(upserts) /\ Return("ok") /\ UNCHANGED transient
        \/ Applied({}) /\ pc' = "rows" /\ todo' = upserts /\ UNCHANGED <<outcome, transient>>
        \/ Applied({}) /\ NameAll
    BY <1>14, <2>1, <2>2, Applying, Nothing DEF ExecuteBulk
  <2>4. pc = "bulk" /\ faults' = faults /\ UNCHANGED <<fate, batch, upserts, permanent>>
    BY <1>14 DEF ExecuteBulk, NoFault, harm
  <2>5. \A i \in Id : (Due(i)' => Due(i)) /\ (i \in upserts => Due(i))
    BY <2>3, <2>4 DEF Due, NameAll, Return, fate
  <2>6. CASE Applied({})
    BY <1>0, <2>4, <2>5, <2>6, Paying
  <2>7. CASE Applied(upserts) /\ Return("ok") /\ UNCHANGED transient
    <3>1. \A i \in upserts : ~Due(i)'
      BY <2>4, <2>7 DEF Due, Return, fate
    <3> QED
      BY <1>0, <2>4, <2>5, <2>7, <3>1, Paying
  <2> QED
    BY <2>3, <2>6, <2>7
<1>15. CASE ExecuteBulkFails
  <2>1. PICK S \in SUBSET upserts : Applied(S)
    BY <1>15, Applying, Nothing DEF ExecuteBulkFails, NameAll
  <2>2. pc = "bulk" /\ faults' = faults + 1 /\ UNCHANGED <<fate, batch, upserts, permanent>>
    BY <1>15 DEF ExecuteBulkFails, Fault, FaultOf
  <2>3. \A i \in upserts : i \in Id /\ Due(i)
    BY <2>2 DEF Due
  <2> QED
    BY <1>0, <2>1, <2>2, <2>3, Paying
<1>16. ASSUME NEW i \in direct, Write(i) PROVE Debts'
  <2>1. PICK S \in SUBSET {i} : Applied(S)
    BY <1>16, Applying, Nothing DEF Write
  <2>2. faults' \in {faults, faults + 1}
    BY <1>16 DEF Write, NoFault, Fault, FaultOf, harm
  <2>3. \A j \in Id : (Due(j)' => Due(j)) /\ (j = i => Due(j) /\ ~Due(j)')
    BY <1>16 DEF Write, Due, call
  <2> QED
    BY <1>0, <2>1, <2>2, <2>3, Paying
<1>17. CASE EmptyTick \/ UNCHANGED vars
  BY <1>17 DEF EmptyTick, vars, setup, harm, fate, call, Debts, Due, Id
<1> QED
  BY <1>1, <1>2, <1>3, <1>4, <1>5, <1>6, <1>7, <1>8, <1>9, <1>10, <1>11, <1>12, <1>13, <1>14,
     <1>15, <1>16, <1>17 DEF Next, FlushBand

\* What no action takes back: a row that has had a fault has had it.
LEMMA BadStays ==
    ASSUME SinkAssumption, [Next]_vars, NEW i, Bad(i)
    PROVE  Bad(i)'
<1>1. row' = row /\ backend' = backend
  BY SetupStays DEF setup
<1>2. struck \subseteq struck'
  BY DEF Next, FlushBand, BulkWrite, Settle, DocDbBulkWrite, DocDbFails, DynamoPrepare, BatchWriteItem,
         ValidationException, BatchWriteItemFails, FallbackPut, PostgresPrepare, ExecOne, ManyDone,
         RowsDone, ExecuteBulk, ExecuteBulkFails, EmptyTick, Write, vars, NoFault, harm, Fault, FaultOf
<1>3. Plain(Id)' = Plain(Id) /\ Accepted(Id)' = Accepted(Id)
  BY <1>1 DEF Plain, Accepted, Id
<1>4. Storable(i)' = Storable(i)
  BY <1>1, <1>3 DEF Storable
<1>5. Outdone(i) => Outdone(i)'
  BY <1>1, <1>2, <1>3 DEF Outdone
<1> QED
  BY <1>4, <1>5 DEF Bad

\* Errors that a call adds to the permanent ones.
LEMMA BuryingRows == ASSUME SinkAssumption, BuryInv, [Next]_vars PROVE BuryInv'
<1> USE DEF BuryInv, Excused, OnlyBadRowsBuried, CallTypeOK, Id
<1> DEFINE New == \A i \in permanent' : i \in permanent \/ Bad(i)'
           Rest == buried' \subseteq buried \cup permanent /\ UNCHANGED row
                   /\ (pc' \in {"batch", "put"} => backend' = "dynamodb")
<1>0. CallTypeOK'
  BY CallTypes
<1>1. ASSUME BulkWrite PROVE New /\ Rest
  BY <1>1 DEF BulkWrite, setup, harm, fate
<1>2. ASSUME Settle PROVE New /\ Rest
  BY <1>2 DEF Settle, setup, harm
<1>3. ASSUME DocDbBulkWrite PROVE New /\ Rest
  <2>1. PICK raced, hit, taken, failed : Answer(raced, hit, taken, failed)
    BY <1>3, Answering DEF CallTypeOK
  <2>2. Rest /\ backend' = "docdb"
    BY <1>3 DEF DocDbBulkWrite, Return, setup, fate
  <2>3. ASSUME NEW i \in permanent' PROVE Bad(i)'
    <3>1. CASE i \in hit
      BY <2>1, <2>2, <3>1 DEF Answer, Bad, Outdone
    <3>2. CASE i \notin hit
      BY <2>1, <2>2, <2>3, <3>2 DEF Answer, ClassifyBulkErr, Accepted, Bad, Storable
    <3> QED
      BY <3>1, <3>2
  <2> QED
    BY <2>2, <2>3
<1>4. ASSUME DocDbFails PROVE New /\ Rest
  BY <1>4 DEF DocDbFails, Return, setup, harm, fate
<1>5. ASSUME DynamoPrepare PROVE New /\ Rest
  BY <1>5 DEF DynamoPrepare, Firsts, Plain, Accepted, Return, setup, harm, fate, Bad, Storable, Outdone
<1>6. ASSUME BatchWriteItem PROVE New /\ Rest
  BY <1>6 DEF BatchWriteItem, Return, setup, harm, fate
<1>7. ASSUME ValidationException PROVE New /\ Rest
  BY <1>7 DEF ValidationException, setup, harm, fate
<1>8. ASSUME BatchWriteItemFails PROVE New /\ Rest
  BY <1>8 DEF BatchWriteItemFails, Return, setup, harm, fate
<1>9. ASSUME FallbackPut PROVE New /\ Rest
  BY <1>9 DEF FallbackPut, Return, Accepted, Fault, FaultOf, NoFault, setup, harm, fate, Bad, Storable, Outdone
<1>10. ASSUME PostgresPrepare PROVE New /\ Rest
  BY <1>10 DEF PostgresPrepare, Firsts, SameColumns, Plain, Accepted, setup, harm, fate, Bad, Storable,
               Outdone
<1>11. ASSUME ExecOne PROVE New /\ Rest
  BY <1>11 DEF ExecOne, Listed, Accepted, setup, harm, fate, Bad, Storable
<1>12. ASSUME ManyDone PROVE New /\ Rest
  BY <1>12 DEF ManyDone, Return, setup, harm, fate
<1>13. ASSUME RowsDone PROVE New /\ Rest
  BY <1>13 DEF RowsDone, Return, setup, harm, fate
<1>14. ASSUME ExecuteBulk PROVE New /\ Rest
  BY <1>14 DEF ExecuteBulk, NameAll, Return, setup, harm, fate
<1>15. ASSUME ExecuteBulkFails PROVE New /\ Rest
  BY <1>15 DEF ExecuteBulkFails, NameAll, Return, setup, harm, fate
<1>16. ASSUME (\E i \in direct : Write(i)) \/ EmptyTick \/ UNCHANGED vars PROVE New /\ Rest
  BY <1>16 DEF Write, EmptyTick, vars, setup, harm, fate, call
<1>17. New /\ Rest
  BY <1>1, <1>2, <1>3, <1>4, <1>5, <1>6, <1>7, <1>8, <1>9, <1>10, <1>11, <1>12, <1>13, <1>14,
     <1>15, <1>16 DEF Next, FlushBand
<1>18. (\A i \in permanent : Bad(i)') /\ \A i \in buried : Bad(i)'
  BY BadStays DEF Bad
<1> QED
  BY <1>0, <1>17, <1>18 DEF Bad

\* README.md:615, "The engine never infers success": with each of the bundled
\* sinks, a commit only follows the store.  CheckAttribution and the naming of
\* every row the store did not take are enough.
THEOREM CommitsFollowTheStore == Spec => []AckedIsApplied
<1>1. ASSUME SinkAssumption, Init PROVE AccountInv
  BY <1>1 DEF Init, Idle, AccountInv, CallTypeOK, Accounted, AckedIsApplied, Unsent, Named, Id,
              SinkAssumption
<1>2. ASSUME SinkAssumption, AccountInv, [Next]_vars PROVE AccountInv'
  BY <1>2, Accounting
<1>3. AccountInv => AckedIsApplied
  BY DEF AccountInv
<1> QED
  BY <1>1, <1>2, <1>3, SinkAssumption, PTL DEF Spec

\* A sink that maps every error of its store to rows has the engine apply a row again
\* only when a fault kept its answer: what an UpdateMany that is not idempotent has to
\* reckon with.  Mapped leaves out the rows for which postgres.go:240, dynamodb.go:212 and
\* the drivers fail the whole call, with no fault, and the batch runs again every flush.
THEOREM RepeatsAreFaults == Spec => []AgainOnlyAfterFault
<1>1. ASSUME SinkAssumption, Init PROVE OweInv
  <2>1. PICK n \in 1..MaxRows : row \in [1..n -> Row]
    BY <1>1 DEF Init
  <2>2. row \in Seq(Row) /\ \A i \in Id : row[i] \in Row
    BY <1>1, <2>1 DEF SinkAssumption, Id
  <2> QED
    BY <1>1, <2>2
       DEF Init, Idle, OweInv, CallTypeOK, Separate, Sorted, Debts, Due, Unsent, Named, Id, SinkAssumption
<1>2. ASSUME SinkAssumption, OweInv, [Next]_vars PROVE OweInv'
  <2>1. UNCHANGED row /\ Mapped' = Mapped
    BY <1>2, SetupStays, MappedStays DEF setup
  <2> QED
    BY <1>2, <2>1, CallTypes, Separation, Sorting, Owing DEF OweInv
<1>3. OweInv => AgainOnlyAfterFault
  BY DEF OweInv, Debts, AgainOnlyAfterFault
<1> QED
  BY <1>1, <1>2, <1>3, SinkAssumption, PTL DEF Spec

\* The engine dead-letters only rows that the store will never take, rows that the sink
\* puts out in Go (a key that prints as an earlier one does, other columns), and, with
\* DocumentDB and DynamoDB, rows whose own write met a fault: docdb.go:168 takes every
\* write error but 11000 to be permanent, and the fallback of dynamodb.go every failed put.
THEOREM BurialsHaveReasons == Spec => []OnlyBadRowsBuried
<1>1. ASSUME SinkAssumption, Init PROVE BuryInv
  BY <1>1 DEF Init, Idle, BuryInv, CallTypeOK, Excused, OnlyBadRowsBuried, Id, SinkAssumption
<1>2. ASSUME SinkAssumption, BuryInv, [Next]_vars PROVE BuryInv'
  BY <1>2, BuryingRows
<1>3. BuryInv => OnlyBadRowsBuried
  BY DEF BuryInv
<1> QED
  BY <1>1, <1>2, <1>3, SinkAssumption, PTL DEF Spec

-----------------------------------------------------------------------------
\* What the store was not asked to take or has not taken, it names one way.
LEMMA OneVerdict ==
    ASSUME SinkAssumption, CallTypeOK, Separate, DocDbBulkWrite
    PROVE  /\ permanent' \subseteq batch /\ transient' \subseteq batch
           /\ permanent' \cap transient' = {}
<1>1. PICK raced, hit, taken, failed : Answer(raced, hit, taken, failed)
  BY Answering DEF CallTypeOK
<1>2. failed \subseteq batch
  BY <1>1 DEF Answer, Accepted
<1> QED
  BY <1>1, <1>2 DEF Answer

\* No step names a row twice, or leaves it in two places.
LEMMA Placing == ASSUME SinkAssumption, CallTypeOK, Separate, Placed, [Next]_vars PROVE Placed'
<1> USE DEF Placed, Separate, Named, CallTypeOK, Id
<1>1. CASE BulkWrite
  BY <1>1 DEF BulkWrite, setup, harm, fate
<1>2. CASE Settle
  BY <1>2 DEF Settle, Leaves, setup, harm, fate
<1>3. CASE DocDbBulkWrite
  BY <1>3, OneVerdict DEF DocDbBulkWrite, setup, harm, fate
<1>4. CASE DocDbFails
  BY <1>4 DEF DocDbFails, Apply, Return, setup, harm, fate
<1>5. CASE DynamoPrepare
  BY <1>5 DEF DynamoPrepare, Firsts, Plain, Return, setup, harm, fate
<1>6. CASE BatchWriteItem
  BY <1>6 DEF BatchWriteItem, Apply, Return, setup, harm, fate
<1>7. CASE ValidationException
  BY <1>7 DEF ValidationException, setup, harm, fate
<1>8. CASE BatchWriteItemFails
  BY <1>8 DEF BatchWriteItemFails, Apply, Return, setup, harm, fate
<1>9. CASE FallbackPut
  BY <1>9 DEF FallbackPut, Apply, Return, Accepted, setup, harm, fate
<1>10. CASE PostgresPrepare
  BY <1>10 DEF PostgresPrepare, Firsts, SameColumns, Plain, setup, harm, fate
<1>11. CASE ExecOne
  BY <1>11 DEF ExecOne, Listed, Accepted, setup, harm, fate
<1>12. CASE ManyDone
  BY <1>12 DEF ManyDone, Return, setup, harm, fate
<1>13. CASE RowsDone
  BY <1>13 DEF RowsDone, Return, setup, harm, fate
<1>14. CASE ExecuteBulk
  BY <1>14 DEF ExecuteBulk, NameAll, Apply, Return, setup, harm, fate
<1>15. CASE ExecuteBulkFails
  BY <1>15 DEF ExecuteBulkFails, NameAll, Apply, Return, setup, harm, fate
<1>16. ASSUME NEW i \in direct, Write(i) PROVE Placed'
  BY <1>16 DEF Write, setup, harm, call
<1>17. CASE EmptyTick \/ UNCHANGED vars
  BY <1>17 DEF EmptyTick, vars, setup, harm, fate, call
<1> QED
  BY <1>1, <1>2, <1>3, <1>4, <1>5, <1>6, <1>7, <1>8, <1>9, <1>10, <1>11, <1>12, <1>13, <1>14,
     <1>15, <1>16, <1>17 DEF Next, FlushBand

\* The configuration stays, and faults are counted up to their bound.
LEMMA SettingStays == ASSUME SinkAssumption, Setting, [Next]_vars PROVE Setting'
<1> USE DEF Setting
<1>1. UNCHANGED setup
  BY SetupStays
<1>2. NoFault \/ (faults < MaxFaults /\ faults' = faults + 1)
  BY DEF Next, FlushBand, BulkWrite, Settle, DocDbBulkWrite, DocDbFails, DynamoPrepare, BatchWriteItem,
         ValidationException, BatchWriteItemFails, FallbackPut, PostgresPrepare, ExecOne, ManyDone,
         RowsDone, ExecuteBulk, ExecuteBulkFails, Write, EmptyTick, vars, NoFault, harm, Fault, FaultOf
<1>3. faults' \in 0..MaxFaults
  BY <1>2, SinkAssumption DEF NoFault, harm, SinkAssumption
<1>4. outcome' \in {"ok", "error", "anonymous"}
  BY DEF Next, FlushBand, BulkWrite, Settle, DocDbBulkWrite, DocDbFails, DynamoPrepare, BatchWriteItem,
         ValidationException, BatchWriteItemFails, FallbackPut, PostgresPrepare, ExecOne, ManyDone,
         RowsDone, ExecuteBulk, ExecuteBulkFails, Write, EmptyTick, vars, call, Return, NameAll
<1> QED
  BY <1>1, <1>3, <1>4 DEF setup, harm

\* docdb, dynamodb and postgres under flush_engine.go: whatever the store answers, a row
\* is either dirty, on its way by a degraded write, committed or dead-lettered, and a
\* call names a row as a permanent or a transient error, never as both.
THEOREM SinkTypeCorrect == Spec => []SinkTypeOK
<1>1. ASSUME SinkAssumption, Init PROVE PlaceInv
  <2>1. PICK n \in 1..MaxRows : row \in [1..n -> Row]
    BY <1>1 DEF Init
  <2>2. row \in Seq(Row)
    BY <1>1, <2>1 DEF SinkAssumption
  <2>. QED
    BY <1>1, <2>1, <2>2
       DEF Init, Idle, PlaceInv, CallTypeOK, Separate, Placed, Setting, Named, Id, SinkAssumption
<1>2. ASSUME SinkAssumption, PlaceInv, [Next]_vars PROVE PlaceInv'
  BY <1>2, CallTypes, Separation, Placing, SettingStays DEF PlaceInv
<1>3. PlaceInv => SinkTypeOK
  BY DEF PlaceInv, CallTypeOK, Placed, Setting, SinkTypeOK
<1> QED
  BY <1>1, <1>2, <1>3, SinkAssumption, PTL DEF Spec
=============================================================================
