---------------------------- MODULE WriteBuffer ----------------------------
(***************************************************************************)
(* What the write-behind buffer promises its callers, key by key, with no  *)
(* Redis, no flush cycle and no pod in it (README.md "Durability model"):  *)
(* an accepted write stays pending until the store holds it or it is       *)
(* quarantined, and the store only ever moves forward.                     *)
(***************************************************************************)
EXTENDS Naturals

CONSTANTS Key, MaxWrites

VARIABLES accepted, \* number of writes acknowledged to callers
          doc,      \* payload of the document in the store, 0 for none
          status    \* "pending", "clean" or "dead" (quarantined)

bufferVars == <<accepted, doc, status>>

BufferInit ==
    /\ accepted = [k \in Key |-> 0]
    /\ doc = [k \in Key |-> 0]
    /\ status = [k \in Key |-> "clean"]

Accept(k) ==
    /\ accepted[k] < MaxWrites
    /\ accepted' = [accepted EXCEPT ![k] = @ + 1]
    /\ status' = [status EXCEPT ![k] = "pending"]
    /\ UNCHANGED doc

\* The store moves to a write at least as new as the one it has, and is only
\* touched on behalf of a pending write.
Persist(k, p) ==
    /\ status[k] = "pending"
    /\ doc[k] <= p /\ p <= accepted[k]
    /\ doc' = [doc EXCEPT ![k] = p]
    /\ UNCHANGED <<accepted, status>>

\* Nothing is pending any more: the store has the latest write.
Settle(k) ==
    /\ status[k] = "pending"
    /\ doc[k] = accepted[k]
    /\ status' = [status EXCEPT ![k] = "clean"]
    /\ UNCHANGED <<accepted, doc>>

\* The latest write is quarantined.
Quarantine(k) ==
    /\ status[k] = "pending"
    /\ status' = [status EXCEPT ![k] = "dead"]
    /\ UNCHANGED <<accepted, doc>>

BufferNext ==
    \E k \in Key :
        \/ Accept(k)
        \/ \E p \in 1..MaxWrites : Persist(k, p)
        \/ Settle(k)
        \/ Quarantine(k)

BufferSpec == BufferInit /\ [][BufferNext]_bufferVars
=============================================================================
