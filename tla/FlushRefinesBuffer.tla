------------------------- MODULE FlushRefinesBuffer -------------------------
(***************************************************************************)
(* The flush engine of one pod implements WriteBuffer.                     *)
(***************************************************************************)
EXTENDS FlushInvariants

\* A key is pending while it is in the dirty set.  Out of it, it is clean when
\* the store holds its latest write, quarantined when it is in the dead-letter
\* set, and in no state WriteBuffer knows otherwise.
BufferStatus ==
    [k \in Key |->
        CASE k \in dirty            -> "pending"
          [] k \notin dirty /\ sink[k] = written[k] -> "clean"
          [] k \in dlq \ dirty /\ sink[k] # written[k] -> "dead"
          [] OTHER                  -> "lost"]

Buffer == INSTANCE WriteBuffer WITH
              accepted <- written, doc <- sink, status <- BufferStatus

\* README.md "Durability model": every step of the engine, its scripts, its
\* failures and the expiry of hashes is a step WriteBuffer allows, or none.
ImplementsBuffer == Buffer!BufferSpec

-----------------------------------------------------------------------------
(* Why: the inductive strengthening of SettledIsLatest.                    *)

\* The one pod holds only keys that are dirty: nobody else takes them out.
HeldIsDirty ==
    \A f \in Pod : \A k \in Key : stage[f][k] # "none" => k \in dirty

\* A dirty key has a payload, and so no cycle finds one missing.
DirtyHasPayload == \A k \in dirty : payload[k] # Missing

NothingIsMissing ==
    \A f \in Pod : \A k \in Key : stage[f][k] \in InFlight => gotP[f][k] # Missing

\* What is in hand lies between the document and the latest write, what has been
\* applied is the document, and the store never ran ahead.
OrderInv ==
    \A k \in Key :
        /\ sink[k] <= written[k]
        /\ \A f \in Pod :
            /\ stage[f][k] \in InFlight => sink[k] <= gotP[f][k] /\ gotP[f][k] <= written[k]
            /\ stage[f][k] \in {"applied", "commit"} => sink[k] = gotP[f][k]

\* What a single pod relies on, over a store that applies nothing behind its
\* back, a Redis that keeps unflushed hashes and a sink that attributes errors.
PodInv ==
    /\ TypeOK
    /\ HashIsLatest
    /\ UnflushedPersists
    /\ late = {} /\ evicted = {}
    /\ HeldIsDirty
    /\ DirtyHasPayload
    /\ NothingIsMissing
    /\ ReadIsVersioned
    /\ ReadIsWhole
    /\ MissingIsRecorded
    /\ ModelsArePayloads
    /\ AppliedIsStored
    /\ OrderInv

\* The invariant of a single pod when nobody else touches the store.
OnePodInv == PodInv /\ SettledIsLatest
=============================================================================
