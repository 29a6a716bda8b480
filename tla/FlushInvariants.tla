-------------------------- MODULE FlushInvariants --------------------------
(***************************************************************************)
(* The inductive strengthening of the safety properties of FlushEngine.    *)
(* TLC checks it as an invariant; FlushEngineProofs proves it.             *)
(***************************************************************************)
EXTENDS FlushEngine

\* A hash holds the latest write or nothing, and has a sequence exactly when
\* it holds a write.
HashIsLatest ==
    \A k \in Key :
        /\ payload[k] \in {Missing, written[k]}
        /\ payload[k] = Missing <=> seq[k] = 0

\* What a cycle read is of a sequence the hash has not gone back behind, and
\* as long as the hash still has that sequence it has that payload.
InFlight == Stage \ {"none", "scanned"}

ReadIsVersioned ==
    \A f \in Pod : \A k \in Key \ evicted :
        stage[f][k] \in InFlight =>
            /\ gotV[f][k] <= seq[k]
            /\ gotV[f][k] = seq[k] => gotP[f][k] = payload[k]

\* The payload and the sequence of a key were read together.
ReadIsWhole ==
    \A f \in Pod : \A k \in Key :
        stage[f][k] \in InFlight => (gotP[f][k] = Missing <=> gotV[f][k] = 0)

\* What is taken for missing was read without a payload, and is on record.
MissingIsRecorded ==
    \A f \in Pod : \A k \in Key :
        stage[f][k] \in {"missing", "surfaced"} => gotP[f][k] = Missing /\ k \in recorded

\* Only keys with a payload get a model, and during BulkWrite every key of the
\* cycle is a model, applied or not.
ModelsArePayloads ==
    \A f \in Pod : \A k \in Key :
        /\ stage[f][k] \in {"model", "applied", "commit", "bury"} => gotP[f][k] # Missing
        /\ pc[f] = "bulkwrite" => stage[f][k] \in {"none", "model", "applied"}

\* What is applied or about to be committed is in the store's history.
AppliedIsStored ==
    \A f \in Pod : \A k \in Key :
        stage[f][k] \in {"applied", "commit"} => gotP[f][k] \in stored[k]

\* CleanMeansStored with the dead-letter alternative in inductive form.
CleanIsStoredOrDead ==
    \A k \in Key \ (dirty \union evicted) :
        written[k] = 0 \/ written[k] \in stored[k] \/ k \in dlq

\* The invariant of a fleet of pods whose cycles end before a committed hash
\* can expire, over a sink that attributes its errors.
FleetInv ==
    /\ TypeOK
    /\ HashIsLatest
    /\ UnflushedPersists
    /\ ReadIsVersioned
    /\ ReadIsWhole
    /\ MissingIsRecorded
    /\ ModelsArePayloads
    /\ AppliedIsStored
    /\ CleanIsStoredOrDead
=============================================================================
