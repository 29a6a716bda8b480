------------------------- MODULE MCDeadLetterQueue -------------------------
(* Instances of DeadLetterQueue for TLC. *)
EXTENDS DeadLetterQueue, TLC

\* Keys are interchangeable, and so are workers.  The runs with liveness
\* properties do not use this.
Symmetry == Permutations(Key) \union Permutations(Worker)
=============================================================================
