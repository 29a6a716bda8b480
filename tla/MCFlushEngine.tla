--------------------------- MODULE MCFlushEngine ---------------------------
(* Instances of FlushEngine for TLC. *)
EXTENDS FlushInvariants, TLC

\* Keys are interchangeable, and so are pods.  The runs with liveness
\* properties use neither.
KeySymmetry == Permutations(Key)
PodSymmetry == Permutations(Pod)
=============================================================================
