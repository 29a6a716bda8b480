---------------------------- MODULE MCWritePath ----------------------------
(* Instances of WritePath for TLC. *)
EXTENDS WritePath, TLC

\* Callers, contents and messages are interchangeable.
Symmetry == Permutations(Caller) \union Permutations(Content)
=============================================================================
