---------------------------- MODULE MCReadCaches ----------------------------
(* Instances of ReadCaches for TLC. *)
EXTENDS ReadCaches

\* Nothing but the types is claimed once the store has gone astray, and TLC does not
\* go on from there.
UntilAstray == ~astray
=============================================================================
