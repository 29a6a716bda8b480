----------------------------- MODULE MCIndexes -----------------------------
(* Instances of Indexes for TLC. *)
EXTENDS Indexes

CONSTANTS f, n, g
\* A field with a string or a number, and one with a string; payloads with either
\* kind of value in the first, with the second field only, and with nothing to index.
Fields   == [i \in {f, n, g} |-> IF i = g THEN "other" ELSE "field"]
Contents == {{f}, {n}, {g}, {}}
=============================================================================
