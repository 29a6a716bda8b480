------------------------------- MODULE MCSinks -------------------------------
(* Instances of Sinks for TLC. *)
EXTENDS Sinks

Upsert(d, c, f) ==
    [many |-> FALSE, form |-> "good", doc |-> d, key |-> d, cols |-> c, refuses |-> f]
Good == Upsert(1, "c", "no")

\* Upserts of a few documents and of two column sets; one whose key is printed like
\* another's, and one of a document that is printed in two ways; UpdateMany; models
\* that cannot be encoded, and that are not what the sink takes.
Rows ==
    {Upsert(1, "c", f) : f \in {"no", "listed", "unlisted"}}
    \cup {Upsert(3, "e", "no"), Upsert(4, "e", "no")}
    \cup {[Good EXCEPT !.doc = 2], [Good EXCEPT !.key = 2]}
    \cup {[Upsert(5, "c", f) EXCEPT !.many = TRUE] : f \in {"no", "listed", "unlisted"}}
    \cup {[Good EXCEPT !.form = f] : f \in {"uncoded", "odd"}}

EncodedRows == {r \in Rows : r.form # "uncoded"}

\* Of the columns "c" a statement takes any number here, of "e" one row.
Most == [c |-> 3, e |-> 1]
=============================================================================
