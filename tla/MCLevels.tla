------------------------------- MODULE MCLevels -------------------------------
(* Small instances of Levels for TLC. *)
EXTENDS Levels

One(type, k) == [type |-> type, begin |-> k, end |-> k]
Span(b, e)   == [type |-> "range", begin |-> b, end |-> e]

\* One key on which everything happens, one that lies in the same range.
Folding == {One("value", 1), One("merge", 1), One("deletion", 1),
            One("merge", 2), Span(1, 3)}

\* Two keys with a gap between them, where tables of a level can leave one, and
\* range deletes that cross over the second and reach beyond it.
Spanning == {One("value", 1), One("merge", 3), Span(1, 4), Span(3, 5)}

\* One put for each key.
Puts == {One("value", k) : k \in Keys}
==============================================================================
