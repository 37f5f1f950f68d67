-------------------------------- MODULE MCCursor --------------------------------
(* A small instance of Cursor for TLC. *)
EXTENDS Cursor

One(type, k) == [type |-> type, begin |-> k, end |-> k]
Span(b, e)   == [type |-> "range", begin |-> b, end |-> e]

\* Entries of every type, range deletes that overlap, leave a gap and cover
\* all, and one of an empty range.
SomeWrites ==
  <<{One("value", 2), One("value", 3), Span(1, 2), Span(2, 2)},
    {One("value", 1), One("merge", 2), One("deletion", 2), Span(3, 4)},
    {One("merge", 2), One("deletion", 2), Span(1, 4), Span(2, 4)},
    {One("merge", 2), Span(1, 3)}>>
==================================================================================
