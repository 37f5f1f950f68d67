------------------------------ MODULE MCScenario ------------------------------
(* A small instance of Scenario for TLC: two families, two keys, arithmetic
   modulo 3. *)
EXTENDS Scenario

Put(k)    == [kind |-> "put", id |-> k, end |-> 0, operand |-> <<>>]
Delete(k) == [kind |-> "delete", id |-> k, end |-> 0, operand |-> <<>>]
Merge(k, a, b) == [kind |-> "merge", id |-> k, end |-> 0, operand |-> <<a, b>>]
Span(b, e)     == [kind |-> "range", id |-> b, end |-> e, operand |-> <<>>]

DrawOf(kind, pick, ws) ==
  [kind |-> kind, pick |-> pick, lo |-> 0, hi |-> 2, writes |-> ws,
   span |-> FALSE, picks |-> <<>>, check |-> FALSE]

\* Creation and drop, a batch over both families, merges on one of them, a
\* range delete between writes, the clearing of a range, snapshots, opening.
SomeDraws ==
  {DrawOf("create", 1, <<>>), DrawOf("drop", 1, <<>>),
   [DrawOf("write", 0, <<Put(0), Put(1), Merge(0, 2, 1)>>) EXCEPT
      !.span = TRUE, !.picks = <<0, 1, 1>>],
   DrawOf("write", 1, <<Merge(1, 2, 1), Merge(1, 2, 2)>>),
   DrawOf("write", 1, <<Put(0), Span(0, 1), Merge(1, 1, 1)>>),
   DrawOf("clear", 1, <<Put(1)>>),
   DrawOf("snap", 0, <<>>), [DrawOf("snap", 1, <<>>) EXCEPT !.check = TRUE],
   DrawOf("reopen", 0, <<>>), DrawOf("compact", 1, <<>>)}

\* Every scenario of four operations, the snapshot of a family that is dropped
\* and created again before it is checked, and a first write that changes
\* nothing.
SomeSeeds ==
  [1 .. 4 -> SomeDraws]
    \cup {<<DrawOf("create", 1, <<>>), DrawOf("write", 1, <<Merge(1, 2, 1), Merge(1, 2, 2)>>),
            DrawOf("snap", 0, <<>>), DrawOf("drop", 1, <<>>), DrawOf("create", 1, <<>>), d,
            DrawOf("reopen", 0, <<>>)>> : d \in SomeDraws}
    \cup {<<DrawOf("clear", 0, <<>>), d>> : d \in SomeDraws}

SomeTouches == {Put(1), Merge(0, 2, 1), Span(0, 2)}
===============================================================================
