------------------------------ MODULE SnapshotWalk ------------------------------
(***************************************************************************)
(* What an iterator promises: it walks the contents its snapshot has, in   *)
(* key order, both ways, whatever is written meanwhile.  `contents` gives  *)
(* the value of each key, <<>> for a key that is not there; `shown` is     *)
(* what the user sees: the key, 0 when the iterator is not valid, the      *)
(* value, and the call that led there.                                     *)
(***************************************************************************)
EXTENDS Integers, Sequences, FiniteSets, FiniteSetsExt

CONSTANT WalkKeys

VARIABLES isOpen, contents, shown

NoContents == [k \in WalkKeys |-> <<>>]
Nowhere    == [at |-> 0, val |-> <<>>, by |-> <<"none">>]

There == {k \in WalkKeys : contents[k] # <<>>}

Least(S)    == IF S = {} THEN 0 ELSE Min(S)
Greatest(S) == IF S = {} THEN 0 ELSE Max(S)

Show(k, by) ==
  shown' = [at |-> k, val |-> IF k = 0 THEN <<>> ELSE contents[k], by |-> by]

Init == isOpen = FALSE /\ contents = NoContents /\ shown = Nowhere

\* The snapshot's contents are settled once and for all.
Open ==
  /\ ~isOpen /\ isOpen' = TRUE
  /\ contents' \in [WalkKeys -> Seq(Nat)] /\ shown' = Nowhere

Close ==
  /\ isOpen /\ isOpen' = FALSE
  /\ contents' = NoContents /\ shown' = Nowhere

Move ==
  \/ \E k \in WalkKeys \cup {Cardinality(WalkKeys) + 1} :
       Show(Least({x \in There : x >= k}), <<"seek", k>>)
  \/ Show(Least(There), <<"first">>)
  \/ Show(Greatest(There), <<"last">>)
  \/ shown.at # 0 /\ Show(Least({x \in There : x > shown.at}), <<"next">>)
  \/ shown.at # 0 /\ Show(Greatest({x \in There : x < shown.at}), <<"prev">>)

Next ==
  \/ Open \/ Close
  \/ isOpen /\ Move /\ UNCHANGED <<isOpen, contents>>

Spec == Init /\ [][Next]_<<isOpen, contents, shown>>
=================================================================================
