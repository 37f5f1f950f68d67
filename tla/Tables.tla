-------------------------------- MODULE Tables --------------------------------
(***************************************************************************)
(* What a memtable or a table of one column family holds, which tables a   *)
(* compaction takes, and what it makes of their contents.                  *)
(*                                                                         *)
(* Keys are numbers.  A write is its sequence number; the value of an      *)
(* entry is the sequence of the writes that it resolves to, oldest first,  *)
(* so FullMerge and PartialMerge are concatenation: an operand that is     *)
(* lost, applied twice or out of order gives another value.                *)
(***************************************************************************)
EXTENDS Naturals, SequencesExt

CONSTANTS
  NKeys,    \* keys are 1 .. NKeys
  MaxSeq    \* bound: writes in a behaviour

Keys == 1 .. NKeys
Seqs == 1 .. MaxSeq

\* kMaxSequenceNumber, above the number of every write.
KMax == MaxSeq + 1

\* Above every key and every end of a range.
KeyEnd == NKeys + 2

EntryType == {"value", "deletion", "merge"}
Entry     == [key : Keys, seq : Seqs, type : EntryType, val : Seq(Seqs)]
Tombstone == [begin : Keys, end : 2 .. NKeys + 1, seq : Seqs]
Table     == [entries : SUBSET Entry, tombs : SUBSET Tombstone]

Empty == [entries |-> {}, tombs |-> {}]

\* The range tombstone t covers key k: [begin, end).
Covers(t, k) == t.begin <= k /\ k < t.end

Oldest(S) == CHOOSE e \in S : \A x \in S : e.seq <= x.seq
Newest(S) == CHOOSE e \in S : \A x \in S : x.seq <= e.seq

\* The value of the one of ops with sequence number n.
ValueAt(ops, n) ==
  IF \E e \in ops : e.seq = n THEN (CHOOSE e \in ops : e.seq = n).val ELSE <<>>

\* Bug: the operands are folded newest first.
FoldedNewestFirst(ops) == FlattenSeq([n \in Seqs |-> ValueAt(ops, KMax - n)])

\* The value of operands (and perhaps a base) folded oldest first.
Folded(ops) == FlattenSeq([n \in Seqs |-> ValueAt(ops, n)])

------------------------------------------------------------------------------
(* The bounds of a table.                                                  *)

KeysIn(T) == {e.key : e \in T.entries}

\* Bug: the bounds are those of the entries, when there are any.
LoOfEntries(T) ==
  IF T.entries # {} THEN Min(KeysIn(T)) ELSE Min({t.begin : t \in T.tombs})

\* User keys of `smallest` and `largest`: tombstones extend them.
Lo(T) == Min(KeysIn(T) \cup {t.begin : t \in T.tombs})
Hi(T) == Max(KeysIn(T) \cup {t.end : t \in T.tombs})

\* `largest` is the end of a tombstone, which sorts before every entry of
\* that key: the table holds nothing of it.
Open(T) == Hi(T) \notin KeysIn(T)

\* Bug: tables that share a key with the end of the range are missed.
OverlapsInside(T, a, b) == Lo(T) < b /\ a < Hi(T)

\* Comparisons of ranges are by user key, both ends included.
Overlaps(T, a, b) == Lo(T) <= b /\ a <= Hi(T)

HullLo(S) == Min({Lo(T) : T \in S})
HullHi(S) == Max({Hi(T) : T \in S})

\* T's internal keys all come before U's.
Precedes(T, U) == Hi(T) < Lo(U) \/ (Hi(T) = Lo(U) /\ Open(T))

------------------------------------------------------------------------------
(* The tables a compaction takes.                                          *)

\* GetOverlappingInputs at level 0, whose tables overlap each other: those that
\* overlap [a, b], those that overlap one of these, and so on.
OverlappingAt0(S, a, b) ==
  LET closed(C) == \A T \in S :
        Overlaps(T, a, b) \/ (\E U \in C : Overlaps(T, Lo(U), Hi(U))) => T \in C
  IN  {T \in S : \A C \in SUBSET S : closed(C) => T \in C}

\* The tables of the level S that overlap [a, b].
Overlapping(S, level, a, b) ==
  IF level = 0 THEN OverlappingAt0(S, a, b)
               ELSE {T \in S : Overlaps(T, a, b)}

\* AddBoundaryInputs: the table that begins at the user key where the inputs C
\* end, the one that begins where that one ends, and so on.
AddBoundary(S, C) ==
  LET closed(D) == \A T \in S :
        Lo(T) = HullHi(C) \/ (\E U \in D : Lo(T) = Hi(U)) => T \in D
  IN  C \cup {T \in S : \A D \in SUBSET S : closed(D) => T \in D}

\* SetupOtherInputs: the inputs of both levels, given the tables picked at
\* `level` (S) and those of the next (below).  More tables of `level` may be
\* taken along, sizes permitting, when that adds none of the next level.
Inputs(S, level, below, picked) ==
  LET in0 == AddBoundary(S, picked)
      in1 == Overlapping(below, level + 1, HullLo(in0), HullHi(in0))
      all == in0 \cup in1
      more0 == AddBoundary(S, Overlapping(S, level, HullLo(all), HullHi(all)))
      more1 == Overlapping(below, level + 1, HullLo(more0), HullHi(more0))
      grows == /\ in1 # {}
               /\ Cardinality(more0) > Cardinality(in0)
               /\ Cardinality(more1) = Cardinality(in1)
  IN  {<<in0, in1>>} \cup (IF grows THEN {<<more0, more1>>} ELSE {})

------------------------------------------------------------------------------
(* What a compaction makes of the inputs' entries E and tombstones T, with *)
(* the live snapshots snaps and the tables `deeper` than its outputs.      *)

\* IsBaseLevelForKey and IsBaseLevelForRange.
BaseForKey(deeper, k) == \A D \in deeper : ~Overlaps(D, k, k)
BaseForRange(deeper, t) == \A D \in deeper : ~Overlaps(D, t.begin, t.end)

\* The upper bounds of the stripes: a live snapshot each, and the newest.
Stripes(snaps) == snaps \cup {KMax}
OldestStripe(snaps) == Min(Stripes(snaps))

\* Bug: snapshots do not separate stripes.
StripeNewest(seq, snaps) == KMax

\* The stripe of a sequence number: the oldest snapshot at or above it.
StripeOf(seq, snaps) == Min({b \in Stripes(snaps) : seq <= b})

\* Bug: every tombstone is kept.
KeptAll(T, snaps, deeper) == T

\* The tombstones that go to the outputs.
KeptTombs(T, snaps, deeper) ==
  {t \in T : ~(t.seq <= OldestStripe(snaps) /\ BaseForRange(deeper, t))}

\* e is hidden by a tombstone that every reader of its stripe sees.
HiddenInStripe(e, T, bound) ==
  \E t \in T : Covers(t, e.key) /\ e.seq < t.seq /\ t.seq <= bound

\* What the entries G of one key in the stripe `bound` become; `older` says
\* that the key has entries in older stripes, `base` that no deeper level can
\* have the key, `folds` that PartialMerge succeeds.
CompactStripe(G, T, bound, oldest, older, base, folds) ==
  LET gone    == {e \in G : e.type = "deletion" \/ HiddenInStripe(e, T, bound)}
      settles == gone \cup {e \in G : e.type = "value"}
      settle  == Newest(settles)
      ops     == {e \in G : \A s \in settles : s.seq < e.seq}
      kept    == IF settle \in gone
                 THEN {[settle EXCEPT !.type = "deletion", !.val = <<>>]}
                 ELSE {settle}
  IN  CASE settles # {} /\ ops = {} ->
             IF settle \in gone /\ bound = oldest /\ base THEN {} ELSE kept
        [] settles # {} /\ ops # {} ->
             {[Newest(G) EXCEPT !.type = "value", !.val = Folded(ops \cup kept)]}
        [] settles = {} /\ ~older /\ base ->
             {[Newest(G) EXCEPT !.type = "value", !.val = Folded(ops)]}
        [] settles = {} /\ (older \/ ~base) ->
             IF folds /\ Cardinality(ops) > 1
             THEN {[Newest(G) EXCEPT !.val = Folded(ops)]}
             ELSE ops

\* compact_group: a key's entries, stripe by stripe.
CompactKey(G, T, snaps, base, folds) ==
  UNION {LET mine == {e \in G : StripeOf(e.seq, snaps) = b}
             older == \E e \in G : StripeOf(e.seq, snaps) < b
         IN  IF mine = {} THEN {}
             ELSE CompactStripe(mine, T, b, OldestStripe(snaps), older, base,
                                folds)
         : b \in Stripes(snaps)}

CompactEntries(E, T, snaps, deeper, folds) ==
  UNION {CompactKey({e \in E : e.key = k}, T, snaps, BaseForKey(deeper, k), folds)
         : k \in {e.key : e \in E}}

\* The parts of the tombstones that lie in [a, b).
Clipped(T, a, b) ==
  {[begin |-> Max({t.begin, a}), end |-> Min({t.end, b}), seq |-> t.seq]
     : t \in {x \in T : Max({x.begin, a}) < Min({x.end, b})}}

\* One output: what lies in [a, b).
Part(E, T, a, b) == [entries |-> {e \in E : a <= e.key /\ e.key < b},
                     tombs   |-> Clipped(T, a, b)]

\* The end of the part that starts at a.
PartEnd(a, cuts) == Min({c \in cuts : a < c} \cup {KeyEnd})

\* An output is cut short at a key of the inputs, once it holds an entry.
CutsFor(keys, E) ==
  {cuts \in SUBSET keys :
     \A a \in cuts \cup {0} :
        PartEnd(a, cuts) # KeyEnd =>
          \E e \in E : a <= e.key /\ e.key < PartEnd(a, cuts)}

\* Bug: a last output is opened even if nothing is left for it.
OutputsEvenEmpty(E, T, cuts) ==
  {Part(E, T, a, PartEnd(a, cuts)) : a \in cuts \cup {0}}

Outputs(E, T, cuts) ==
  {Part(E, T, a, PartEnd(a, cuts)) : a \in cuts \cup {0}} \ {Empty}
==============================================================================
