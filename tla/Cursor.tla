--------------------------------- MODULE Cursor ---------------------------------
(***************************************************************************)
(* The iterator a user gets of one column family, and the indexes of range *)
(* tombstones it consults.                                                 *)
(*                                                                         *)
(* DBIter walks, entry by entry, a merge of the layers: the memtable, the  *)
(* one being flushed, the tables of level 0.  Below the memtable each      *)
(* layer is read through a RangeDelSkippingIterator, which jumps over what *)
(* a newer layer's tombstone hides.  The memtables keep a map of tombstone *)
(* fragments, which grows while iterators read it; the tables' tombstones  *)
(* are indexed once for each version, and the index is cached.             *)
(*                                                                         *)
(* An action is one step of the merge inside one call of the iterator, so  *)
(* writes come between any two steps.                                      *)
(***************************************************************************)
EXTENDS Tables

CONSTANTS
  Writes,     \* the writes a user may make, in turn
  LateWrites, \* bound: writes during the life of an iterator
  MaxTables   \* bound: tables of level 0

ASSUME CursorAssumption ==
  /\ NKeys \in Nat \ {0} /\ {MaxSeq, LateWrites, MaxTables} \subseteq Nat
  /\ Writes \in [Seqs -> SUBSET [type : EntryType \cup {"range"}, begin : Keys,
                                  end : 1 .. NKeys + 1]]

VARIABLES
  written,    \* every write so far: write number i has sequence number i
  mem, imm,   \* the two memtables
  hasImm,     \* imm != nullptr
  tables,     \* the tables of level 0, newest first
  memFrags, immFrags,  \* range_del_map_ of the memtables
  rdCache,    \* rd_cache: the version it was made for, and its index
  view,       \* range_dels_ of the iterator
  snap,       \* its sequence_
  it,         \* DBIter: its fields, and the loop it is in
  shown,      \* what key() and value() gave after the last call, and the call
  contents    \* history: what the iterator's snapshot held when it was made

famVars == <<written, mem, imm, hasImm, tables, memFrags, immFrags, rdCache>>
vars == <<famVars, view, snap, it, shown, contents>>

LastSeq == Len(written)

-----------------------------------------------------------------------------
\* Fragments: disjoint ranges of keys, each with the tombstones over it.

Fragment(a, b, seqs) == [begin |-> a, end |-> b, seqs |-> seqs]

\* A fragment that straddles k becomes two.
SplitAt(F, k) ==
  UNION {IF f.begin < k /\ k < f.end
         THEN {[f EXCEPT !.end = k], [f EXCEPT !.begin = k]}
         ELSE {f} : f \in F}

\* Mutant: the fragment that straddles the end is taken whole.
MapAddWhole(F, t) ==
  LET split  == SplitAt(F, t.begin)
      inside == {f \in split : t.begin <= f.begin /\ f.begin < t.end}
      gapsAt == ({t.begin} \cup {f.end : f \in inside}) \ {f.begin : f \in inside}
      stop(a) == Min({t.end} \cup {f.begin : f \in {g \in inside : g.begin > a}})
  IN  (split \ inside)
        \cup {[f EXCEPT !.seqs = @ \cup {t.seq}] : f \in inside}
        \cup {Fragment(a, stop(a), {t.seq}) : a \in {g \in gapsAt : g < t.end}}

\* RangeDelMap::Add: the fragments at both ends are split, those inside take
\* the tombstone on, and the gaps between them become fragments.
MapAdd(F, t) ==
  LET split  == SplitAt(SplitAt(F, t.begin), t.end)
      inside == {f \in split : t.begin <= f.begin /\ f.end <= t.end}
      gapsAt == ({t.begin} \cup {f.end : f \in inside}) \ {f.begin : f \in inside}
      stop(a) == Min({t.end} \cup {f.begin : f \in {g \in inside : g.begin > a}})
  IN  (split \ inside)
        \cup {[f EXCEPT !.seqs = @ \cup {t.seq}] : f \in inside}
        \cup {Fragment(a, stop(a), {t.seq}) : a \in {g \in gapsAt : g < t.end}}

\* RangeDelIndex::Finish: the sweep over all begins and ends.
Index(T) ==
  LET cuts == {t.begin : t \in T} \cup {t.end : t \in T}
      next(a) == Min({c \in cuts : c > a})
      over(a) == {t \in T : t.begin <= a /\ a < t.end}
  IN  {Fragment(a, next(a), {[seq |-> t.seq, layer |-> t.layer] : t \in over(a)}) :
         a \in {c \in cuts : over(c) # {}}}

\* Find: the fragment at k, if there is one.
Find(F, k) == {f \in F : f.begin <= k /\ k < f.end}

\* Layers: the memtable is 0, imm is 1, the tables follow, newest first.
AllLayers == MaxTables + 2
TableTombs == UNION {{[begin |-> t.begin, end |-> t.end, seq |-> t.seq, layer |-> i + 1] :
                        t \in tables[i].tombs} : i \in DOMAIN tables}

\* The fragments a view looks at for layers newer than `below`, newest first,
\* with the sequence numbers of each that count.
Consulted(k, below) ==
  LET upTo(f) == {s \in f.seqs : s <= snap}
  IN  IF ~view.isNull
      THEN <<IF below > 0 THEN {[f EXCEPT !.seqs = upTo(f)] : f \in Find(memFrags, k)} ELSE {},
             IF below > 1 THEN {[f EXCEPT !.seqs = upTo(f)] : f \in Find(immFrags, k)} ELSE {},
             {[f EXCEPT !.seqs = {p.seq : p \in {q \in f.seqs : q.seq <= snap /\ q.layer < below}}] :
                f \in Find(view.index, k)}>>
      ELSE <<>>

\* RangeDelView::MaxCovering.
MaxCovering(k, below) ==
  Max({0} \cup UNION {UNION {f.seqs : f \in S} : S \in ToSet(Consulted(k, below))})

\* RangeDelView::CoveredRange: of the first that has a tombstone, or none.
CoveredRange(k, below) ==
  LET looked == Consulted(k, below)
      hits   == {i \in DOMAIN looked : \E f \in looked[i] : f.seqs # {}}
      first  == {i \in hits : \A j \in hits : i <= j}
  IN  UNION {{[begin |-> f.begin, end |-> f.end] : f \in looked[i]} : i \in first}

-----------------------------------------------------------------------------
\* A layer's iterator.  A position is the set of the entry it is at, empty
\* when the iterator is not valid.

\* Internal keys: by user key, then newest first.
Before(a, b) == a.key < b.key \/ (a.key = b.key /\ a.seq > b.seq)
FirstOf(S) == {e \in S : \A x \in S \ {e} : Before(e, x)}
LastOf(S)  == {e \in S : \A x \in S \ {e} : Before(x, e)}

\* The first entry at or after the internal key; those on either side of p.
AtOrAfter(S, key, seq) == FirstOf({e \in S : ~Before(e, [key |-> key, seq |-> seq])})
Following(S, p) == FirstOf({e \in S : \E x \in p : Before(x, e)})
Preceding(S, p) == LastOf({e \in S : \E x \in p : Before(e, x)})

Layers == 0 .. Len(tables) + 1
Entries(i) == CASE i = 0 -> mem.entries [] i = 1 -> imm.entries
                [] OTHER -> tables[i - 1].entries

\* The range to jump over at p, in a layer below the memtable.
Hidden(i, p) == IF i = 0 THEN {} ELSE UNION {CoveredRange(e.key, i) : e \in p}

\* SkipForward: seek to the end of the range, until nothing hides the entry.
SkipForward(i, p0) ==
  LET S == Entries(i)
      Skip[p \in {{}} \cup {{e} : e \in S}] ==
        IF Hidden(i, p) = {} THEN p
        ELSE Skip[UNION {AtOrAfter(S, r.end, KMax) : r \in Hidden(i, p)}]
  IN  Skip[p0]

\* SkipBackward: to the entry before the begin of the range.
SkipBackward(i, p0) ==
  LET S == Entries(i)
      back(r) == LET p == AtOrAfter(S, r.begin, KMax)
                 IN  IF p # {} THEN Preceding(S, p) ELSE LastOf(S)
      Skip[p \in {{}} \cup {{e} : e \in S}] ==
        IF Hidden(i, p) = {} THEN p ELSE Skip[UNION {back(r) : r \in Hidden(i, p)}]
  IN  Skip[p0]

ChildSeek(i, key, seq) == SkipForward(i, AtOrAfter(Entries(i), key, seq))
ChildFirst(i)   == SkipForward(i, FirstOf(Entries(i)))
ChildLast(i)    == SkipBackward(i, LastOf(Entries(i)))
ChildNext(i, p) == SkipForward(i, Following(Entries(i), p))
ChildPrev(i, p) == SkipBackward(i, Preceding(Entries(i), p))

-----------------------------------------------------------------------------
\* The merge of the layers: the position of each, the one it is at (`cur` is
\* empty when it is not valid), and its direction.

Merged(at, best, dir) ==
  [at |-> at, dir |-> dir,
   cur |-> {i \in DOMAIN at : at[i] # {} /\ at[i] = best}]
Ascending(at) == Merged(at, FirstOf(UNION {at[i] : i \in DOMAIN at}), "forward")
Descending(at) == Merged(at, LastOf(UNION {at[i] : i \in DOMAIN at}), "reverse")

AtEntry(m) == UNION {m.at[i] : i \in m.cur}
EntryOf(m) == CHOOSE e \in AtEntry(m) : TRUE

MergeFirst == Ascending([i \in Layers |-> ChildFirst(i)])
MergeLast  == Descending([i \in Layers |-> ChildLast(i)])
MergeSeek(key, seq) == Ascending([i \in Layers |-> ChildSeek(i, key, seq)])

\* Next and Prev: on a change of direction the other layers are sought again.
MergeNext(m) ==
  Ascending([i \in Layers |->
    IF i \in m.cur THEN ChildNext(i, m.at[i])
    ELSE IF m.dir = "forward" THEN m.at[i]
    ELSE ChildSeek(i, EntryOf(m).key, EntryOf(m).seq)])

MergePrev(m) ==
  Descending([i \in Layers |->
    IF i \in m.cur THEN ChildPrev(i, m.at[i])
    ELSE IF m.dir = "reverse" THEN m.at[i]
    ELSE LET p == ChildSeek(i, EntryOf(m).key, EntryOf(m).seq)
         IN  IF p # {} THEN ChildPrev(i, p) ELSE ChildLast(i)])

-----------------------------------------------------------------------------
\* DBIter.

NoLoop == [skipping |-> FALSE, skip |-> 0, ops |-> <<>>, base |-> <<>>,
           settled |-> FALSE, type |-> "deletion"]

Closed == [pc |-> "closed", by |-> <<"none">>, m |-> Ascending([i \in {} |-> {}]),
           dir |-> "forward", valid |-> FALSE, merged |-> FALSE,
           saved |-> 0, val |-> <<>>, loop |-> NoLoop, born |-> 0]

NoView == [isNull |-> TRUE, index |-> {}]
Nowhere == [at |-> 0, val |-> <<>>, by |-> <<"none">>]

Init ==
  /\ written = <<>>
  /\ mem = Empty /\ imm = Empty /\ hasImm = FALSE /\ tables = <<>>
  /\ memFrags = {} /\ immFrags = {}
  /\ rdCache = [version |-> 0, index |-> {}]
  /\ view = NoView /\ snap = 0
  /\ it = Closed /\ shown = Nowhere /\ contents = [k \in Keys |-> <<>>]

\* A call goes on with another step of its loop.
Continue(next) == it' = next /\ UNCHANGED shown

\* key() and value(): of the entry, unless they have been saved (merged_key_,
\* which is not needed at the same time, is `saved` as well).
AtEntryItself(i) == i.dir = "forward" /\ ~i.merged
KeyOf(i)   == IF AtEntryItself(i) THEN EntryOf(i.m).key ELSE i.saved
ValueOf(i) == IF AtEntryItself(i) THEN EntryOf(i.m).val ELSE i.val

Return(next) ==
  /\ it' = [next EXCEPT !.pc = "rest", !.loop = NoLoop]
  /\ shown' = IF next.valid THEN [at |-> KeyOf(next), val |-> ValueOf(next), by |-> next.by]
              ELSE [Nowhere EXCEPT !.by = next.by]

Invalid(next) == Return([next EXCEPT !.valid = FALSE, !.saved = 0, !.val = <<>>])

\* EffectiveType: what a range tombstone covers is a deletion.
EffectiveType(e) ==
  IF e.type # "deletion" /\ MaxCovering(e.key, AllLayers) > e.seq THEN "deletion" ELSE e.type

\* FindNextUserEntry begins, when there is an entry to look at.
FindNext(next, skipping, skip) ==
  IF next.m.cur = {} THEN Invalid(next)
  ELSE Continue([next EXCEPT !.pc = "findNext",
                             !.loop = [NoLoop EXCEPT !.skipping = skipping, !.skip = skip]])

\* FindPrevUserEntry begins; and ends, with what the entries of the key come to.
FindPrev(next) ==
  [next EXCEPT !.pc = "findPrev", !.dir = "reverse", !.merged = FALSE, !.loop = NoLoop]
FoundPrev(next) ==
  IF next.loop.type = "deletion" THEN Invalid([next EXCEPT !.dir = "forward"])
  ELSE Return([next EXCEPT !.valid = TRUE, !.val = next.loop.base \o next.loop.ops])

Starts(by) == [it EXCEPT !.by = by, !.merged = FALSE, !.saved = 0, !.val = <<>>,
                         !.dir = "forward"]

Resting == it.pc = "rest" /\ UNCHANGED <<famVars, view, snap, contents>>

Seek(k) ==
  /\ Resting
  /\ FindNext([Starts(<<"seek", k>>) EXCEPT !.m = MergeSeek(k, snap)], FALSE, 0)

SeekToFirst ==
  /\ Resting
  /\ FindNext([Starts(<<"first">>) EXCEPT !.m = MergeFirst], FALSE, 0)

SeekToLast ==
  /\ Resting
  /\ Continue(FindPrev([Starts(<<"last">>) EXCEPT !.m = MergeLast]))

\* Next: past the current key, which is saved to be skipped.
NextEntry ==
  /\ Resting /\ it.valid
  /\ LET key == KeyOf(it)
         on == IF it.dir = "reverse" /\ it.m.cur = {} THEN MergeFirst
               ELSE IF it.dir = "forward" /\ it.merged THEN it.m
               ELSE MergeNext(it.m)
     IN  FindNext([it EXCEPT !.by = <<"next">>, !.dir = "forward", !.merged = FALSE,
                             !.saved = key, !.m = on], TRUE, key)

\* Mutant: after a merge at the end, the merge of the layers is not valid.
PrevAtEnd ==
  /\ Resting /\ it.valid
  /\ LET next == [it EXCEPT !.by = <<"prev">>]
     IN  IF it.dir = "reverse" THEN Continue(FindPrev(next))
         ELSE Continue([next EXCEPT !.pc = "turn", !.merged = FALSE, !.saved = KeyOf(it)])

\* Prev: on a change of direction, first back to before the current key.
Prev ==
  /\ Resting /\ it.valid
  /\ LET next == [it EXCEPT !.by = <<"prev">>]
     IN  IF it.dir = "reverse" THEN Continue(FindPrev(next))
         ELSE Continue([next EXCEPT !.pc = "turn", !.merged = FALSE, !.saved = KeyOf(it),
                          !.m = IF it.merged /\ @.cur = {} THEN MergeLast ELSE @])

-----------------------------------------------------------------------------
\* The loops inside a call, one step of the merge at a time.

In(pc) == it.pc = pc /\ UNCHANGED <<famVars, view, snap, contents>>
Valid == it.m.cur # {}
This  == EntryOf(it.m)
Visible == This.seq <= snap

\* FindNextUserEntry: the newest visible entry of the next key that is there.
FindNextStep ==
  /\ In("findNext")
  /\ LET type   == EffectiveType(This)
         hidden == it.loop.skipping /\ This.key <= it.loop.skip
         loop   == IF Visible /\ type = "deletion"
                   THEN [it.loop EXCEPT !.skipping = TRUE, !.skip = This.key] ELSE it.loop
         on     == [it EXCEPT !.m = MergeNext(it.m), !.loop = loop]
     IN  CASE Visible /\ ~hidden /\ type = "value" ->
                Return([it EXCEPT !.valid = TRUE, !.saved = 0])
           [] Visible /\ ~hidden /\ type = "merge" ->
                Continue([it EXCEPT !.pc = "fold", !.saved = This.key, !.m = MergeNext(it.m),
                                    !.loop = [NoLoop EXCEPT !.ops = This.val]])
           [] OTHER -> IF on.m.cur = {} THEN Invalid(on) ELSE Continue(on)

\* MergeForward: the operands, down to what settles them, and past the key.
FoldStep ==
  /\ In("fold")
  /\ LET type == EffectiveType(This)
         loop == IF it.loop.settled THEN it.loop
                 ELSE CASE type = "merge" -> [it.loop EXCEPT !.ops = This.val \o @]
                        [] type = "value" -> [it.loop EXCEPT !.base = This.val, !.settled = TRUE]
                        [] type = "deletion" -> [it.loop EXCEPT !.settled = TRUE]
     IN  IF ~Valid \/ This.key # it.saved
         THEN Return([it EXCEPT !.valid = TRUE, !.merged = TRUE,
                                !.val = it.loop.base \o it.loop.ops])
         ELSE Continue([it EXCEPT !.m = MergeNext(it.m), !.loop = loop])

\* Prev turns round.
TurnStep ==
  /\ In("turn")
  /\ CASE Valid /\ This.key >= it.saved -> Continue([it EXCEPT !.m = MergePrev(it.m)])
       [] Valid /\ This.key < it.saved  -> Continue(FindPrev(it))
       [] ~Valid                        -> Invalid(it)

\* FindPrevUserEntry: the entries of a key come oldest first, and each may
\* overrule those before; at an older key the answer is known.
FindPrevStep ==
  /\ In("findPrev")
  /\ LET type == EffectiveType(This)
         next == CASE type = "deletion" -> [it EXCEPT !.saved = 0, !.loop = NoLoop]
                   [] type = "value" ->
                        [it EXCEPT !.saved = This.key,
                                   !.loop = [NoLoop EXCEPT !.type = "value", !.base = This.val]]
                   [] type = "merge" ->
                        [it EXCEPT !.saved = IF it.loop.type = "deletion" THEN This.key ELSE @,
                                   !.loop.type = "merge", !.loop.ops = @ \o This.val]
     IN  IF ~Valid THEN FoundPrev(it)
         ELSE IF ~Visible THEN Continue([it EXCEPT !.m = MergePrev(it.m)])
         ELSE IF it.loop.type # "deletion" /\ This.key < it.saved THEN FoundPrev(it)
         ELSE Continue([next EXCEPT !.m = MergePrev(it.m)])

-----------------------------------------------------------------------------
\* The family, and the life of an iterator.

\* MemTable::Add: a range tombstone goes to the fragments, one with an empty
\* range nowhere.
Add ==
  /\ LastSeq < MaxSeq
  /\ it.pc = "closed" \/ LastSeq < LateWrites + it.born
  /\ \E w \in Writes[LastSeq + 1] :
       LET s == LastSeq + 1
           t == [begin |-> w.begin, end |-> w.end, seq |-> s]
       IN  /\ written' = Append(written, w)
           /\ IF w.type # "range"
              THEN /\ mem' = [mem EXCEPT !.entries = @ \cup
                               {[key |-> w.begin, seq |-> s, type |-> w.type,
                                 val |-> IF w.type = "deletion" THEN <<>> ELSE <<s>>]}]
                   /\ UNCHANGED memFrags
              ELSE IF w.begin < w.end
              THEN /\ mem' = [mem EXCEPT !.tombs = @ \cup {t}]
                   /\ memFrags' = MapAdd(memFrags, t)
              ELSE UNCHANGED <<mem, memFrags>>
  /\ UNCHANGED <<imm, hasImm, tables, immFrags, rdCache, view, snap, it, shown, contents>>

\* A switch and a flush while an iterator is open do not reach it: it keeps
\* its memtables and its version.
Switch ==
  /\ it.pc = "closed" /\ ~hasImm /\ mem # Empty
  /\ imm' = mem /\ immFrags' = memFrags /\ hasImm' = TRUE
  /\ mem' = Empty /\ memFrags' = {}
  /\ UNCHANGED <<written, tables, rdCache, view, snap, it, shown, contents>>

Flush ==
  /\ it.pc = "closed" /\ hasImm /\ Len(tables) < MaxTables
  /\ tables' = <<imm>> \o tables
  /\ imm' = Empty /\ immFrags' = {} /\ hasImm' = FALSE
  /\ UNCHANGED <<written, mem, memFrags, rdCache, view, snap, it, shown, contents>>

\* The cached index, made again when the version is another.
CurrentIndex ==
  IF rdCache.version = Len(tables) + 1 THEN rdCache
  ELSE [version |-> Len(tables) + 1, index |-> Index(TableTombs)]

\* The visible history of a key by the rule of spec.md: the newest put and the
\* operands since, unless a deletion or a covering range delete came later.
Reference(k, at) ==
  LET hits(i)  == IF written[i].type = "range"
                  THEN written[i].begin <= k /\ k < written[i].end ELSE written[i].begin = k
      mine     == {i \in 1 .. at : hits(i)}
      since    == Max({0} \cup {i \in mine : written[i].type # "merge"})
      kept     == {i \in mine : i > since}
                    \cup {i \in mine : i = since /\ written[i].type = "value"}
  IN  SetToSortSeq(kept, <)

\* NewIterator, at a snapshot or at the latest sequence number: RangeDelsLocked
\* and NewInternalIterator in one critical section.
NewIterator ==
  /\ it.pc = "closed"
  /\ snap' \in 0 .. LastSeq
  /\ rdCache' = CurrentIndex
  /\ view' = IF mem.tombs = {} /\ imm.tombs = {} /\ CurrentIndex.index = {} THEN NoView
             ELSE [isNull |-> FALSE, index |-> CurrentIndex.index]
  /\ it' = [Closed EXCEPT !.pc = "rest", !.born = LastSeq]
  /\ contents' = [k \in Keys |-> Reference(k, snap')]
  /\ UNCHANGED <<written, mem, imm, hasImm, tables, memFrags, immFrags, shown>>

DeleteIterator ==
  /\ it.pc = "rest"
  /\ it' = Closed /\ shown' = Nowhere /\ view' = NoView /\ snap' = 0
  /\ contents' = [k \in Keys |-> <<>>]
  /\ UNCHANGED famVars

Next ==
  \/ Add \/ Switch \/ Flush \/ NewIterator \/ DeleteIterator
  \/ \E k \in 1 .. NKeys + 1 : Seek(k)
  \/ SeekToFirst \/ SeekToLast \/ NextEntry \/ Prev
  \/ FindNextStep \/ FoldStep \/ TurnStep \/ FindPrevStep

Spec == Init /\ [][Next]_vars

-----------------------------------------------------------------------------
\* Properties.

(* The iterator walks the snapshot (SnapshotWalk): each call returns the   *)
(* key and the value that the visible history gives, in both directions and*)
(* after every turn, with writes between any two of its steps (DBIter      *)
(* 3128-3489, RangeDelSkippingIterator 4134-4210).                         *)
Walk == INSTANCE SnapshotWalk WITH
  WalkKeys <- Keys,
  isOpen   <- it.pc # "closed"

ImplementsWalk == Walk!Spec

\* Coverage by definition, in the layers newer than `below`.
Tombs(below) ==
  {t \in (IF below > 0 THEN mem.tombs ELSE {}) \cup (IF below > 1 THEN imm.tombs ELSE {})
           \cup UNION {tables[i].tombs : i \in {j \in DOMAIN tables : j + 1 < below}} :
     t.seq <= snap}

(* What the fragments say of a key is what the tombstones of the newer     *)
(* layers say, and a range that is jumped over is covered from end to end, *)
(* in the memtables' maps, which grow meanwhile, and in the index, which is*)
(* made for one version (RangeDelMap::Add, RangeDelIndex::Finish).         *)
ViewExact ==
  it.pc = "rest" => \A k \in Keys, below \in 0 .. AllLayers :
    LET over(x) == {t.seq : t \in {u \in Tombs(below) : Covers(u, x)}}
    IN  /\ MaxCovering(k, below) = Max({0} \cup over(k))
        /\ CoveredRange(k, below) = {} <=> over(k) = {}
        /\ \A r \in CoveredRange(k, below) :
              r.begin <= k /\ k < r.end /\ \A x \in r.begin .. r.end - 1 : over(x) # {}
==================================================================================
