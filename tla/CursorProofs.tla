------------------------------ MODULE CursorProofs ------------------------------
(***************************************************************************)
(* Theorems of Cursor: what an iterator's view says of a key is what the   *)
(* tombstones say, for any keys, writes and numbers of tables.             *)
(***************************************************************************)
EXTENDS Cursor, WellOrder

------------------------------------------------------------------------------
(* Fragments.                                                              *)

\* Fragments over which the marks M lie: not empty, and disjoint.
FragmentOf(M) == {f \in [begin : Nat, end : Nat, seqs : SUBSET M] : f.begin < f.end}
Apart(f, g)   == f.end <= g.begin \/ g.end <= f.begin
Fragments(M)  == {F \in SUBSET FragmentOf(M) : \A f, g \in F : f = g \/ Apart(f, g)}

\* What the fragments say of x.
At(F, x) == UNION {f.seqs : f \in Find(F, x)}

\* The one fragment at x says it all.
LEMMA FindOne ==
  ASSUME NEW M, NEW F \in Fragments(M), NEW x \in Nat, NEW f \in Find(F, x)
  PROVE  Find(F, x) = {f} /\ At(F, x) = f.seqs
<1>1. f \in F /\ f.begin <= x /\ x < f.end
  BY DEF Find
<1>2. ASSUME NEW g \in Find(F, x) PROVE g = f
  <2>1. g \in F /\ g.begin <= x /\ x < g.end
    BY DEF Find
  <2>2. f \in FragmentOf(M) /\ g \in FragmentOf(M) /\ (f = g \/ Apart(f, g))
    BY <1>1, <2>1 DEF Fragments
  <2> QED
    BY <1>1, <2>1, <2>2 DEF FragmentOf, Apart
<1>3. Find(F, x) = {f}
  BY <1>2
<1> QED
  BY <1>3 DEF At

\* Splitting at k leaves fragments that say the same, none of them across k.
LEMMA SplitExact ==
  ASSUME NEW M, NEW F \in Fragments(M), NEW k \in Nat
  PROVE  /\ SplitAt(F, k) \in Fragments(M)
         /\ \A x \in Nat : At(SplitAt(F, k), x) = At(F, x)
         /\ \A g \in SplitAt(F, k) : /\ g.end <= k \/ k <= g.begin
                                     /\ \E f \in F : f.begin <= g.begin /\ g.end <= f.end
<1> DEFINE G == SplitAt(F, k)
<1>1. ASSUME NEW f \in F
      PROVE  /\ f \in [begin : Nat, end : Nat, seqs : SUBSET M] /\ f.begin < f.end
             /\ f = [begin |-> f.begin, end |-> f.end, seqs |-> f.seqs]
  BY DEF Fragments, FragmentOf
<1> DEFINE Left(f)  == [f EXCEPT !.end = k]
           Right(f) == [f EXCEPT !.begin = k]
           Across(f) == f.begin < k /\ k < f.end
<1>2. \A g : g \in G <=> \E f \in F : IF Across(f) THEN g = Left(f) \/ g = Right(f) ELSE g = f
  BY DEF SplitAt
<1>3. ASSUME NEW f \in F
      PROVE  /\ Left(f).begin = f.begin /\ Left(f).end = k /\ Left(f).seqs = f.seqs
             /\ Right(f).begin = k /\ Right(f).end = f.end /\ Right(f).seqs = f.seqs
             /\ Across(f) => Left(f) \in FragmentOf(M) /\ Right(f) \in FragmentOf(M)
  BY <1>1 DEF FragmentOf
<1> HIDE DEF Left, Right, G
<1>4. ASSUME NEW g \in G
      PROVE  \E f \in F : /\ f.begin <= g.begin /\ g.end <= f.end /\ g.seqs = f.seqs
                          /\ g.end <= k \/ k <= g.begin
                          /\ g \in FragmentOf(M)
                          /\ g = f \/ (Across(f) /\ (g = Left(f) \/ g = Right(f)))
  <2>1. PICK f \in F : IF Across(f) THEN g = Left(f) \/ g = Right(f) ELSE g = f
    BY <1>2, <1>4
  <2>2. f \in FragmentOf(M)
    BY DEF Fragments
  <2> QED
    BY <1>1, <1>3, <2>1, <2>2
<1>5. ASSUME NEW g \in G, NEW h \in G PROVE g = h \/ Apart(g, h)
  <2>1. PICK f \in F : /\ f.begin <= g.begin /\ g.end <= f.end
                       /\ g = f \/ (Across(f) /\ (g = Left(f) \/ g = Right(f)))
                       /\ g \in FragmentOf(M)
    BY <1>4
  <2>2. PICK e \in F : /\ e.begin <= h.begin /\ h.end <= e.end
                       /\ h = e \/ (Across(e) /\ (h = Left(e) \/ h = Right(e)))
                       /\ h \in FragmentOf(M)
    BY <1>4
  <2>3. CASE f = e
    <3>1. IF Across(f) THEN (g = Left(f) \/ g = Right(f)) /\ (h = Left(f) \/ h = Right(f))
          ELSE g = f /\ h = f
      BY <1>2, <1>3, <1>4, <2>1, <2>2, <2>3
    <3> QED
      BY <1>1, <1>3, <3>1 DEF Apart
  <2>4. CASE f # e
    <3>1. Apart(f, e)
      BY <2>4 DEF Fragments
    <3> QED
      BY <1>1, <2>1, <2>2, <3>1 DEF Apart, FragmentOf
  <2> QED
    BY <2>3, <2>4
<1>6. G \in Fragments(M)
  BY <1>4, <1>5 DEF Fragments
<1>7. ASSUME NEW x \in Nat PROVE At(G, x) = At(F, x)
  <2>1. ASSUME NEW g \in Find(G, x) PROVE \E f \in Find(F, x) : f.seqs = g.seqs
    <3>1. g \in G /\ g.begin <= x /\ x < g.end
      BY DEF Find
    <3>2. PICK f \in F : f.begin <= g.begin /\ g.end <= f.end /\ g.seqs = f.seqs
                         /\ g \in FragmentOf(M)
      BY <1>4, <3>1
    <3> QED
      BY <1>1, <3>1, <3>2 DEF Find, FragmentOf
  <2>2. ASSUME NEW f \in Find(F, x) PROVE \E g \in Find(G, x) : f.seqs = g.seqs
    <3>1. f \in F /\ f.begin <= x /\ x < f.end
      BY DEF Find
    <3>2. CASE ~Across(f)
      BY <1>2, <3>1, <3>2 DEF Find
    <3>3. CASE Across(f)
      <4>1. Left(f) \in G /\ Right(f) \in G
        BY <1>2, <3>1, <3>3
      <4> QED
        BY <1>1, <1>3, <3>1, <3>3, <4>1 DEF Find
    <3> QED
      BY <3>2, <3>3
  <2> QED
    BY <2>1, <2>2 DEF At
<1> QED
  BY <1>4, <1>6, <1>7 DEF G

\* RangeDelMap::Add: the fragments stay disjoint, the new tombstone is added to
\* what they say of the keys it covers, and to nothing else.
LEMMA MapAddExact ==
  ASSUME NEW F \in Fragments(Nat),
         NEW t \in [begin : Nat, end : Nat, seq : Nat], t.begin < t.end
  PROVE  /\ MapAdd(F, t) \in Fragments(Nat)
         /\ \A x \in Nat : At(MapAdd(F, t), x) = IF Covers(t, x) THEN At(F, x) \cup {t.seq}
                                                                ELSE At(F, x)
<1> DEFINE split  == SplitAt(SplitAt(F, t.begin), t.end)
           inside == {f \in split : t.begin <= f.begin /\ f.end <= t.end}
           gapsAt == ({t.begin} \cup {f.end : f \in inside}) \ {f.begin : f \in inside}
           stops(a) == {t.end} \cup {f.begin : f \in {g \in inside : g.begin > a}}
           Marked(f) == [f EXCEPT !.seqs = @ \cup {t.seq}]
           Gap(a) == Fragment(a, Min(stops(a)), {t.seq})
           gaps == {a \in gapsAt : a < t.end}
           G == MapAdd(F, t)
<1>1. G = (split \ inside) \cup {Marked(f) : f \in inside} \cup {Gap(a) : a \in gaps}
  BY DEF MapAdd
<1>2. /\ split \in Fragments(Nat)
      /\ \A x \in Nat : At(split, x) = At(F, x)
      /\ \A f \in split : /\ f.end <= t.begin \/ t.begin <= f.begin
                          /\ f.end <= t.end \/ t.end <= f.begin
  <2>1. /\ SplitAt(F, t.begin) \in Fragments(Nat)
        /\ \A x \in Nat : At(SplitAt(F, t.begin), x) = At(F, x)
        /\ \A f \in SplitAt(F, t.begin) : f.end <= t.begin \/ t.begin <= f.begin
    BY SplitExact
  <2>2. /\ split \in Fragments(Nat)
        /\ \A x \in Nat : At(split, x) = At(SplitAt(F, t.begin), x)
        /\ \A f \in split : /\ f.end <= t.end \/ t.end <= f.begin
                            /\ \E g \in SplitAt(F, t.begin) : g.begin <= f.begin /\ f.end <= g.end
    BY <2>1, SplitExact
  <2>3. ASSUME NEW f \in split PROVE f.end <= t.begin \/ t.begin <= f.begin
    <3>1. PICK g \in SplitAt(F, t.begin) : g.begin <= f.begin /\ f.end <= g.end
      BY <2>2
    <3>2. f \in FragmentOf(Nat) /\ g \in FragmentOf(Nat)
      BY <2>1, <2>2 DEF Fragments
    <3> QED
      BY <2>1, <3>1, <3>2 DEF FragmentOf
  <2> QED
    BY <2>1, <2>2, <2>3
<1> HIDE DEF split, G
<1>3. /\ \A f \in split : f \in FragmentOf(Nat)
      /\ \A f, g \in split : f = g \/ Apart(f, g)
  BY <1>2 DEF Fragments
<1>4. \A f \in split : IF f \in inside THEN t.begin <= f.begin /\ f.end <= t.end
                                        ELSE f.end <= t.begin \/ t.end <= f.begin
  BY <1>2, <1>3 DEF FragmentOf
<1>5. \A a \in gapsAt : a \in Nat /\ t.begin <= a /\ \A f \in inside : a # f.begin
  BY <1>3 DEF FragmentOf
<1>6. ASSUME NEW a \in gaps
      PROVE  /\ Min(stops(a)) \in stops(a) /\ \A n \in stops(a) : Min(stops(a)) <= n
             /\ Min(stops(a)) \in Nat /\ a < Min(stops(a)) /\ Min(stops(a)) <= t.end
  <2>1. stops(a) \in SUBSET Nat /\ t.end \in stops(a)
    BY <1>3 DEF FragmentOf
  <2>2. PICK n \in stops(a) : \A m \in stops(a) : n <= m
    <3> HIDE DEF stops
    <3> QED
      BY <2>1, LeastElement
  <2>3. Min(stops(a)) \in stops(a) /\ \A m \in stops(a) : Min(stops(a)) <= m
    <3> HIDE DEF stops
    <3> QED
      BY <2>2 DEF Min
  <2>4. \A m \in stops(a) : m > a
    BY <1>3 DEF FragmentOf
  <2> QED
    BY <2>1, <2>3, <2>4
\* The gaps lie between the fragments inside.
<1>7. ASSUME NEW a \in gaps, NEW f \in inside
      PROVE  f.end <= a \/ Min(stops(a)) <= f.begin
  <2>1. CASE f.begin > a
    <3>1. f.begin \in stops(a)
      BY <2>1
    <3> QED
      BY <1>6, <3>1
  <2>2. CASE f.begin < a /\ a < f.end
    <3>1. a # t.begin
      BY <1>3, <1>4, <2>2 DEF FragmentOf
    <3>2. PICK g \in inside : g.end = a
      BY <3>1
    <3>3. Apart(f, g) /\ f \in FragmentOf(Nat) /\ g \in FragmentOf(Nat)
      BY <1>3, <2>2, <3>2
    <3> QED
      BY <2>2, <3>2, <3>3 DEF Apart, FragmentOf
  <2> QED
    BY <1>3, <1>5, <2>1, <2>2 DEF FragmentOf
\* Two gaps are apart.
<1>8. ASSUME NEW a \in gaps, NEW b \in gaps, a < b
      PROVE  Min(stops(a)) <= b
  <2>1. b # t.begin
    BY <1>5, <1>8
  <2>2. PICK g \in inside : g.end = b
    BY <2>1
  <2>3. g.begin \in Nat /\ g.begin < b /\ b \in Nat /\ a \in Nat /\ Min(stops(a)) \in Nat
    BY <1>3, <1>6, <2>2 DEF FragmentOf
  <2>4. b <= a \/ Min(stops(a)) <= g.begin
    BY <1>7, <2>2
  <2> HIDE DEF stops
  <2> QED
    BY <1>8, <2>3, <2>4
<1>9. ASSUME NEW a \in gaps
      PROVE  /\ Gap(a).begin = a /\ Gap(a).end = Min(stops(a)) /\ Gap(a).seqs = {t.seq}
             /\ Gap(a) \in FragmentOf(Nat)
  BY <1>5, <1>6 DEF Fragment, FragmentOf
<1>10. ASSUME NEW f \in inside
       PROVE  /\ Marked(f).begin = f.begin /\ Marked(f).end = f.end
              /\ Marked(f).seqs = f.seqs \cup {t.seq} /\ Marked(f) \in FragmentOf(Nat)
  BY <1>3 DEF FragmentOf
<1> HIDE DEF Marked, Gap, stops
\* The kinds of the fragments there are now.
<1> DEFINE Old(g)   == g \in split /\ g \notin inside
           New(g)   == \E f \in inside : g = Marked(f)
           Fresh(g) == \E a \in gaps : g = Gap(a)
<1>11. \A g \in G : Old(g) \/ New(g) \/ Fresh(g)
  BY <1>1
<1>12. \A g \in G : g \in FragmentOf(Nat)
  BY <1>3, <1>9, <1>10, <1>11
<1>13. ASSUME NEW g \in G, NEW h \in G PROVE g = h \/ Apart(g, h)
  <2>1. CASE Old(g) /\ Old(h)
    BY <1>3, <2>1
  <2>2. CASE New(g) /\ New(h)
    <3>1. PICK e \in inside, f \in inside : g = Marked(e) /\ h = Marked(f)
      BY <2>2
    <3>2. e = f \/ Apart(e, f)
      BY <1>3
    <3> QED
      BY <1>10, <3>1, <3>2 DEF Apart
  <2>3. CASE Fresh(g) /\ Fresh(h)
    <3>1. PICK a \in gaps, b \in gaps : g = Gap(a) /\ h = Gap(b)
      BY <2>3
    <3>2. a = b \/ a < b \/ b < a
      BY <1>5
    <3> QED
      BY <1>8, <1>9, <3>1, <3>2 DEF Apart
  <2>4. ASSUME NEW e \in {g, h}, NEW f \in {g, h}, Old(e), New(f) \/ Fresh(f)
        PROVE  Apart(e, f) /\ Apart(f, e)
    <3>1. e.end <= t.begin \/ t.end <= e.begin
      BY <1>4, <2>4
    <3>2. t.begin <= f.begin /\ f.end <= t.end
      <4>1. CASE New(f)
        BY <1>4, <1>10, <4>1
      <4>2. CASE Fresh(f)
        BY <1>5, <1>6, <1>9, <4>2
      <4> QED
        BY <2>4, <4>1, <4>2
    <3>3. e \in FragmentOf(Nat) /\ f \in FragmentOf(Nat)
      BY <1>12
    <3> QED
      BY <3>1, <3>2, <3>3 DEF Apart, FragmentOf
  <2>5. ASSUME NEW e \in {g, h}, NEW f \in {g, h}, New(e), Fresh(f)
        PROVE  Apart(e, f) /\ Apart(f, e)
    <3>1. PICK a \in gaps, d \in inside : f = Gap(a) /\ e = Marked(d)
      BY <2>5
    <3>2. d.end <= a \/ Min(stops(a)) <= d.begin
      BY <1>7
    <3> QED
      BY <1>9, <1>10, <3>1, <3>2 DEF Apart
  <2> QED
    BY <1>11, <2>1, <2>2, <2>3, <2>4, <2>5
<1>14. G \in Fragments(Nat)
  BY <1>12, <1>13 DEF Fragments
<1>15. ASSUME NEW x \in Nat, ~Covers(t, x) PROVE At(G, x) = At(split, x)
  <2>1. ASSUME NEW g \in Find(G, x) PROVE g \in Find(split, x)
    <3>1. g \in G /\ g.begin <= x /\ x < g.end /\ g \in FragmentOf(Nat)
      BY <1>12 DEF Find
    <3>2. ~New(g)
      <4> SUFFICES ASSUME NEW f \in inside, g = Marked(f) PROVE FALSE
        OBVIOUS
      <4>1. f \in FragmentOf(Nat) /\ t.begin <= f.begin /\ f.end <= t.end
        BY <1>3, <1>4
      <4> QED
        BY <1>10, <1>15, <3>1, <4>1 DEF FragmentOf, Covers
    <3>3. ~Fresh(g)
      BY <1>5, <1>6, <1>9, <1>15, <3>1 DEF FragmentOf, Covers
    <3> QED
      BY <1>11, <3>1, <3>2, <3>3 DEF Find
  <2>2. ASSUME NEW g \in Find(split, x) PROVE g \in Find(G, x)
    <3>1. g \in split /\ g.begin <= x /\ x < g.end /\ g \in FragmentOf(Nat)
      BY <1>3 DEF Find
    <3>2. g \notin inside
      BY <1>15, <3>1 DEF FragmentOf, Covers
    <3> QED
      BY <1>1, <3>1, <3>2 DEF Find
  <2> QED
    BY <2>1, <2>2 DEF At
<1>16. ASSUME NEW x \in Nat, Covers(t, x), NEW f \in Find(split, x)
       PROVE  At(G, x) = At(split, x) \cup {t.seq}
  <2>1. f \in split /\ f.begin <= x /\ x < f.end /\ f \in FragmentOf(Nat)
    BY <1>3 DEF Find
  <2>2. f \in inside
    BY <1>4, <1>16, <2>1 DEF FragmentOf, Covers
  <2>3. Marked(f) \in G
    BY <1>1, <2>2
  <2>4. Marked(f) \in Find(G, x)
    BY <1>10, <2>1, <2>2, <2>3 DEF Find
  <2>5. At(G, x) = Marked(f).seqs /\ At(split, x) = f.seqs
    BY <1>2, <1>14, <2>4, FindOne
  <2> QED
    BY <1>10, <2>2, <2>5
<1>17. ASSUME NEW x \in Nat, Covers(t, x), Find(split, x) = {}
       PROVE  At(G, x) = At(split, x) \cup {t.seq}
  <2> DEFINE starts == {n \in {t.begin} \cup {f.end : f \in inside} : n <= x}
  <2>1. starts \in SUBSET Nat /\ t.begin \in starts /\ \A n \in starts : n <= x
    BY <1>3, <1>17 DEF FragmentOf, Covers
  <2>2. PICK a \in starts : \A n \in starts : n <= a
    <3> HIDE DEF starts
    <3> QED
      BY <2>1, GreatestElement
  <2>3. \A f \in inside : f.begin <= x => f.end <= x
    BY <1>3, <1>17 DEF Find, FragmentOf
  <2>4. \A f \in inside : f.begin <= x => f.begin < a
    <3> SUFFICES ASSUME NEW f \in inside, f.begin <= x PROVE f.begin < a
      OBVIOUS
    <3>1. f.end \in starts /\ f \in FragmentOf(Nat)
      BY <1>3, <2>3
    <3> QED
      BY <2>1, <2>2, <3>1 DEF FragmentOf
  <2>5. a \in Nat /\ a <= x /\ t.begin <= a
    BY <2>1, <2>2
  <2>6. a \in gaps
    <3>1. a \notin {f.begin : f \in inside}
      BY <1>3, <2>4, <2>5 DEF FragmentOf
    <3>2. a < t.end
      BY <1>17, <2>5 DEF Covers
    <3> QED
      BY <3>1, <3>2
  <2>7. x < Min(stops(a))
    <3>1. \A n \in stops(a) : x < n
      BY <1>3, <1>17, <2>4, <2>5 DEF stops, FragmentOf, Covers
    <3> QED
      BY <1>6, <2>6, <3>1
  <2>8. Gap(a) \in Find(G, x)
    BY <1>1, <1>9, <2>5, <2>6, <2>7 DEF Find
  <2>9. At(G, x) = Gap(a).seqs
    BY <1>14, <2>8, FindOne
  <2>10. At(split, x) = {}
    BY <1>17 DEF At
  <2> QED
    BY <1>9, <1>17, <2>6, <2>9, <2>10
<1>18. ASSUME NEW x \in Nat
       PROVE  At(G, x) = IF Covers(t, x) THEN At(F, x) \cup {t.seq} ELSE At(F, x)
  BY <1>2, <1>15, <1>16, <1>17
<1> QED
  BY <1>14, <1>18 DEF G

\* Tombstones of tables, with their layers, and what an index says of them.
LayeredTomb == {t \in [begin : Nat, end : Nat, seq : Nat, layer : Nat] : t.begin < t.end}
Mark == [seq : Nat, layer : Nat]
MarkOf(t) == [seq |-> t.seq, layer |-> t.layer]

\* RangeDelIndex::Finish: the fragments are disjoint and say of each key which
\* tombstones cover it.
LEMMA IndexExact ==
  ASSUME NEW T \in SUBSET LayeredTomb
  PROVE  /\ Index(T) \in Fragments(Mark)
         /\ \A x \in Nat : At(Index(T), x) = {MarkOf(t) : t \in {u \in T : Covers(u, x)}}
<1> DEFINE cuts == {t.begin : t \in T} \cup {t.end : t \in T}
           later(a) == {c \in cuts : c > a}
           over(a) == {t \in T : t.begin <= a /\ a < t.end}
           Piece(a) == Fragment(a, Min(later(a)), {MarkOf(t) : t \in over(a)})
           starts == {c \in cuts : over(c) # {}}
           G == Index(T)
<1>1. G = {Piece(a) : a \in starts}
  BY DEF Index, MarkOf
<1> HIDE DEF G
<1>2. ASSUME NEW t \in T
      PROVE  /\ t \in LayeredTomb /\ t.begin \in Nat /\ t.end \in Nat /\ t.begin < t.end
             /\ MarkOf(t) \in Mark /\ t.begin \in cuts /\ t.end \in cuts
  BY DEF LayeredTomb, MarkOf, Mark
<1>3. cuts \in SUBSET Nat
  BY <1>2
<1>4. ASSUME NEW a \in starts
      PROVE  /\ Min(later(a)) \in cuts /\ a < Min(later(a))
             /\ \A c \in cuts : c > a => Min(later(a)) <= c
  <2>1. PICK t \in over(a) : TRUE
    OBVIOUS
  <2>2. t.end \in later(a)
    BY <1>2, <2>1
  <2>3. later(a) \in SUBSET Nat
    BY <1>3
  <2>4. PICK n \in later(a) : \A m \in later(a) : n <= m
    <3> HIDE DEF later
    <3> QED
      BY <2>2, <2>3, LeastElement
  <2>5. Min(later(a)) \in later(a) /\ \A m \in later(a) : Min(later(a)) <= m
    <3> HIDE DEF later
    <3> QED
      BY <2>4 DEF Min
  <2> QED
    BY <2>5
<1>5. ASSUME NEW a \in starts
      PROVE  /\ Piece(a).begin = a /\ Piece(a).end = Min(later(a))
             /\ Piece(a).seqs = {MarkOf(t) : t \in over(a)}
             /\ Piece(a) \in FragmentOf(Mark)
  <2>1. a \in Nat /\ Min(later(a)) \in Nat /\ a < Min(later(a))
    BY <1>3, <1>4
  <2>2. {MarkOf(t) : t \in over(a)} \in SUBSET Mark
    BY <1>2
  <2> HIDE DEF later, over
  <2> QED
    BY <2>1, <2>2 DEF Fragment, FragmentOf
\* No tombstone begins or ends inside a piece.
<1>6. ASSUME NEW a \in starts, NEW x \in Nat, a <= x, x < Min(later(a))
      PROVE  over(x) = over(a)
  <2>1. ASSUME NEW t \in T PROVE t \in over(x) <=> t \in over(a)
    <3>1. /\ t.begin \in Nat /\ t.end \in Nat /\ a \in Nat /\ Min(later(a)) \in Nat
          /\ t.begin > a => Min(later(a)) <= t.begin
          /\ t.end > a => Min(later(a)) <= t.end
      BY <1>2, <1>3, <1>4
    <3> HIDE DEF later
    <3> QED
      BY <1>6, <3>1
  <2> QED
    BY <2>1
<1>7. ASSUME NEW x \in Nat, NEW u \in over(x)
      PROVE  \E a \in starts : a <= x /\ x < Min(later(a))
  <2> DEFINE before == {c \in cuts : c <= x}
  <2>1. before \in SUBSET Nat /\ u.begin \in before /\ \A n \in before : n <= x
    BY <1>2, <1>3
  <2>2. PICK a \in before : \A n \in before : n <= a
    <3> HIDE DEF before
    <3> QED
      BY <2>1, GreatestElement
  <2>3. u \in over(a)
    BY <1>2, <1>3, <2>1, <2>2
  <2>4. a \in starts
    BY <2>2, <2>3
  <2>5. /\ Min(later(a)) \in cuts /\ a < Min(later(a))
        /\ Min(later(a)) \in Nat /\ a \in Nat /\ a <= x
    BY <1>3, <1>4, <2>1, <2>2, <2>4
  <2> HIDE DEF later, starts
  <2>6. x < Min(later(a))
    BY <2>2, <2>5
  <2> QED
    BY <2>4, <2>5, <2>6
<1> HIDE DEF Piece, later, over, starts
<1>8. \A g \in G : g \in FragmentOf(Mark)
  BY <1>1, <1>5
<1>9. ASSUME NEW g \in G, NEW h \in G PROVE g = h \/ Apart(g, h)
  <2>1. PICK a \in starts, b \in starts : g = Piece(a) /\ h = Piece(b)
    BY <1>1
  <2>2. a \in cuts /\ b \in cuts
    BY DEF starts
  <2>3. a = b \/ a < b \/ b < a
    BY <1>3, <2>2
  <2> QED
    BY <1>4, <1>5, <2>1, <2>2, <2>3 DEF Apart
<1>10. G \in Fragments(Mark)
  BY <1>8, <1>9 DEF Fragments
<1>11. ASSUME NEW x \in Nat PROVE At(G, x) = {MarkOf(t) : t \in over(x)}
  <2>1. CASE over(x) # {}
    <3>1. PICK a \in starts : a <= x /\ x < Min(later(a))
      BY <1>7, <2>1
    <3>2. Piece(a) \in Find(G, x)
      BY <1>1, <1>5, <3>1 DEF Find
    <3>3. At(G, x) = Piece(a).seqs
      BY <1>10, <3>2, FindOne
    <3> QED
      BY <1>5, <1>6, <3>1, <3>3
  <2>2. CASE over(x) = {}
    <3>1. ASSUME NEW g \in Find(G, x) PROVE FALSE
      <4>1. g \in G /\ g.begin <= x /\ x < g.end
        BY DEF Find
      <4>2. PICK a \in starts : g = Piece(a)
        BY <1>1, <4>1
      <4>3. over(a) = over(x)
        BY <1>5, <1>6, <4>1, <4>2
      <4> QED
        BY <2>2, <4>3 DEF starts
    <3>2. Find(G, x) = {}
      BY <3>1
    <3> QED
      BY <2>2, <3>2 DEF At
  <2> QED
    BY <2>1, <2>2
<1> QED
  BY <1>10, <1>11 DEF G, over, Covers

------------------------------------------------------------------------------
(* What an iterator looks at.                                              *)

\* The fragments F say which tombstones of T cover a key.
Say(F, T) ==
  /\ F \in Fragments(Nat)
  /\ \A x \in Nat : At(F, x) = {t.seq : t \in {u \in T : Covers(u, x)}}

\* The sequence numbers, up to n, of the tombstones of T over x.
Over(T, x, n) == {t.seq : t \in {u \in T : Covers(u, x) /\ u.seq <= n}}

\* The fragments looked at in one layer: what they say of k is right, and so
\* it is of all they range over.
Looks(S, k, T, n) ==
  /\ UNION {f.seqs : f \in S} = Over(T, k, n)
  /\ \A f \in S :
       /\ f.begin \in Nat /\ f.end \in Nat /\ f.begin <= k /\ k < f.end
       /\ Over(T, k, n) # {} => \A x \in f.begin .. f.end - 1 : Over(T, x, n) # {}

LEMMA MapLooks ==
  ASSUME NEW F, NEW T, Say(F, T), NEW k \in Nat, NEW n
  PROVE  Looks({[f EXCEPT !.seqs = {s \in f.seqs : s <= n}] : f \in Find(F, k)}, k, T, n)
<1> DEFINE Cut(f) == [f EXCEPT !.seqs = {s \in f.seqs : s <= n}]
           S == {Cut(f) : f \in Find(F, k)}
<1>1. ASSUME NEW f \in Find(F, k)
      PROVE  /\ Cut(f).begin = f.begin /\ Cut(f).end = f.end
             /\ Cut(f).seqs = {s \in f.seqs : s <= n}
             /\ f.begin \in Nat /\ f.end \in Nat /\ f.begin <= k /\ k < f.end /\ f \in F
  BY DEF Find, Say, Fragments, FragmentOf
<1> HIDE DEF Cut
<1>2. ASSUME NEW x \in Nat PROVE {s \in At(F, x) : s <= n} = Over(T, x, n)
  BY DEF Say, Over
<1>3. UNION {g.seqs : g \in S} = {s \in At(F, k) : s <= n}
  BY <1>1 DEF At
<1>4. ASSUME NEW f \in Find(F, k), Over(T, k, n) # {}, NEW x \in f.begin .. f.end - 1
      PROVE  Over(T, x, n) # {}
  <2>1. x \in Nat /\ f \in Find(F, x)
    BY <1>1 DEF Find
  <2>2. At(F, x) = f.seqs /\ At(F, k) = f.seqs
    BY <2>1, FindOne DEF Say
  <2> QED
    BY <1>2, <1>4, <2>1, <2>2
<1>5. Looks(S, k, T, n)
  BY <1>1, <1>2, <1>3, <1>4 DEF Looks
<1> QED
  BY <1>5 DEF Cut

\* The tombstones of T in layers newer than below.
Newer(T, below) == {t \in T : t.layer < below}

LEMMA IndexLooks ==
  ASSUME NEW T \in SUBSET LayeredTomb, NEW k \in Nat, NEW n, NEW below
  PROVE  Looks({[f EXCEPT !.seqs =
                    {p.seq : p \in {q \in f.seqs : q.seq <= n /\ q.layer < below}}] :
                  f \in Find(Index(T), k)}, k, Newer(T, below), n)
<1> DEFINE F == Index(T)
           Seen(seqs) == {p.seq : p \in {q \in seqs : q.seq <= n /\ q.layer < below}}
           Cut(f) == [f EXCEPT !.seqs = Seen(f.seqs)]
           S == {Cut(f) : f \in Find(F, k)}
           U == Newer(T, below)
<1>6. S = {[f EXCEPT !.seqs =
                {p.seq : p \in {q \in f.seqs : q.seq <= n /\ q.layer < below}}] :
              f \in Find(Index(T), k)}
  OBVIOUS
<1>0. /\ F \in Fragments(Mark)
      /\ \A x \in Nat : At(F, x) = {MarkOf(t) : t \in {u \in T : Covers(u, x)}}
  BY IndexExact
<1> HIDE DEF F
<1>1. ASSUME NEW f \in Find(F, k)
      PROVE  /\ Cut(f).begin = f.begin /\ Cut(f).end = f.end /\ Cut(f).seqs = Seen(f.seqs)
             /\ f.begin \in Nat /\ f.end \in Nat /\ f.begin <= k /\ k < f.end /\ f \in F
  BY <1>0 DEF Find, Fragments, FragmentOf
<1> HIDE DEF Cut
<1>2. ASSUME NEW x \in Nat PROVE Seen(At(F, x)) = Over(U, x, n)
  <2>1. At(F, x) = {MarkOf(t) : t \in {u \in T : Covers(u, x)}}
    BY <1>0
  <2>2. \A t \in T : MarkOf(t).seq = t.seq /\ MarkOf(t).layer = t.layer
    BY DEF MarkOf
  <2>3. ASSUME NEW s \in Seen(At(F, x)) PROVE s \in Over(U, x, n)
    <3>1. PICK q \in At(F, x) : s = q.seq /\ q.seq <= n /\ q.layer < below
      OBVIOUS
    <3>2. PICK t \in T : Covers(t, x) /\ q = MarkOf(t)
      BY <2>1
    <3> QED
      BY <2>2, <3>1, <3>2 DEF Over, Newer
  <2>4. ASSUME NEW s \in Over(U, x, n) PROVE s \in Seen(At(F, x))
    <3>1. PICK t \in T : t.layer < below /\ Covers(t, x) /\ t.seq <= n /\ s = t.seq
      BY DEF Over, Newer
    <3>2. MarkOf(t) \in At(F, x)
      BY <2>1, <3>1
    <3> QED
      BY <2>2, <3>1, <3>2
  <2> QED
    BY <2>3, <2>4
<1>3. UNION {g.seqs : g \in S} = Seen(At(F, k))
  BY <1>1 DEF At
<1> HIDE DEF Seen
<1>4. ASSUME NEW f \in Find(F, k), Over(U, k, n) # {}, NEW x \in f.begin .. f.end - 1
      PROVE  Over(U, x, n) # {}
  <2>1. x \in Nat /\ f \in Find(F, x)
    BY <1>1 DEF Find
  <2>2. At(F, x) = f.seqs /\ At(F, k) = f.seqs
    BY <1>0, <2>1, FindOne
  <2> QED
    BY <1>2, <1>4, <2>1, <2>2
<1>5. Looks(S, k, U, n)
  <2> HIDE DEF U
  <2>1. UNION {g.seqs : g \in S} = Over(U, k, n)
    BY <1>2, <1>3
  <2>2. ASSUME NEW g \in S
        PROVE  /\ g.begin \in Nat /\ g.end \in Nat /\ g.begin <= k /\ k < g.end
               /\ Over(U, k, n) # {} => \A x \in g.begin .. g.end - 1 : Over(U, x, n) # {}
    <3>1. PICK f \in Find(F, k) : g = Cut(f)
      OBVIOUS
    <3> QED
      BY <1>1, <1>4, <3>1
  <2> QED
    BY <2>1, <2>2 DEF Looks
<1> QED
  BY <1>5, <1>6

------------------------------------------------------------------------------
(* The invariant.                                                          *)

Write == [type : EntryType \cup {"range"}, begin : Keys, end : 1 .. NKeys + 1]

\* Tombstones are of ranges that are not empty.
ProperTable == {T \in Table : \A t \in T.tombs : t.begin < t.end}

FamilyTypes ==
  /\ written \in Seq(Write) /\ LastSeq <= MaxSeq
  /\ mem \in ProperTable /\ imm \in ProperTable /\ tables \in Seq(ProperTable)

\* The memtables' maps, and the cached index if it is this version's.
MapsExact ==
  /\ Say(memFrags, mem.tombs)
  /\ Say(immFrags, imm.tombs)
  /\ rdCache.version \in Nat /\ rdCache.version <= Len(tables) + 1
  /\ rdCache.version = Len(tables) + 1 => rdCache.index = Index(TableTombs)

\* An open iterator has the index of its version; or it has none, because there
\* was no tombstone when it was made, and all that came later lie beyond its
\* snapshot.
ViewMade ==
  it.pc # "closed" =>
    /\ snap \in 0 .. LastSeq
    /\ IF view.isNull
       THEN /\ \A t \in mem.tombs : snap < t.seq
            /\ imm.tombs = {} /\ Index(TableTombs) = {}
       ELSE view.index = Index(TableTombs)

CursorInv == FamilyTypes /\ MapsExact /\ ViewMade

LEMMA TombstonesOfTables ==
  ASSUME tables \in Seq(ProperTable)
  PROVE  TableTombs \in SUBSET LayeredTomb
<1>1. \A i \in DOMAIN tables : tables[i].tombs \subseteq Tombstone
                               /\ i \in Nat /\ \A t \in tables[i].tombs : t.begin < t.end
  BY DEF ProperTable, Table
<1>2. \A t \in Tombstone : t.begin \in Nat /\ t.end \in Nat /\ t.seq \in Nat
  BY CursorAssumption DEF Tombstone, Keys, Seqs
<1> QED
  BY <1>1, <1>2 DEF TableTombs, LayeredTomb

LEMMA CursorInvInit == Init => CursorInv
<1> SUFFICES ASSUME Init PROVE CursorInv
  OBVIOUS
<1>1. Empty \in ProperTable
  BY DEF Empty, Table, ProperTable
<1>2. FamilyTypes
  BY <1>1, CursorAssumption DEF Init, FamilyTypes, LastSeq
<1>3. Say({}, {})
  BY DEF Say, Fragments, At, Find
<1>4. MapsExact
  BY <1>3 DEF Init, MapsExact, Empty
<1>5. ViewMade
  BY DEF Init, ViewMade, Closed
<1> QED
  BY <1>2, <1>4, <1>5 DEF CursorInv

\* A step of an iterator that is open.
LEMMA IteratorStep ==
  ASSUME CursorInv, it.pc # "closed", UNCHANGED <<famVars, view, snap>>
  PROVE  CursorInv'
BY DEF CursorInv, FamilyTypes, MapsExact, ViewMade, famVars, LastSeq, TableTombs

LEMMA CursorAdd == ASSUME CursorInv, Add PROVE CursorInv'
<1> USE DEF CursorInv, FamilyTypes
<1> DEFINE s == LastSeq + 1
<1>1. /\ LastSeq < MaxSeq
      /\ UNCHANGED <<imm, hasImm, tables, immFrags, rdCache, view, snap, it>>
  BY DEF Add
<1>2. LastSeq \in Nat /\ s \in Seqs
  BY <1>1, CursorAssumption DEF LastSeq, Seqs
<1>3. PICK w \in Writes[s] :
        LET t == [begin |-> w.begin, end |-> w.end, seq |-> s]
        IN  /\ written' = Append(written, w)
            /\ IF w.type # "range"
               THEN /\ mem' = [mem EXCEPT !.entries = @ \cup
                                {[key |-> w.begin, seq |-> s, type |-> w.type,
                                  val |-> IF w.type = "deletion" THEN <<>> ELSE <<s>>]}]
                    /\ UNCHANGED memFrags
               ELSE IF w.begin < w.end
               THEN /\ mem' = [mem EXCEPT !.tombs = @ \cup {t}]
                    /\ memFrags' = MapAdd(memFrags, t)
               ELSE UNCHANGED <<mem, memFrags>>
  BY DEF Add
<1>4. w \in Write
  BY <1>2, CursorAssumption DEF Write
<1>5. written' \in Seq(Write) /\ LastSeq' = s
  BY <1>3, <1>4 DEF LastSeq
<1> DEFINE t == [begin |-> w.begin, end |-> w.end, seq |-> s]
<1>6. /\ mem' \in ProperTable
      /\ \/ mem'.tombs = mem.tombs /\ memFrags' = memFrags
         \/ w.begin < w.end /\ mem'.tombs = mem.tombs \cup {t} /\ memFrags' = MapAdd(memFrags, t)
  <2>1. CASE w.type # "range"
    <3> DEFINE e == [key |-> w.begin, seq |-> s, type |-> w.type,
                     val |-> IF w.type = "deletion" THEN <<>> ELSE <<s>>]
    <3>1. <<>> \in Seq(Seqs) /\ <<s>> \in Seq(Seqs)
      BY <1>2
    <3>2. (IF w.type = "deletion" THEN <<>> ELSE <<s>>) \in Seq(Seqs)
      BY <3>1
    <3>3. e \in Entry
      BY <1>2, <1>4, <2>1, <3>2 DEF Entry, Write
    <3>4. mem' = [mem EXCEPT !.entries = @ \cup {e}]
      BY <1>3, <2>1
    <3> HIDE DEF e, s
    <3>5. mem'.tombs = mem.tombs /\ mem' \in ProperTable
      BY <3>3, <3>4 DEF ProperTable, Table
    <3> QED
      BY <1>3, <2>1, <3>5
  <2>2. CASE w.type = "range" /\ w.begin < w.end
    <3>1. t \in Tombstone
      BY <1>2, <1>4, <2>2, CursorAssumption DEF Write, Tombstone, Keys
    <3>2. mem' = [mem EXCEPT !.tombs = @ \cup {t}] /\ memFrags' = MapAdd(memFrags, t)
      BY <1>3, <2>2
    <3>3. t.begin < t.end
      BY <2>2
    <3> HIDE DEF t
    <3>4. mem'.tombs = mem.tombs \cup {t} /\ mem' \in ProperTable
      BY <3>1, <3>2, <3>3 DEF ProperTable, Table
    <3> QED
      BY <2>2, <3>2, <3>4
  <2>3. CASE w.type = "range" /\ ~(w.begin < w.end)
    BY <1>3, <2>3
  <2> QED
    BY <2>1, <2>2, <2>3
<1>7. FamilyTypes'
  BY <1>1, <1>2, <1>5, <1>6 DEF Seqs
<1>8. Say(memFrags', mem'.tombs)
  <2>1. CASE mem'.tombs = mem.tombs /\ memFrags' = memFrags
    BY <2>1 DEF MapsExact
  <2>2. CASE w.begin < w.end /\ mem'.tombs = mem.tombs \cup {t} /\ memFrags' = MapAdd(memFrags, t)
    <3>1. t \in [begin : Nat, end : Nat, seq : Nat] /\ t.begin < t.end
      BY <1>2, <1>4, <2>2 DEF Write, Keys
    <3> HIDE DEF t
    <3>2. /\ MapAdd(memFrags, t) \in Fragments(Nat)
          /\ \A x \in Nat : At(MapAdd(memFrags, t), x) =
               IF Covers(t, x) THEN At(memFrags, x) \cup {t.seq} ELSE At(memFrags, x)
      BY <3>1, MapAddExact DEF MapsExact, Say
    <3>3. ASSUME NEW x \in Nat
          PROVE  At(memFrags', x) = {u.seq : u \in {v \in mem'.tombs : Covers(v, x)}}
      <4>1. At(memFrags, x) = {u.seq : u \in {v \in mem.tombs : Covers(v, x)}}
        BY DEF MapsExact, Say
      <4> QED
        BY <2>2, <3>2, <4>1
    <3> QED
      BY <2>2, <3>2, <3>3 DEF Say
  <2> QED
    BY <1>6, <2>1, <2>2
<1>9. MapsExact'
  BY <1>1, <1>8 DEF MapsExact, TableTombs
<1>10. ViewMade'
  <2> SUFFICES ASSUME it.pc # "closed"
               PROVE  /\ snap \in 0 .. LastSeq'
                      /\ IF view.isNull
                         THEN /\ \A u \in mem'.tombs : snap < u.seq
                              /\ imm.tombs = {} /\ Index(TableTombs) = {}
                         ELSE view.index = Index(TableTombs)
    BY <1>1 DEF ViewMade, TableTombs
  <2>1. snap \in 0 .. LastSeq
    BY DEF ViewMade
  <2>2. mem'.tombs \subseteq mem.tombs \cup {t} /\ snap < t.seq
    BY <1>2, <1>6, <2>1
  <2> HIDE DEF t
  <2> QED
    BY <1>2, <1>5, <2>1, <2>2 DEF ViewMade
<1> QED
  BY <1>7, <1>9, <1>10

LEMMA CursorInvStep == CursorInv /\ [Next]_vars => CursorInv'
<1> SUFFICES ASSUME CursorInv, [Next]_vars PROVE CursorInv'
  OBVIOUS
<1> USE DEF CursorInv
<1>1. Empty \in ProperTable /\ Say({}, {}) /\ Empty.tombs = {}
  BY DEF Empty, Table, ProperTable, Say, Fragments, At, Find
<1>2. CASE Add
  BY <1>2, CursorAdd
<1>3. CASE Switch
  <2>1. FamilyTypes'
    BY <1>1, <1>3 DEF Switch, FamilyTypes, LastSeq
  <2>2. MapsExact'
    <3>1. /\ immFrags' = memFrags /\ imm' = mem /\ memFrags' = {} /\ mem'.tombs = {}
          /\ UNCHANGED <<tables, rdCache>>
      BY <1>1, <1>3 DEF Switch
    <3>2. Say(memFrags', mem'.tombs) /\ Say(immFrags', imm'.tombs)
      BY <1>1, <3>1 DEF MapsExact
    <3> QED
      BY <3>1, <3>2 DEF MapsExact, TableTombs
  <2>3. ViewMade'
    BY <1>3 DEF Switch, ViewMade
  <2> QED
    BY <2>1, <2>2, <2>3
<1>4. CASE Flush
  <2>1. /\ it.pc = "closed" /\ tables' = <<imm>> \o tables /\ imm' = Empty /\ immFrags' = {}
        /\ UNCHANGED <<written, mem, memFrags, rdCache, it>>
    BY <1>4 DEF Flush
  <2>2. tables' \in Seq(ProperTable) /\ Len(tables') = Len(tables) + 1 /\ Len(tables) \in Nat
    <3>1. tables \in Seq(ProperTable) /\ <<imm>> \in Seq(ProperTable) /\ Len(<<imm>>) = 1
      BY DEF FamilyTypes
    <3> QED
      BY <2>1, <3>1
  <2>3. FamilyTypes'
    BY <1>1, <2>1, <2>2 DEF FamilyTypes, LastSeq
  <2>4. MapsExact'
    <3>1. Say(memFrags', mem'.tombs) /\ Say(immFrags', imm'.tombs)
      BY <1>1, <2>1 DEF MapsExact
    <3>2. rdCache'.version \in Nat /\ rdCache'.version < Len(tables') + 1
      BY <2>1, <2>2 DEF MapsExact
    <3> QED
      BY <2>2, <3>1, <3>2 DEF MapsExact
  <2>5. ViewMade'
    BY <2>1 DEF ViewMade
  <2> QED
    BY <2>3, <2>4, <2>5
<1>5. CASE NewIterator
  <2>1. /\ snap' \in 0 .. LastSeq /\ rdCache' = CurrentIndex
        /\ view' = IF mem.tombs = {} /\ imm.tombs = {} /\ CurrentIndex.index = {} THEN NoView
                   ELSE [isNull |-> FALSE, index |-> CurrentIndex.index]
        /\ UNCHANGED <<written, mem, imm, tables, memFrags, immFrags>>
    BY <1>5 DEF NewIterator
  <2>2. CurrentIndex.index = Index(TableTombs) /\ CurrentIndex.version = Len(tables) + 1
        /\ Len(tables) \in Nat
    BY DEF CurrentIndex, MapsExact, FamilyTypes
  <2>3. FamilyTypes'
    BY <2>1 DEF FamilyTypes, LastSeq
  <2>4. MapsExact'
    BY <2>1, <2>2 DEF MapsExact, TableTombs
  <2>5. ViewMade'
    <3>1. TableTombs' = TableTombs /\ LastSeq' = LastSeq
      BY <2>1 DEF TableTombs, LastSeq
    <3>2. CASE mem.tombs = {} /\ imm.tombs = {} /\ CurrentIndex.index = {}
      BY <2>1, <2>2, <3>1, <3>2 DEF ViewMade, NoView
    <3>3. CASE ~(mem.tombs = {} /\ imm.tombs = {} /\ CurrentIndex.index = {})
      BY <2>1, <2>2, <3>1, <3>3 DEF ViewMade
    <3> QED
      BY <3>2, <3>3
  <2> QED
    BY <2>3, <2>4, <2>5
<1>6. CASE DeleteIterator
  <2>1. it'.pc = "closed" /\ UNCHANGED famVars
    BY <1>6 DEF DeleteIterator, Closed
  <2>2. FamilyTypes' /\ MapsExact' /\ ViewMade'
    BY <2>1 DEF famVars, FamilyTypes, MapsExact, ViewMade, LastSeq, TableTombs
  <2> QED
    BY <2>2
<1>7. CASE UNCHANGED vars
  BY <1>7 DEF vars, famVars, FamilyTypes, MapsExact, ViewMade, LastSeq, TableTombs
<1>8. CASE (\E k \in 1 .. NKeys + 1 : Seek(k)) \/ SeekToFirst \/ SeekToLast \/ NextEntry \/ Prev
  BY <1>8, IteratorStep DEF Seek, SeekToFirst, SeekToLast, NextEntry, Prev, Resting
<1>9. CASE FindNextStep \/ FoldStep \/ TurnStep \/ FindPrevStep
  BY <1>9, IteratorStep DEF FindNextStep, FoldStep, TurnStep, FindPrevStep, In
<1> QED
  BY <1>2, <1>3, <1>4, <1>5, <1>6, <1>7, <1>8, <1>9 DEF Next

\* What tombstones say of a table in a layer newer than `below`.
LEMMA OverTombs ==
  ASSUME FamilyTypes, NEW below \in Nat, NEW x \in Nat
  PROVE  {t.seq : t \in {u \in Tombs(below) : Covers(u, x)}} =
           (IF below > 0 THEN Over(mem.tombs, x, snap) ELSE {})
             \cup (IF below > 1 THEN Over(imm.tombs, x, snap) ELSE {})
             \cup Over(Newer(TableTombs, below), x, snap)
<1>1. Over(Newer(TableTombs, below), x, snap) =
        {t.seq : t \in {u \in UNION {tables[i].tombs : i \in {j \in DOMAIN tables : j + 1 < below}} :
                          Covers(u, x) /\ u.seq <= snap}}
  <2> DEFINE T == UNION {tables[i].tombs : i \in {j \in DOMAIN tables : j + 1 < below}}
  <2>1. ASSUME NEW t \in Newer(TableTombs, below), Covers(t, x), t.seq <= snap
        PROVE  \E u \in T : Covers(u, x) /\ u.seq <= snap /\ u.seq = t.seq
    <3>1. PICK i \in DOMAIN tables : \E u \in tables[i].tombs :
             t = [begin |-> u.begin, end |-> u.end, seq |-> u.seq, layer |-> i + 1]
      BY DEF Newer, TableTombs
    <3>2. PICK u \in tables[i].tombs :
             t = [begin |-> u.begin, end |-> u.end, seq |-> u.seq, layer |-> i + 1]
      BY <3>1
    <3>3. i + 1 < below
      BY <3>2 DEF Newer
    <3> QED
      BY <2>1, <3>2, <3>3 DEF Covers
  <2>2. ASSUME NEW u \in T, Covers(u, x), u.seq <= snap
        PROVE  \E t \in Newer(TableTombs, below) :
                  Covers(t, x) /\ t.seq <= snap /\ t.seq = u.seq
    <3>1. PICK i \in DOMAIN tables : i + 1 < below /\ u \in tables[i].tombs
      OBVIOUS
    <3> DEFINE t == [begin |-> u.begin, end |-> u.end, seq |-> u.seq, layer |-> i + 1]
    <3>2. t \in Newer(TableTombs, below)
      BY <3>1 DEF Newer, TableTombs
    <3>3. Covers(t, x) /\ t.seq <= snap /\ t.seq = u.seq
      BY <2>2 DEF Covers
    <3> QED
      BY <3>2, <3>3
  <2> HIDE DEF T
  <2>3. Over(Newer(TableTombs, below), x, snap) =
          {t.seq : t \in {u \in T : Covers(u, x) /\ u.seq <= snap}}
    BY <2>1, <2>2 DEF Over
  <2> QED
    BY <2>3 DEF T
<1> QED
  BY <1>1 DEF Tombs, Over

\* RangeDelView: what the view says of a key is what the tombstones of the newer
\* layers say, however many were added since it was made, and a range that is
\* jumped over is covered from end to end.
THEOREM ViewIsExact == Spec => []ViewExact
<1>1. ASSUME CursorInv, it.pc = "rest", NEW k \in Keys, NEW below \in 0 .. AllLayers
      PROVE  LET over(x) == {t.seq : t \in {u \in Tombs(below) : Covers(u, x)}}
             IN  /\ MaxCovering(k, below) = Max({0} \cup over(k))
                 /\ CoveredRange(k, below) = {} <=> over(k) = {}
                 /\ \A r \in CoveredRange(k, below) :
                      r.begin <= k /\ k < r.end /\ \A x \in r.begin .. r.end - 1 : over(x) # {}
  <2> DEFINE over(x) == {t.seq : t \in {u \in Tombs(below) : Covers(u, x)}}
             looked == Consulted(k, below)
             says == UNION {UNION {f.seqs : f \in S} : S \in ToSet(looked)}
             hits == {i \in DOMAIN looked : \E f \in looked[i] : f.seqs # {}}
             first == {i \in hits : \A j \in hits : i <= j}
  <2>1. k \in Nat /\ below \in Nat
    BY <1>1, CursorAssumption DEF Keys, AllLayers
  <2>2. MaxCovering(k, below) = Max({0} \cup says)
    BY DEF MaxCovering
  <2>3. CoveredRange(k, below) =
          UNION {{[begin |-> f.begin, end |-> f.end] : f \in looked[i]} : i \in first}
    BY DEF CoveredRange
  <2>4. \A x \in Nat :
          over(x) = (IF below > 0 THEN Over(mem.tombs, x, snap) ELSE {})
                      \cup (IF below > 1 THEN Over(imm.tombs, x, snap) ELSE {})
                      \cup Over(Newer(TableTombs, below), x, snap)
    BY <1>1, <2>1, OverTombs DEF CursorInv
  <2>5. TableTombs \in SUBSET LayeredTomb
    BY <1>1, TombstonesOfTables DEF CursorInv, FamilyTypes
  <2> HIDE DEF over, looked, says
  <2>6. CASE view.isNull
    <3>1. Over(mem.tombs, k, snap) = {} /\ Over(imm.tombs, k, snap) = {}
      <4>1. \A t \in mem.tombs : snap < t.seq /\ t.seq \in Nat /\ snap \in Nat
        BY <1>1, <2>6, CursorAssumption
           DEF CursorInv, ViewMade, FamilyTypes, ProperTable, Table, Tombstone, Seqs, LastSeq
      <4> QED
        BY <1>1, <2>6, <4>1 DEF CursorInv, ViewMade, Over
    <3>2. Over(Newer(TableTombs, below), k, snap) = {}
      <4>1. Index(TableTombs) = {}
        BY <1>1, <2>6 DEF CursorInv, ViewMade
      <4>2. {MarkOf(t) : t \in {u \in TableTombs : Covers(u, k)}} = {}
        BY <2>1, <2>5, <4>1, IndexExact DEF At, Find
      <4> QED
        BY <4>2 DEF Over, Newer
    <3>3. looked = <<>>
      BY <2>6 DEF Consulted, looked
    <3>4. says = {} /\ hits = {}
      BY <3>3 DEF says, ToSet
    <3>5. over(k) = {}
      BY <2>1, <2>4, <3>1, <3>2
    <3>6. CoveredRange(k, below) = {} /\ MaxCovering(k, below) = Max({0} \cup over(k))
      BY <2>2, <2>3, <3>4, <3>5
    <3> QED
      BY <3>5, <3>6 DEF over
  <2>7. CASE ~view.isNull
    <3> DEFINE S1 == IF below > 0
                     THEN {[f EXCEPT !.seqs = {s \in f.seqs : s <= snap}] : f \in Find(memFrags, k)}
                     ELSE {}
               S2 == IF below > 1
                     THEN {[f EXCEPT !.seqs = {s \in f.seqs : s <= snap}] : f \in Find(immFrags, k)}
                     ELSE {}
               S3 == {[f EXCEPT !.seqs =
                         {p.seq : p \in {q \in f.seqs : q.seq <= snap /\ q.layer < below}}] :
                       f \in Find(Index(TableTombs), k)}
               O1(x) == IF below > 0 THEN Over(mem.tombs, x, snap) ELSE {}
               O2(x) == IF below > 1 THEN Over(imm.tombs, x, snap) ELSE {}
               O3(x) == Over(Newer(TableTombs, below), x, snap)
    <3>1. looked = <<S1, S2, S3>>
      <4>1. view.index = Index(TableTombs)
        BY <1>1, <2>7 DEF CursorInv, ViewMade
      <4> QED
        BY <2>7, <4>1 DEF Consulted, looked
    <3>2. below > 0 => Looks(S1, k, mem.tombs, snap)
      BY <1>1, <2>1, MapLooks DEF CursorInv, MapsExact
    <3>3. below > 1 => Looks(S2, k, imm.tombs, snap)
      BY <1>1, <2>1, MapLooks DEF CursorInv, MapsExact
    <3>4. Looks(S3, k, Newer(TableTombs, below), snap)
      BY <2>1, <2>5, IndexLooks
    <3> DEFINE part == <<[x \in Nat |-> O1(x)], [x \in Nat |-> O2(x)], [x \in Nat |-> O3(x)]>>
    <3>5. \A x \in Nat : over(x) = part[1][x] \cup part[2][x] \cup part[3][x]
      BY <2>4
    <3>6. /\ UNION {f.seqs : f \in S1} = part[1][k]
          /\ \A f \in S1 :
               /\ f.begin \in Nat /\ f.end \in Nat /\ f.begin <= k /\ k < f.end
               /\ part[1][k] # {} => \A x \in f.begin .. f.end - 1 : part[1][x] # {}
      <4>1. CASE below > 0
        <5>1. \A x \in Nat : part[1][x] = Over(mem.tombs, x, snap)
          BY <4>1
        <5> HIDE DEF part, S1
        <5> QED
          BY <2>1, <3>2, <4>1, <5>1 DEF Looks
      <4>2. CASE ~(below > 0)
        BY <2>1, <4>2
      <4> QED
        BY <4>1, <4>2
    <3>7. /\ UNION {f.seqs : f \in S2} = part[2][k]
          /\ \A f \in S2 :
               /\ f.begin \in Nat /\ f.end \in Nat /\ f.begin <= k /\ k < f.end
               /\ part[2][k] # {} => \A x \in f.begin .. f.end - 1 : part[2][x] # {}
      <4>1. CASE below > 1
        <5>1. \A x \in Nat : part[2][x] = Over(imm.tombs, x, snap)
          BY <4>1
        <5> HIDE DEF part, S2
        <5> QED
          BY <2>1, <3>3, <4>1, <5>1 DEF Looks
      <4>2. CASE ~(below > 1)
        BY <2>1, <4>2
      <4> QED
        BY <4>1, <4>2
    <3>8. /\ UNION {f.seqs : f \in S3} = part[3][k]
          /\ \A f \in S3 :
               /\ f.begin \in Nat /\ f.end \in Nat /\ f.begin <= k /\ k < f.end
               /\ part[3][k] # {} => \A x \in f.begin .. f.end - 1 : part[3][x] # {}
      <4>1. \A x \in Nat : part[3][x] = Over(Newer(TableTombs, below), x, snap)
        OBVIOUS
      <4> HIDE DEF part, S3
      <4> QED
        BY <2>1, <3>4, <4>1 DEF Looks
    <3> HIDE DEF part, S1, S2, S3
    <3>9. /\ DOMAIN looked = 1 .. 3
          /\ looked[1] = S1 /\ looked[2] = S2 /\ looked[3] = S3
      BY <3>1
    <3>10. \A i \in 1 .. 3 :
             /\ UNION {f.seqs : f \in looked[i]} = part[i][k]
             /\ \A f \in looked[i] :
                  /\ f.begin \in Nat /\ f.end \in Nat /\ f.begin <= k /\ k < f.end
                  /\ part[i][k] # {} => \A x \in f.begin .. f.end - 1 : part[i][x] # {}
      BY <3>6, <3>7, <3>8, <3>9
    <3>11. \A x \in Nat : over(x) = UNION {part[i][x] : i \in 1 .. 3}
      BY <3>5
    <3>12. says = over(k)
      <4>1. ToSet(looked) = {looked[i] : i \in 1 .. 3}
        BY <3>9 DEF ToSet
      <4> QED
        BY <2>1, <3>10, <3>11, <4>1 DEF says
    <3>13. hits = {i \in 1 .. 3 : part[i][k] # {}}
      BY <3>9, <3>10
    <3>14. hits # {} => first # {}
      <4>1. hits \in SUBSET Nat
        BY <3>13
      <4> HIDE DEF hits
      <4> QED
        BY <4>1, LeastElement
    <3>15. hits = {} <=> over(k) = {}
      BY <2>1, <3>11, <3>13
    <3>16. ASSUME NEW r \in CoveredRange(k, below)
           PROVE  r.begin <= k /\ k < r.end /\ \A x \in r.begin .. r.end - 1 : over(x) # {}
      <4>1. PICK i \in first : \E f \in looked[i] : r = [begin |-> f.begin, end |-> f.end]
        BY <2>3
      <4>2. i \in 1 .. 3 /\ part[i][k] # {}
        BY <3>13
      <4>5. PICK f \in looked[i] : r = [begin |-> f.begin, end |-> f.end]
        BY <4>1
      <4>3. \A x \in f.begin .. f.end - 1 : x \in Nat /\ part[i][x] # {}
        BY <3>10, <4>2, <4>5
      <4>4. \A x \in Nat : part[i][x] # {} => over(x) # {}
        BY <3>11, <4>2
      <4> QED
        BY <3>10, <4>2, <4>3, <4>4, <4>5
    <3>17. CoveredRange(k, below) = {} <=> over(k) = {}
      <4>1. CASE hits = {}
        BY <2>3, <3>15, <4>1
      <4>2. CASE hits # {}
        <5>1. PICK i \in first : TRUE
          BY <3>14, <4>2
        <5>2. PICK f \in looked[i] : TRUE
          BY <3>13
        <5>3. [begin |-> f.begin, end |-> f.end] \in CoveredRange(k, below)
          BY <2>3, <5>1, <5>2
        <5> QED
          BY <3>15, <4>2, <5>3
      <4> QED
        BY <4>1, <4>2
    <3> QED
      BY <2>2, <3>12, <3>16, <3>17 DEF over
  <2> QED
    BY <2>6, <2>7
<1>2. CursorInv => ViewExact
  BY <1>1 DEF ViewExact
<1> QED
  BY <1>2, CursorInvInit, CursorInvStep, PTL DEF Spec
================================================================================
