----------------------------- MODULE LevelsProofs -----------------------------
(***************************************************************************)
(* Theorems of Levels, for any keys, writes and number of levels: data is  *)
(* ordered by age from layer to layer and tables of a level do not overlap *)
(* while nobody writes during a call of CompactRange; a call empties the   *)
(* levels it compacts; a compaction at the bottom leaves plain values.     *)
(***************************************************************************)
EXTENDS Levels, WellOrder

------------------------------------------------------------------------------
(* Tables and their bounds.                                                *)

\* Records with the fields of an entry, and tombstones that cover some key.
EntryLike(e) == /\ e = [key |-> e.key, seq |-> e.seq, type |-> e.type, val |-> e.val]
                /\ e.key \in Keys /\ e.seq \in Seqs /\ e.type \in EntryType
Sound(T) == /\ T = [entries |-> T.entries, tombs |-> T.tombs]
            /\ \A e \in T.entries : EntryLike(e)
            /\ T.tombs \subseteq Tombstone
            /\ \A t \in T.tombs : t.begin < t.end

\* T has something of key k with sequence number s.
Holds(T, k, s) == \/ \E e \in T.entries : e.key = k /\ e.seq = s
                  \/ \E t \in T.tombs : Covers(t, k) /\ t.seq = s

\* Of each key, what T has is newer than what U has.
Newer(T, U) == \A k, s, q \in Nat : Holds(T, k, s) /\ Holds(U, k, q) => q < s

LEMMA HoldsType ==
  ASSUME NEW T, Sound(T), NEW k \in Nat, NEW s, Holds(T, k, s)
  PROVE  s \in Nat /\ k \in Keys
BY KeysAssumption DEF Sound, EntryLike, Holds, Covers, Keys, Seqs, Tombstone

LEMMA EmptyIsSound == Sound(Empty) /\ \A k, s : ~Holds(Empty, k, s)
BY DEF Sound, Empty, Holds

\* The bounds of a table are there, and hold what it has.
LEMMA Bounds ==
  ASSUME NEW T, Sound(T), T # Empty
  PROVE  /\ Lo(T) \in Nat /\ Hi(T) \in Nat /\ 1 <= Lo(T) /\ Lo(T) <= Hi(T) /\ Hi(T) <= NKeys + 1
         /\ \A e \in T.entries : Lo(T) <= e.key /\ e.key <= Hi(T)
         /\ \A t \in T.tombs : Lo(T) <= t.begin /\ t.end <= Hi(T)
         /\ \/ \E e \in T.entries : Lo(T) = e.key
            \/ \E t \in T.tombs : Lo(T) = t.begin
         /\ \/ \E e \in T.entries : Hi(T) = e.key
            \/ \E t \in T.tombs : Hi(T) = t.end
<1> DEFINE L == KeysIn(T) \cup {t.begin : t \in T.tombs}
           H == KeysIn(T) \cup {t.end : t \in T.tombs}
<1>1. NKeys \in Nat /\ NKeys + 1 \in Nat
  BY KeysAssumption
<1>2. /\ \A e \in T.entries : e.key \in Nat /\ 1 <= e.key /\ e.key <= NKeys
      /\ \A t \in T.tombs : /\ t.begin \in Nat /\ 1 <= t.begin
                            /\ t.end \in Nat /\ t.end <= NKeys + 1 /\ t.begin < t.end
  BY <1>1 DEF Sound, EntryLike, Keys, Tombstone
<1>3. L \in SUBSET Nat /\ H \in SUBSET Nat /\ \A h \in H : h <= NKeys + 1
  BY <1>1, <1>2 DEF KeysIn
<1>4. L # {} /\ H # {}
  BY DEF Sound, Empty, KeysIn
<1>5. Lo(T) \in L /\ \A x \in L : Lo(T) <= x
  <2>1. \E n \in L : \A x \in L : n <= x
    <3> HIDE DEF L
    <3> QED
      BY <1>3, <1>4, LeastElement
  <2>2. Lo(T) = Min(L)
    BY DEF Lo
  <2> HIDE DEF L
  <2> QED
    BY <2>1, <2>2 DEF Min
<1>6. Hi(T) \in H /\ \A x \in H : x <= Hi(T)
  <2>1. \E n \in H : \A x \in H : x <= n
    <3> HIDE DEF H
    <3> QED
      BY <1>1, <1>3, <1>4, GreatestElement
  <2>2. Hi(T) = Max(H)
    BY DEF Hi
  <2> HIDE DEF H
  <2>3. \E n \in H : \A x \in H : n >= x
    BY <2>1, <1>3
  <2> QED
    BY <2>2, <2>3, <1>3 DEF Max
<1>7. /\ \A e \in T.entries : e.key \in L /\ e.key \in H
      /\ \A t \in T.tombs : t.begin \in L /\ t.end \in H
  BY DEF KeysIn
<1>8. /\ Lo(T) \in Nat /\ Hi(T) \in Nat /\ 1 <= Lo(T) /\ Hi(T) <= NKeys + 1
      /\ \/ \E e \in T.entries : Lo(T) = e.key
         \/ \E t \in T.tombs : Lo(T) = t.begin
      /\ \/ \E e \in T.entries : Hi(T) = e.key
         \/ \E t \in T.tombs : Hi(T) = t.end
  BY <1>1, <1>2, <1>3, <1>5, <1>6 DEF KeysIn
<1>9. /\ \A e \in T.entries : Lo(T) <= e.key /\ e.key <= Hi(T)
      /\ \A t \in T.tombs : Lo(T) <= t.begin /\ t.end <= Hi(T)
  <2> HIDE DEF L, H
  <2> QED
    BY <1>5, <1>6, <1>7
<1>10. Lo(T) <= Hi(T)
  BY <1>2, <1>8, <1>9
<1> QED
  BY <1>8, <1>9, <1>10

\* What a table has lies in its bounds, short of the end of a tombstone.
LEMMA HeldInBounds ==
  ASSUME NEW T, Sound(T), NEW k \in Nat, NEW s, Holds(T, k, s)
  PROVE  T # Empty /\ Lo(T) <= k /\ k <= Hi(T) /\ (Open(T) => k < Hi(T))
<1>1. T # Empty
  BY EmptyIsSound
<1>2. CASE \E e \in T.entries : e.key = k /\ e.seq = s
  BY <1>1, <1>2, Bounds DEF Open, KeysIn
<1>3. CASE \E t \in T.tombs : Covers(t, k) /\ t.seq = s
  <2>1. PICK t \in T.tombs : Covers(t, k)
    BY <1>3
  <2>2. t.begin \in Nat /\ t.end \in Nat
    BY <2>1, KeysAssumption DEF Sound, Tombstone, Keys
  <2> QED
    BY <1>1, <2>1, <2>2, Bounds DEF Covers
<1> QED
  BY <1>2, <1>3 DEF Holds

\* Tables one after the other share no key.
LEMMA ApartNewer ==
  ASSUME NEW T, NEW U, Sound(T), Sound(U), T # Empty, U # Empty,
         Precedes(T, U) \/ Precedes(U, T)
  PROVE  Newer(T, U)
<1> SUFFICES ASSUME NEW k \in Nat, NEW s \in Nat, NEW q \in Nat, Holds(T, k, s), Holds(U, k, q)
             PROVE  FALSE
  BY DEF Newer
<1>1. /\ Lo(T) <= k /\ k <= Hi(T) /\ (Open(T) => k < Hi(T))
      /\ Lo(U) <= k /\ k <= Hi(U) /\ (Open(U) => k < Hi(U))
  BY HeldInBounds
<1>2. Lo(T) \in Nat /\ Hi(T) \in Nat /\ Lo(U) \in Nat /\ Hi(U) \in Nat
  BY Bounds
<1> QED
  BY <1>1, <1>2 DEF Precedes

LEMMA NoOverlapApart ==
  ASSUME NEW T, NEW U, Sound(T), Sound(U), T # Empty, U # Empty,
         ~Overlaps(T, Lo(U), Hi(U))
  PROVE  Precedes(T, U) \/ Precedes(U, T)
<1>1. Lo(T) \in Nat /\ Hi(T) \in Nat /\ Lo(U) \in Nat /\ Hi(U) \in Nat
  BY Bounds
<1> QED
  BY <1>1 DEF Precedes, Overlaps

\* The hull of some tables, from one's begin to another's end.
Tabs(C) == \A T \in C : Sound(T) /\ T # Empty

LEMMA Hull ==
  ASSUME NEW C, Tabs(C), C # {}
  PROVE  /\ HullLo(C) \in Nat /\ HullHi(C) \in Nat
         /\ \E T \in C : HullLo(C) = Lo(T)
         /\ \E T \in C : HullHi(C) = Hi(T)
         /\ \A T \in C : HullLo(C) <= Lo(T) /\ Hi(T) <= HullHi(C)
<1> DEFINE L == {Lo(T) : T \in C}
           H == {Hi(T) : T \in C}
<1>1. NKeys \in Nat /\ NKeys + 1 \in Nat /\ \A T \in C : Lo(T) \in Nat /\ Hi(T) \in Nat /\ Hi(T) <= NKeys + 1
  BY Bounds, KeysAssumption DEF Tabs
<1>2. L \in SUBSET Nat /\ H \in SUBSET Nat /\ L # {} /\ H # {} /\ \A h \in H : h <= NKeys + 1
  BY <1>1
<1>3. Min(L) \in L /\ \A x \in L : Min(L) <= x
  <2> HIDE DEF L
  <2>1. \E n \in L : \A x \in L : n <= x
    BY <1>2, LeastElement
  <2> QED
    BY <2>1 DEF Min
<1>4. Max(H) \in H /\ \A x \in H : x <= Max(H)
  <2> HIDE DEF H
  <2>1. \E n \in H : \A x \in H : x <= n
    BY <1>1, <1>2, GreatestElement
  <2>2. \E n \in H : \A x \in H : n >= x
    BY <2>1, <1>2
  <2> QED
    BY <2>2, <1>2 DEF Max
<1> QED
  BY <1>1, <1>3, <1>4 DEF HullLo, HullHi

------------------------------------------------------------------------------
(* The inputs of a compaction.                                             *)

\* Between two tables of C, no key is out of all their bounds.
Spans(T, k)   == Lo(T) <= k /\ k <= Hi(T)
Gapless(C)    == \A T, U \in C : \A k \in Nat :
                   Lo(T) <= k /\ k <= Hi(U) => \E W \in C : Spans(W, k)

\* No other table of S meets one of C.
Isolated(S, C) == \A X \in S \ C, T \in C : ~Overlaps(X, Lo(T), Hi(T))

LEMMA TabBounds ==
  ASSUME NEW C, Tabs(C), NEW T \in C
  PROVE  Lo(T) \in Nat /\ Hi(T) \in Nat /\ Lo(T) <= Hi(T) /\ Hi(T) <= NKeys + 1
BY Bounds DEF Tabs

\* Tables that meet the range from one table's begin to another's end.
LEMMA GaplessGrow ==
  ASSUME NEW C, NEW N, Tabs(C), Tabs(N), Gapless(C), NEW T \in C, NEW U \in C,
         \A V \in N : Overlaps(V, Lo(T), Hi(U))
  PROVE  Gapless(C \cup N)
<1> SUFFICES ASSUME NEW X \in C \cup N, NEW Y \in C \cup N, NEW k \in Nat,
                    Lo(X) <= k, k <= Hi(Y),
                    \A W \in C \cup N : ~Spans(W, k)
             PROVE  FALSE
  BY DEF Gapless
<1>1. Lo(T) \in Nat /\ Hi(U) \in Nat /\ Lo(X) \in Nat /\ Hi(X) \in Nat
      /\ Lo(Y) \in Nat /\ Hi(Y) \in Nat
  BY TabBounds
<1>2. PICK A \in C : Lo(A) <= k
  <2>1. CASE X \in C
    BY <2>1
  <2>2. CASE X \in N
    <3>1. Hi(X) < k
      BY <1>1 DEF Spans
    <3>2. Lo(T) <= Hi(X)
      BY <2>2 DEF Overlaps
    <3> QED
      BY <1>1, <3>1, <3>2
  <2> QED
    BY <2>1, <2>2
<1>3. PICK B \in C : k <= Hi(B)
  <2>1. CASE Y \in C
    BY <2>1
  <2>2. CASE Y \in N
    <3>1. Lo(Y) > k
      BY <1>1 DEF Spans
    <3>2. Lo(Y) <= Hi(U)
      BY <2>2 DEF Overlaps
    <3> QED
      BY <1>1, <3>1, <3>2
  <2> QED
    BY <2>1, <2>2
<1> QED
  BY <1>2, <1>3 DEF Gapless

\* GetOverlappingInputs at level 0 takes all that overlap the range, and what
\* it leaves meets nothing that it takes.
LEMMA OverlappingAt0Closed ==
  ASSUME NEW S, NEW a \in Nat, NEW b \in Nat
  PROVE  /\ OverlappingAt0(S, a, b) \subseteq S
         /\ \A T \in S : Overlaps(T, a, b) => T \in OverlappingAt0(S, a, b)
         /\ Isolated(S, OverlappingAt0(S, a, b))
<1> DEFINE closed(C) == \A T \in S :
             Overlaps(T, a, b) \/ (\E U \in C : Overlaps(T, Lo(U), Hi(U))) => T \in C
           R == {T \in S : \A C \in SUBSET S : closed(C) => T \in C}
<1>1. OverlappingAt0(S, a, b) = R
  BY DEF OverlappingAt0
<1>2. \A T \in S : Overlaps(T, a, b) => T \in R
  OBVIOUS
<1>3. ASSUME NEW T \in S, NEW U \in R, Overlaps(T, Lo(U), Hi(U)) PROVE T \in R
  BY <1>3
<1> HIDE DEF R
<1>4. R \subseteq S
  BY DEF R
<1> QED
  BY <1>1, <1>2, <1>3, <1>4 DEF Isolated

\* It takes no more than that: it is in each set with these two properties.
LEMMA OverlappingAt0Least ==
  ASSUME NEW S, NEW a \in Nat, NEW b \in Nat, NEW C \in SUBSET S,
         \A T \in S : Overlaps(T, a, b) => T \in C,
         \A T \in S, U \in C : Overlaps(T, Lo(U), Hi(U)) => T \in C
  PROVE  OverlappingAt0(S, a, b) \subseteq C
BY DEF OverlappingAt0

\* What it takes leaves no gap that was not in the range.
LEMMA OverlappingAt0Gapless ==
  ASSUME NEW S, NEW A, Tabs(S), Tabs(A), Gapless(A), NEW P \in A, NEW Q \in A
  PROVE  Gapless(A \cup OverlappingAt0(S, Lo(P), Hi(Q)))
<1> DEFINE R == OverlappingAt0(S, Lo(P), Hi(Q))
<1>1. Lo(P) \in Nat /\ Hi(Q) \in Nat
  BY TabBounds
<1>2. /\ R \subseteq S
      /\ \A T \in S : Overlaps(T, Lo(P), Hi(Q)) => T \in R
      /\ Isolated(S, R)
  BY <1>1, OverlappingAt0Closed
<1>3. \A C \in SUBSET S :
        /\ \A T \in S : Overlaps(T, Lo(P), Hi(Q)) => T \in C
        /\ \A T \in S, U \in C : Overlaps(T, Lo(U), Hi(U)) => T \in C
        => R \subseteq C
  BY <1>1, OverlappingAt0Least
<1> HIDE DEF R
<1> SUFFICES ASSUME NEW X \in A \cup R, NEW Y \in A \cup R, NEW k \in Nat,
                    Lo(X) <= k, k <= Hi(Y),
                    \A W \in A \cup R : ~Spans(W, k)
             PROVE  FALSE
  BY DEF Gapless, R
<1>4. \A T \in A \cup R : /\ Lo(T) \in Nat /\ Hi(T) \in Nat /\ Lo(T) <= Hi(T)
                          /\ (Hi(T) < k \/ k < Lo(T))
  BY <1>2, TabBounds DEF Spans, Tabs
<1>5. k < Lo(P) \/ Hi(Q) < k
  <2> SUFFICES ASSUME Lo(P) <= k, k <= Hi(Q) PROVE FALSE
    BY <1>1
  <2> QED
    BY DEF Gapless
<1>6. CASE k < Lo(P)
  <2> DEFINE E == {T \in R : k < Lo(T)}
  <2>1. \A T \in S : Overlaps(T, Lo(P), Hi(Q)) => T \in E
    BY <1>1, <1>2, <1>4, <1>6 DEF Overlaps
  <2>2. ASSUME NEW T \in S, NEW U \in E, Overlaps(T, Lo(U), Hi(U)) PROVE T \in E
    <3>1. T \in R
      BY <1>2, <2>2 DEF Isolated
    <3>2. Lo(U) <= Hi(T)
      BY <2>2 DEF Overlaps
    <3> QED
      BY <1>4, <3>1, <3>2
  <2>3. E \in SUBSET S
    BY <1>2
  <2>4. R \subseteq E
    <3> HIDE DEF E
    <3> QED
      BY <1>3, <2>1, <2>2, <2>3
  <2>5. X \in A
    BY <1>4, <2>4
  <2> QED
    BY <1>1, <1>4, <1>6, <2>5 DEF Gapless
<1>7. CASE Hi(Q) < k
  <2> DEFINE E == {T \in R : Hi(T) < k}
  <2>1. \A T \in S : Overlaps(T, Lo(P), Hi(Q)) => T \in E
    BY <1>1, <1>2, <1>4, <1>7 DEF Overlaps
  <2>2. ASSUME NEW T \in S, NEW U \in E, Overlaps(T, Lo(U), Hi(U)) PROVE T \in E
    <3>1. T \in R
      BY <1>2, <2>2 DEF Isolated
    <3>2. Lo(T) <= Hi(U)
      BY <2>2 DEF Overlaps
    <3> QED
      BY <1>4, <3>1, <3>2
  <2>3. E \in SUBSET S
    BY <1>2
  <2>4. R \subseteq E
    <3> HIDE DEF E
    <3> QED
      BY <1>3, <2>1, <2>2, <2>3
  <2>5. Y \in A
    BY <1>4, <2>4
  <2> QED
    BY <1>1, <1>4, <1>7, <2>5 DEF Gapless
<1> QED
  BY <1>5, <1>6, <1>7

\* AddBoundaryInputs leaves no gap, and adds nothing to tables that meet no
\* other.
LEMMA BoundaryKept ==
  ASSUME NEW S, NEW C \in SUBSET S, Tabs(S), C # {}
  PROVE  /\ C \subseteq AddBoundary(S, C) /\ AddBoundary(S, C) \subseteq S
         /\ Isolated(S, C) => AddBoundary(S, C) = C
<1> DEFINE closed(D) == \A T \in S :
             Lo(T) = HullHi(C) \/ (\E U \in D : Lo(T) = Hi(U)) => T \in D
           R == {T \in S : \A D \in SUBSET S : closed(D) => T \in D}
<1>1. AddBoundary(S, C) = C \cup R
  BY DEF AddBoundary
<1>2. ASSUME Isolated(S, C) PROVE R \subseteq C
  <2>1. Tabs(C)
    BY DEF Tabs
  <2>2. PICK Q \in C : HullHi(C) = Hi(Q)
    BY <2>1, Hull
  <2>3. ASSUME NEW T \in S, NEW U \in C, Lo(T) = Hi(U) PROVE T \in C
    <3>1. Lo(T) \in Nat /\ Hi(T) \in Nat /\ Lo(T) <= Hi(T)
          /\ Lo(U) \in Nat /\ Hi(U) \in Nat /\ Lo(U) <= Hi(U)
      BY TabBounds
    <3>2. Overlaps(T, Lo(U), Hi(U))
      BY <2>3, <3>1 DEF Overlaps
    <3> QED
      BY <1>2, <3>2 DEF Isolated
  <2>4. closed(C)
    BY <2>2, <2>3
  <2> HIDE DEF closed
  <2> QED
    BY <2>4
<1> QED
  BY <1>1, <1>2

LEMMA BoundaryGapless ==
  ASSUME NEW S, NEW A, NEW C \in SUBSET S, Tabs(S), Tabs(A), C # {}, Gapless(A \cup C)
  PROVE  Gapless(A \cup AddBoundary(S, C))
<1> DEFINE end == HullHi(C)
           closed(D) == \A T \in S :
             Lo(T) = end \/ (\E U \in D : Lo(T) = Hi(U)) => T \in D
           R == {T \in S : \A D \in SUBSET S : closed(D) => T \in D}
<1>1. AddBoundary(S, C) = C \cup R
  BY DEF AddBoundary
<1>2. Tabs(C)
  BY DEF Tabs
<1>3. PICK Q \in C : end = Hi(Q) /\ \A T \in C : Hi(T) <= end
  BY <1>2, Hull
<1>4. end \in Nat /\ Lo(Q) \in Nat /\ Lo(Q) <= end
  BY <1>2, <1>3, TabBounds
<1>5. closed(R)
  OBVIOUS
<1>6. \A D \in SUBSET S : closed(D) => R \subseteq D
  OBVIOUS
<1>7. R \subseteq S
  OBVIOUS
<1> HIDE DEF R, end
<1> SUFFICES ASSUME NEW X \in A \cup C \cup R, NEW Y \in A \cup C \cup R, NEW k \in Nat,
                    Lo(X) <= k, k <= Hi(Y),
                    \A W \in A \cup C \cup R : ~Spans(W, k)
             PROVE  FALSE
  BY <1>1 DEF Gapless
<1>8. \A T \in A \cup C \cup R : /\ Lo(T) \in Nat /\ Hi(T) \in Nat /\ Lo(T) <= Hi(T)
                                /\ (Hi(T) < k \/ k < Lo(T))
  BY <1>7, <1>2, TabBounds DEF Spans, Tabs
<1>9. ASSUME k <= end PROVE FALSE
  <2> DEFINE E == {T \in R : end <= Lo(T)}
  <2>1. \A T \in S : Lo(T) = end => T \in E
    BY <1>4, <1>5
  <2>2. ASSUME NEW T \in S, NEW U \in E, Lo(T) = Hi(U) PROVE T \in E
    BY <1>4, <1>5, <1>8, <2>2
  <2>3. E \in SUBSET S
    BY <1>7
  <2>4. R \subseteq E
    <3>1. closed(E)
      <4> HIDE DEF E
      <4> QED
        BY <2>1, <2>2
    <3> HIDE DEF E, closed
    <3> QED
      BY <1>6, <2>3, <3>1
  <2>5. X \notin R
    <3>1. ASSUME X \in R PROVE k = end
      BY <1>4, <1>9, <2>4, <3>1, <1>8
    <3> QED
      BY <1>3, <1>4, <1>8, <3>1
  <2> QED
    BY <1>3, <1>9, <2>5 DEF Gapless, Spans
<1>10. ASSUME end < k PROVE FALSE
  <2> DEFINE E == {T \in R : Hi(T) < k}
  <2>1. \A T \in S : Lo(T) = end => T \in E
    BY <1>4, <1>5, <1>8, <1>10
  <2>2. ASSUME NEW T \in S, NEW U \in E, Lo(T) = Hi(U) PROVE T \in E
    BY <1>4, <1>5, <1>8, <2>2
  <2>3. E \in SUBSET S
    BY <1>7
  <2>4. R \subseteq E
    <3>1. closed(E)
      <4> HIDE DEF E
      <4> QED
        BY <2>1, <2>2
    <3> HIDE DEF E, closed
    <3> QED
      BY <1>6, <2>3, <3>1
  <2>5. Y \in A \cup C
    BY <2>4, <1>8
  <2>6. Lo(Q) <= k
    BY <1>4, <1>10
  <2> QED
    BY <1>3, <2>5, <2>6 DEF Gapless, Spans
<1> QED
  BY <1>4, <1>9, <1>10

\* VersionSet::SetupOtherInputs: what it takes of the next level is all that
\* meets the hull of what it takes of the first.
LEMMA InputsTaken ==
  ASSUME NEW S, NEW level \in Nat, NEW below, NEW picked \in SUBSET S, picked # {},
         Tabs(S), Tabs(below), level = 0 => Isolated(S, picked),
         NEW in \in Inputs(S, level, below, picked)
  PROVE  /\ in[1] \subseteq S /\ picked \subseteq in[1] /\ in[2] \subseteq below
         /\ \A V \in below \ in[2] : ~Overlaps(V, HullLo(in[1]), HullHi(in[1]))
         /\ level = 0 => Isolated(S, in[1])
         /\ Gapless(picked) => Gapless(in[1] \cup in[2])
<1> DEFINE in0 == AddBoundary(S, picked)
           in1 == {T \in below : Overlaps(T, HullLo(in0), HullHi(in0))}
           all == in0 \cup in1
           a == HullLo(all)
           b == HullHi(all)
           more == Overlapping(S, level, a, b)
           more0 == AddBoundary(S, more)
           more1 == {T \in below : Overlaps(T, HullLo(more0), HullHi(more0))}
<1>1. in \in {<<in0, in1>>, <<more0, more1>>}
  <2>1. level + 1 # 0
    OBVIOUS
  <2> QED
    BY <2>1 DEF Inputs, Overlapping
<1>2. picked \subseteq in0 /\ in0 \subseteq S /\ (level = 0 => in0 = picked)
  BY BoundaryKept
<1>3. in1 \subseteq below /\ in0 # {} /\ all # {}
  BY <1>2
<1> HIDE DEF in0
<1>4. Tabs(in0) /\ Tabs(in1) /\ Tabs(all)
  BY <1>2, <1>3 DEF Tabs
<1>5. /\ a \in Nat /\ b \in Nat
      /\ \E T \in all : a = Lo(T)
      /\ \E T \in all : b = Hi(T)
      /\ \A T \in all : a <= Lo(T) /\ Hi(T) <= b
  <2> HIDE DEF all
  <2> QED
    BY <1>3, <1>4, Hull
<1> HIDE DEF a, b
<1>6. more \subseteq S /\ in0 \subseteq more /\ (level = 0 => Isolated(S, more))
  <2>1. \A T \in in0 : Overlaps(T, a, b)
    <3> SUFFICES ASSUME NEW T \in in0 PROVE Overlaps(T, a, b)
      OBVIOUS
    <3>1. Lo(T) \in Nat /\ Hi(T) \in Nat /\ Lo(T) <= Hi(T)
      BY <1>4, TabBounds
    <3>2. a <= Lo(T) /\ Hi(T) <= b
      BY <1>5
    <3> QED
      BY <1>5, <3>1, <3>2 DEF Overlaps
  <2>2. CASE level = 0
    <3>1. more = OverlappingAt0(S, a, b)
      BY <2>2 DEF Overlapping
    <3> QED
      BY <1>2, <1>5, <2>1, <3>1, OverlappingAt0Closed
  <2>3. CASE level # 0
    BY <1>2, <2>1, <2>3 DEF Overlapping
  <2> QED
    BY <2>2, <2>3
<1>7. more # {}
  BY <1>3, <1>6
<1>8. more \subseteq more0 /\ more0 \subseteq S /\ (level = 0 => more0 = more)
  <2> HIDE DEF more
  <2> QED
    BY <1>6, <1>7, BoundaryKept
<1>9. ASSUME Gapless(picked) PROVE Gapless(in0 \cup in1) /\ Gapless(more0 \cup more1)
  <2>1. Gapless(in0)
    <3>1. Gapless({} \cup picked) /\ Tabs({})
      BY <1>9 DEF Tabs
    <3>2. Gapless({} \cup in0)
      BY <3>1, BoundaryGapless DEF in0
    <3> QED
      BY <3>2
  <2>2. Gapless(all)
    <3>1. PICK P \in in0 : HullLo(in0) = Lo(P)
      BY <1>3, <1>4, Hull
    <3>2. PICK Q \in in0 : HullHi(in0) = Hi(Q)
      BY <1>3, <1>4, Hull
    <3> QED
      BY <1>4, <2>1, <3>1, <3>2, GaplessGrow
  <2>3. PICK P \in all : a = Lo(P)
    BY <1>5
  <2>4. PICK Q \in all : b = Hi(Q)
    BY <1>5
  <2> HIDE DEF all
  <2>5. Gapless(all \cup more)
    <3>1. CASE level = 0
      <4>1. more = OverlappingAt0(S, Lo(P), Hi(Q))
        BY <2>3, <2>4, <3>1 DEF Overlapping
      <4> QED
        BY <1>4, <2>2, <4>1, OverlappingAt0Gapless
    <3>2. CASE level # 0
      <4>1. \A V \in more : Overlaps(V, Lo(P), Hi(Q))
        BY <2>3, <2>4, <3>2 DEF Overlapping
      <4>2. Tabs(more)
        BY <1>6 DEF Tabs
      <4> HIDE DEF more
      <4> QED
        BY <1>4, <2>2, <4>1, <4>2, GaplessGrow
    <3> QED
      BY <3>1, <3>2
  <2>6. Gapless(all \cup more0)
    <3> HIDE DEF more
    <3> QED
      BY <1>4, <1>6, <1>7, <2>5, BoundaryGapless
  <2> HIDE DEF more0
  <2>7. Tabs(all \cup more0) /\ more0 # {} /\ Tabs(more0) /\ Tabs(more1)
    BY <1>4, <1>7, <1>8 DEF Tabs
  <2>8. PICK P0 \in more0 : HullLo(more0) = Lo(P0)
    BY <2>7, Hull
  <2>9. PICK Q0 \in more0 : HullHi(more0) = Hi(Q0)
    BY <2>7, Hull
  <2>10. Gapless((all \cup more0) \cup more1)
    BY <2>6, <2>7, <2>8, <2>9, GaplessGrow
  <2>11. in1 \subseteq more1
    <3> SUFFICES ASSUME NEW V \in in1 PROVE Overlaps(V, HullLo(more0), HullHi(more0))
      BY <1>3
    <3>1. /\ HullLo(in0) \in Nat /\ HullHi(in0) \in Nat
          /\ HullLo(more0) \in Nat /\ HullHi(more0) \in Nat
          /\ HullLo(more0) <= HullLo(in0) /\ HullHi(in0) <= HullHi(more0)
      <4>1. PICK T \in in0 : HullLo(in0) = Lo(T)
        BY <1>3, <1>4, Hull
      <4>2. PICK U \in in0 : HullHi(in0) = Hi(U)
        BY <1>3, <1>4, Hull
      <4>3. T \in more0 /\ U \in more0
        BY <1>6, <1>8
      <4> QED
        BY <1>3, <1>4, <2>7, <4>1, <4>2, <4>3, Hull
    <3>2. Lo(V) \in Nat /\ Hi(V) \in Nat
      BY <1>4, TabBounds
    <3> QED
      BY <3>1, <3>2 DEF Overlaps
  <2>12. (all \cup more0) \cup more1 = more0 \cup more1
    BY <1>6, <1>8, <2>11 DEF all
  <2> QED
    BY <2>2, <2>10, <2>12 DEF all
<1>10. CASE in = <<in0, in1>>
  BY <1>2, <1>3, <1>9, <1>10
<1>11. CASE in = <<more0, more1>>
  <2>1. picked \subseteq more0
    BY <1>2, <1>6, <1>8
  <2>2. level = 0 => Isolated(S, more0)
    BY <1>6, <1>8
  <2> HIDE DEF more0
  <2> QED
    BY <1>8, <1>9, <1>11, <2>1, <2>2
<1> QED
  BY <1>1, <1>10, <1>11

------------------------------------------------------------------------------
(* Level 0.                                                                *)

\* The function that Without computes: it exists, since it does up to each
\* place of s.
LEMMA WithoutDefined ==
  ASSUME NEW A, NEW s \in Seq(A), NEW C
  PROVE  \E g : /\ g = [n \in 0 .. Len(s) |->
                          IF n = 0 THEN <<>>
                          ELSE IF s[n] \in C THEN g[n - 1] ELSE Append(g[n - 1], s[n])]
                /\ Without(s, C) = g[Len(s)]
<1> DEFINE IsRest(g, m) == g = [n \in 0 .. m |->
                          IF n = 0 THEN <<>>
                          ELSE IF s[n] \in C THEN g[n - 1] ELSE Append(g[n - 1], s[n])]
           rest[n \in 0 .. Len(s)] ==
                          IF n = 0 THEN <<>>
                          ELSE IF s[n] \in C THEN rest[n - 1] ELSE Append(rest[n - 1], s[n])
           Missing == {m \in Nat : ~\E g : IsRest(g, m)}
<1>1. Missing = {}
  <2> SUFFICES ASSUME Missing # {} PROVE FALSE
    OBVIOUS
  <2>1. PICK m \in Missing : \A n \in Missing : m <= n
    <3>1. Missing \in SUBSET Nat
      OBVIOUS
    <3> HIDE DEF Missing
    <3> QED
      BY <3>1, LeastElement
  <2>2. m # 0
    <3>1. IsRest([n \in 0 .. 0 |-> <<>>], 0)
      OBVIOUS
    <3> HIDE DEF IsRest
    <3> QED
      BY <3>1
  <2>3. m - 1 \in Nat /\ m - 1 \notin Missing
    <3>1. m \in Nat
      OBVIOUS
    <3> HIDE DEF Missing
    <3> QED
      BY <2>1, <2>2, <3>1
  <2>4. PICK g : IsRest(g, m - 1)
    BY <2>3
  <2> DEFINE h == [n \in 0 .. m |->
                     IF n < m THEN g[n]
                     ELSE IF s[m] \in C THEN g[m - 1] ELSE Append(g[m - 1], s[m])]
  <2>5. ASSUME NEW n \in 0 .. m
        PROVE  h[n] = IF n = 0 THEN <<>>
                      ELSE IF s[n] \in C THEN h[n - 1] ELSE Append(h[n - 1], s[n])
    <3>1. CASE n = m
      BY <2>2, <2>3, <3>1
    <3>2. CASE n < m
      <4>1. n \in 0 .. m - 1 /\ (n # 0 => n - 1 \in 0 .. m - 1 /\ n - 1 \in 0 .. m /\ n - 1 < m)
        BY <2>3, <3>2
      <4>2. g[n] = IF n = 0 THEN <<>>
                   ELSE IF s[n] \in C THEN g[n - 1] ELSE Append(g[n - 1], s[n])
        BY <2>4, <4>1
      <4>3. h[n] = g[n] /\ (n # 0 => h[n - 1] = g[n - 1])
        BY <3>2, <4>1
      <4> HIDE DEF h
      <4> QED
        BY <4>2, <4>3
    <3> QED
      BY <3>1, <3>2
  <2>6. IsRest(h, m)
    <3>1. h = [n \in 0 .. m |-> h[n]]
      OBVIOUS
    <3> HIDE DEF h
    <3> QED
      BY <2>5, <3>1
  <2> HIDE DEF IsRest, h
  <2> QED
    BY <2>1, <2>6
<1>2. Len(s) \in Nat
  OBVIOUS
<1>3. PICK f : IsRest(f, Len(s))
  BY <1>1, <1>2
<1>4. Without(s, C) = rest[Len(s)]
  BY DEF Without
<1>5. rest = [n \in 0 .. Len(s) |->
                IF n = 0 THEN <<>>
                ELSE IF s[n] \in C THEN rest[n - 1] ELSE Append(rest[n - 1], s[n])]
  BY <1>3
<1> QED
  BY <1>4, <1>5

\* The sequence w is the first n elements of s without those of C.
Filters(w, s, n, C) ==
  /\ \A i \in 1 .. Len(w) : w[i] \notin C /\ \E m \in 1 .. n : w[i] = s[m]
  /\ \A m \in 1 .. n : s[m] \in C \/ \E i \in 1 .. Len(w) : w[i] = s[m]
  /\ \A i, j \in 1 .. Len(w) : i < j =>
       \E l, m \in 1 .. n : l < m /\ w[i] = s[l] /\ w[j] = s[m]

LEMMA FiltersStep ==
  ASSUME NEW A, NEW s, NEW C, NEW n \in Nat \ {0}, NEW p \in Seq(A), s[n] \in A,
         Filters(p, s, n - 1, C)
  PROVE  LET w == IF s[n] \in C THEN p ELSE Append(p, s[n])
         IN  w \in Seq(A) /\ Filters(w, s, n, C)
<1>1. /\ \A m \in 1 .. n : m \in 1 .. n - 1 \/ m = n
      /\ \A m \in 1 .. n - 1 : m \in 1 .. n /\ m < n
      /\ n \in 1 .. n
  OBVIOUS
<1> DEFINE k == Len(p)
           before == 1 .. n - 1
<1>2. /\ \A i \in 1 .. k : p[i] \notin C /\ \E m \in before : p[i] = s[m]
      /\ \A m \in before : s[m] \in C \/ \E i \in 1 .. k : p[i] = s[m]
      /\ \A i, j \in 1 .. k : i < j =>
           \E l, m \in before : l < m /\ p[i] = s[l] /\ p[j] = s[m]
  BY DEF Filters
<1>3. CASE s[n] \in C
  <2> HIDE DEF before
  <2>1. /\ \A i \in 1 .. k : p[i] \notin C /\ \E m \in 1 .. n : p[i] = s[m]
        /\ \A m \in 1 .. n : s[m] \in C \/ \E i \in 1 .. k : p[i] = s[m]
        /\ \A i, j \in 1 .. k : i < j =>
             \E l, m \in 1 .. n : l < m /\ p[i] = s[l] /\ p[j] = s[m]
    <3> HIDE DEF k
    <3>1. \A m \in before : m \in 1 .. n
      BY <1>1 DEF before
    <3>2. \A m \in 1 .. n : m \in before \/ m = n
      BY <1>1 DEF before
    <3>3. \A i \in 1 .. k : p[i] \notin C /\ \E m \in 1 .. n : p[i] = s[m]
      BY <1>2, <3>1
    <3>4. \A m \in 1 .. n : s[m] \in C \/ \E i \in 1 .. k : p[i] = s[m]
      BY <1>2, <1>3, <3>2
    <3>5. ASSUME NEW i \in 1 .. k, NEW j \in 1 .. k, i < j
          PROVE  \E l, m \in 1 .. n : l < m /\ p[i] = s[l] /\ p[j] = s[m]
      <4>1. \E l, m \in before : l < m /\ p[i] = s[l] /\ p[j] = s[m]
        BY <1>2, <3>5, Zenon
      <4>2. PICK l, m \in before : l < m /\ p[i] = s[l] /\ p[j] = s[m]
        BY <4>1, Zenon
      <4> QED
        BY <3>1, <4>2, Zenon
    <3> QED
      BY <3>3, <3>4, <3>5
  <2> QED
    BY <1>3, <2>1 DEF Filters
<1>4. CASE s[n] \notin C
  <2> DEFINE q == Append(p, s[n])
  <2>1. k \in Nat /\ q \in Seq(A) /\ Len(q) = k + 1 /\ q[k + 1] = s[n]
        /\ \A i \in 1 .. k : q[i] = p[i]
    OBVIOUS
  <2> HIDE DEF q, k, before
  <2>2. /\ \A i \in 1 .. k + 1 : i \in 1 .. k \/ (i = k + 1 /\ i \notin 1 .. k)
        /\ k + 1 \in 1 .. k + 1 /\ \A i \in 1 .. k : i \in 1 .. k + 1 /\ i < k + 1
        /\ \A i, j \in 1 .. k + 1 : i < j => i \in 1 .. k
    BY <2>1
  <2>3. \A m \in 1 .. n : m \in before \/ m = n
    BY <1>1 DEF before
  <2>4. \A m \in before : m \in 1 .. n /\ m < n
    BY <1>1 DEF before
  <2>5. ASSUME NEW i \in 1 .. k + 1
        PROVE  q[i] \notin C /\ \E m \in 1 .. n : q[i] = s[m]
    <3>1. CASE i \in 1 .. k
      <4>1. q[i] = p[i] /\ p[i] \notin C
        BY <1>2, <2>1, <3>1
      <4>2. PICK m \in before : p[i] = s[m]
        BY <1>2, <3>1
      <4> QED
        BY <2>4, <4>1, <4>2
    <3>2. CASE i = k + 1
      BY <1>1, <1>4, <2>1, <3>2
    <3> QED
      BY <2>2, <3>1, <3>2
  <2>6. ASSUME NEW m \in 1 .. n
        PROVE  s[m] \in C \/ \E i \in 1 .. k + 1 : q[i] = s[m]
    BY <1>2, <2>1, <2>2, <2>3
  <2>7. ASSUME NEW i \in 1 .. k + 1, NEW j \in 1 .. k + 1, i < j
        PROVE  \E l, m \in 1 .. n : l < m /\ q[i] = s[l] /\ q[j] = s[m]
    <3>1. i \in 1 .. k /\ q[i] = p[i]
      BY <2>1, <2>2, <2>7
    <3>2. CASE j \in 1 .. k
      <4>1. q[j] = p[j]
        BY <2>1, <3>2
      <4>2. PICK l \in before, m \in before : l < m /\ p[i] = s[l] /\ p[j] = s[m]
        BY <1>2, <2>7, <3>1, <3>2
      <4> QED
        BY <2>4, <3>1, <4>1, <4>2
    <3>3. CASE j = k + 1
      <4>1. PICK l \in before : p[i] = s[l]
        BY <1>2, <3>1
      <4>2. l \in 1 .. n /\ l < n /\ n \in 1 .. n
        BY <1>1, <2>4
      <4>3. q[j] = s[n] /\ q[i] = s[l]
        BY <2>1, <3>1, <3>3, <4>1
      <4> QED
        BY <4>2, <4>3
    <3> QED
      BY <2>2, <3>2, <3>3
  <2>8. Filters(q, s, n, C)
    BY <2>1, <2>5, <2>6, <2>7 DEF Filters
  <2> QED
    BY <1>4, <2>1, <2>8 DEF q
<1> QED
  BY <1>3, <1>4

\* The edit of a version keeps the other tables, and their order.
LEMMA WithoutKeeps ==
  ASSUME NEW A, NEW s \in Seq(A), NEW C
  PROVE  Without(s, C) \in Seq(A) /\ Filters(Without(s, C), s, Len(s), C)
<1>1. PICK g : /\ g = [n \in 0 .. Len(s) |->
                        IF n = 0 THEN <<>>
                        ELSE IF s[n] \in C THEN g[n - 1] ELSE Append(g[n - 1], s[n])]
               /\ Without(s, C) = g[Len(s)]
  BY WithoutDefined
<1>2. \A n \in 0 .. Len(s) :
        g[n] = IF n = 0 THEN <<>>
               ELSE IF s[n] \in C THEN g[n - 1] ELSE Append(g[n - 1], s[n])
  BY <1>1
<1> DEFINE N == Len(s)
           Good(n) == g[n] \in Seq(A) /\ Filters(g[n], s, n, C)
           Bad == {n \in 0 .. N : ~Good(n)}
<1>3. N \in Nat /\ \A n \in 1 .. N : s[n] \in A
  OBVIOUS
<1> HIDE DEF N
<1>4. Good(0)
  <2>1. g[0] = <<>>
    BY <1>2, <1>3 DEF N
  <2>2. <<>> \in Seq(A) /\ Filters(<<>>, s, 0, C)
    BY DEF Filters
  <2>3. g[0] \in Seq(A)
    BY <2>1, <2>2
  <2>4. Filters(g[0], s, 0, C)
    BY <2>1, <2>2
  <2> QED
    BY <2>3, <2>4
<1>5. ASSUME NEW n \in 1 .. N, Good(n - 1) PROVE Good(n)
  <2>1. n \in Nat \ {0} /\ n \in 0 .. N /\ s[n] \in A
    BY <1>3
  <2>2. g[n] = IF s[n] \in C THEN g[n - 1] ELSE Append(g[n - 1], s[n])
    BY <1>2, <2>1 DEF N
  <2>3. g[n - 1] \in Seq(A) /\ Filters(g[n - 1], s, n - 1, C)
    BY <1>5
  <2> DEFINE p == g[n - 1]
             w == IF s[n] \in C THEN p ELSE Append(p, s[n])
  <2>4. g[n] = w /\ p \in Seq(A) /\ Filters(p, s, n - 1, C)
    BY <2>2, <2>3
  <2> HIDE DEF p
  <2>5. w \in Seq(A) /\ Filters(w, s, n, C)
    BY <2>1, <2>4, FiltersStep
  <2> HIDE DEF w
  <2> QED
    BY <2>4, <2>5
<1> HIDE DEF Good
<1>6. Bad = {}
  <2> SUFFICES ASSUME Bad # {} PROVE FALSE
    OBVIOUS
  <2>1. Bad \in SUBSET Nat
    BY <1>3
  <2>2. PICK m \in Bad : \A n \in Bad : m <= n
    <3> HIDE DEF Bad
    <3> QED
      BY <2>1, LeastElement
  <2>3. m \in 0 .. N /\ ~Good(m)
    OBVIOUS
  <2>4. m \in 1 .. N /\ m - 1 \in 0 .. N
    BY <1>3, <1>4, <2>3
  <2>5. Good(m - 1)
    <3>1. m - 1 \notin Bad
      <4> HIDE DEF Bad
      <4> QED
        BY <2>2, <2>3, <1>3
    <3> QED
      BY <2>4, <3>1
  <2> QED
    BY <1>5, <2>3, <2>4, <2>5
<1>7. N \in 0 .. N
  BY <1>3
<1>8. Good(N)
  BY <1>6, <1>7
<1> QED
  BY <1>1, <1>8 DEF Good, N

------------------------------------------------------------------------------
(* The outputs of a compaction.                                            *)

LEMMA NewestIn ==
  ASSUME NEW G, \A e \in G : EntryLike(e), G # {}
  PROVE  Newest(G) \in G
<1> DEFINE Q == {e.seq : e \in G}
<1>1. MaxSeq \in Nat /\ \A e \in G : e.seq \in Nat /\ e.seq <= MaxSeq
  BY KeysAssumption DEF EntryLike, Seqs
<1>2. Q \in SUBSET Nat /\ Q # {} /\ \A q \in Q : q <= MaxSeq
  BY <1>1
<1>3. PICK n \in Q : \A q \in Q : q <= n
  <2> HIDE DEF Q
  <2> QED
    BY <1>1, <1>2, GreatestElement
<1>4. PICK e \in G : e.seq = n
  OBVIOUS
<1>5. \A x \in G : x.seq <= e.seq
  BY <1>3, <1>4
<1> QED
  BY <1>5 DEF Newest

\* e stands for one of the entries of G.
StandsFor(e, G) == EntryLike(e) /\ \E x \in G : x.key = e.key /\ x.seq = e.seq

LEMMA Retyped ==
  ASSUME NEW G, NEW e \in G, EntryLike(e), NEW t \in EntryType, NEW v
  PROVE  /\ StandsFor([e EXCEPT !.type = t, !.val = v], G)
         /\ StandsFor([e EXCEPT !.val = v], G)
<1>1. e \in [key : {e.key}, seq : {e.seq}, type : {e.type}, val : {e.val}]
  BY DEF EntryLike
<1>2. /\ [e EXCEPT !.type = t, !.val = v]
           \in [key : {e.key}, seq : {e.seq}, type : {t}, val : {v}]
      /\ [e EXCEPT !.val = v] \in [key : {e.key}, seq : {e.seq}, type : {e.type}, val : {v}]
  BY <1>1
<1>3. ASSUME NEW u \in EntryType,
             NEW x \in [key : {e.key}, seq : {e.seq}, type : {u}, val : {v}]
      PROVE  StandsFor(x, G)
  BY DEF StandsFor, EntryLike
<1>4. e.type \in EntryType
  BY DEF EntryLike
<1> QED
  BY <1>2, <1>3, <1>4

LEMMA StripeStandsFor ==
  ASSUME NEW G, \A e \in G : EntryLike(e), G # {}, NEW T, NEW bound, NEW oldest,
         NEW older \in BOOLEAN, NEW base \in BOOLEAN, NEW folds \in BOOLEAN
  PROVE  \A x \in CompactStripe(G, T, bound, oldest, older, base, folds) : StandsFor(x, G)
<1> DEFINE gone    == {e \in G : e.type = "deletion" \/ HiddenInStripe(e, T, bound)}
           settles == gone \cup {e \in G : e.type = "value"}
           settle  == Newest(settles)
           ops     == {e \in G : \A s \in settles : s.seq < e.seq}
           kept    == IF settle \in gone
                      THEN {[settle EXCEPT !.type = "deletion", !.val = <<>>]}
                      ELSE {settle}
           R == CompactStripe(G, T, bound, oldest, older, base, folds)
<1>1. R = CASE settles # {} /\ ops = {} ->
                  IF settle \in gone /\ bound = oldest /\ base THEN {} ELSE kept
            [] settles # {} /\ ops # {} ->
                  {[Newest(G) EXCEPT !.type = "value", !.val = Folded(ops \cup kept)]}
            [] settles = {} /\ ~older /\ base ->
                  {[Newest(G) EXCEPT !.type = "value", !.val = Folded(ops)]}
            [] settles = {} /\ (older \/ ~base) ->
                  IF folds /\ Cardinality(ops) > 1
                  THEN {[Newest(G) EXCEPT !.val = Folded(ops)]}
                  ELSE ops
  BY DEF CompactStripe
<1>2. ops \subseteq G /\ settles \subseteq G /\ "value" \in EntryType /\ "deletion" \in EntryType
  BY DEF EntryType
<1>3. Newest(G) \in G /\ EntryLike(Newest(G))
  BY NewestIn
<1>4. settles # {} => settle \in G /\ EntryLike(settle)
  <2> HIDE DEF settles
  <2> QED
    BY <1>2, NewestIn
<1> HIDE DEF R, ops, settles, gone, settle
<1>5. settles # {} => \A x \in kept : StandsFor(x, G)
  <2>1. StandsFor([settle EXCEPT !.type = "deletion", !.val = <<>>], G) \/ settles = {}
    BY <1>2, <1>4, Retyped
  <2>2. StandsFor(settle, G) \/ settles = {}
    BY <1>4 DEF StandsFor
  <2> QED
    BY <2>1, <2>2
<1> HIDE DEF kept
<1>6. CASE settles # {} /\ ops = {}
  <2>1. R = IF settle \in gone /\ bound = oldest /\ base THEN {} ELSE kept
    BY <1>1, <1>6
  <2> QED
    BY <1>5, <1>6, <2>1 DEF R
<1>7. CASE settles # {} /\ ops # {}
  <2>1. R = {[Newest(G) EXCEPT !.type = "value", !.val = Folded(ops \cup kept)]}
    BY <1>1, <1>7
  <2>2. StandsFor([Newest(G) EXCEPT !.type = "value", !.val = Folded(ops \cup kept)], G)
    BY <1>2, <1>3, Retyped
  <2> QED
    BY <2>1, <2>2 DEF R
<1>8. CASE settles = {} /\ ~older /\ base
  <2>1. R = {[Newest(G) EXCEPT !.type = "value", !.val = Folded(ops)]}
    BY <1>1, <1>8
  <2>2. StandsFor([Newest(G) EXCEPT !.type = "value", !.val = Folded(ops)], G)
    BY <1>2, <1>3, Retyped
  <2> QED
    BY <2>1, <2>2 DEF R
<1>9. CASE settles = {} /\ (older \/ ~base)
  <2>1. R = IF folds /\ Cardinality(ops) > 1
            THEN {[Newest(G) EXCEPT !.val = Folded(ops)]}
            ELSE ops
    BY <1>1, <1>9
  <2>2. "value" \in EntryType
    BY DEF EntryType
  <2>3. StandsFor([Newest(G) EXCEPT !.val = Folded(ops)], G)
    BY <1>3, <2>2, Retyped
  <2>4. \A x \in ops : StandsFor(x, G)
    BY <1>2 DEF StandsFor
  <2> QED
    BY <2>1, <2>3, <2>4 DEF R
<1> QED
  BY <1>6, <1>7, <1>8, <1>9

\* What comes out stands for what went in.
LEMMA EntriesStandFor ==
  ASSUME NEW E, \A e \in E : EntryLike(e), NEW T, NEW snaps, NEW deeper, NEW folds \in BOOLEAN
  PROVE  \A x \in CompactEntries(E, T, snaps, deeper, folds) : StandsFor(x, E)
<1> SUFFICES ASSUME NEW x \in CompactEntries(E, T, snaps, deeper, folds)
             PROVE  StandsFor(x, E)
  OBVIOUS
<1>1. PICK k \in {e.key : e \in E} :
        x \in CompactKey({e \in E : e.key = k}, T, snaps, BaseForKey(deeper, k), folds)
  BY DEF CompactEntries
<1> DEFINE G == {e \in E : e.key = k}
           base == BaseForKey(deeper, k)
           mine(b) == {e \in G : StripeOf(e.seq, snaps) = b}
           older(b) == \E e \in G : StripeOf(e.seq, snaps) < b
<1>2. PICK b \in Stripes(snaps) :
        /\ mine(b) # {}
        /\ x \in CompactStripe(mine(b), T, b, OldestStripe(snaps), older(b), base, folds)
  BY <1>1 DEF CompactKey
<1>3. older(b) \in BOOLEAN /\ base \in BOOLEAN /\ \A e \in mine(b) : e \in E
  BY DEF BaseForKey
<1> HIDE DEF mine, older, base
<1>4. StandsFor(x, mine(b))
  BY <1>2, <1>3, StripeStandsFor
<1> QED
  BY <1>3, <1>4 DEF StandsFor

\* The table O holds nothing but what those of ins hold.
MadeOf(O, ins) ==
  /\ \A e \in O.entries : \E U \in ins : \E x \in U.entries : x.key = e.key /\ x.seq = e.seq
  /\ \A t \in O.tombs : \E U \in ins : \E u \in U.tombs :
       u.begin <= t.begin /\ t.end <= u.end /\ u.seq = t.seq

LEMMA MadeHolds ==
  ASSUME NEW O, NEW ins, Sound(O), \A U \in ins : Sound(U), MadeOf(O, ins),
         NEW k \in Nat, NEW s, Holds(O, k, s)
  PROVE  \E U \in ins : Holds(U, k, s)
<1>1. CASE \E e \in O.entries : e.key = k /\ e.seq = s
  BY <1>1 DEF MadeOf, Holds
<1>2. CASE \E t \in O.tombs : Covers(t, k) /\ t.seq = s
  <2>1. PICK t \in O.tombs : Covers(t, k) /\ t.seq = s
    BY <1>2
  <2>2. PICK U \in ins : \E u \in U.tombs :
          u.begin <= t.begin /\ t.end <= u.end /\ u.seq = t.seq
    BY DEF MadeOf
  <2>3. PICK u \in U.tombs : u.begin <= t.begin /\ t.end <= u.end /\ u.seq = t.seq
    BY <2>2
  <2>4. t.begin \in Nat /\ t.end \in Nat /\ u.begin \in Nat /\ u.end \in Nat
    BY KeysAssumption DEF Sound, Tombstone, Keys
  <2>5. Covers(u, k)
    BY <2>1, <2>3, <2>4 DEF Covers
  <2> QED
    BY <2>1, <2>3, <2>5 DEF Holds
<1> QED
  BY <1>1, <1>2 DEF Holds

\* It lies in their bounds: what is beside all of them is beside it.
LEMMA MadeBeside ==
  ASSUME NEW O, NEW ins, Sound(O), O # Empty, Tabs(ins), MadeOf(O, ins),
         NEW V, Sound(V), V # Empty
  PROVE  /\ (\A U \in ins : Precedes(V, U)) => Precedes(V, O)
         /\ (\A U \in ins : Precedes(U, V)) => Precedes(O, V)
<1>1. /\ Lo(O) \in Nat /\ Hi(O) \in Nat /\ Lo(O) <= Hi(O)
      /\ Lo(V) \in Nat /\ Hi(V) \in Nat /\ Lo(V) <= Hi(V)
      /\ \A U \in ins : Lo(U) \in Nat /\ Hi(U) \in Nat /\ Lo(U) <= Hi(U)
  BY Bounds DEF Tabs
<1>2. \E U \in ins : Lo(U) <= Lo(O)
  <2>1. CASE \E e \in O.entries : Lo(O) = e.key
    <3>1. PICK e \in O.entries : Lo(O) = e.key
      BY <2>1
    <3>2. PICK U \in ins : \E x \in U.entries : x.key = e.key
      BY DEF MadeOf
    <3> QED
      BY <3>1, <3>2, Bounds DEF Tabs
  <2>2. CASE \E t \in O.tombs : Lo(O) = t.begin
    <3>1. PICK t \in O.tombs : Lo(O) = t.begin
      BY <2>2
    <3>2. PICK U \in ins : \E u \in U.tombs : u.begin <= t.begin
      BY DEF MadeOf
    <3>3. PICK u \in U.tombs : u.begin <= t.begin
      BY <3>2
    <3>4. Lo(U) <= u.begin
      BY Bounds DEF Tabs
    <3>5. u.begin \in Nat
      BY KeysAssumption DEF Tabs, Sound, Tombstone, Keys
    <3> QED
      BY <1>1, <3>1, <3>3, <3>4, <3>5
  <2> QED
    BY <2>1, <2>2, Bounds
<1>3. ASSUME NEW e \in O.entries
      PROVE  e.key \in Nat /\ \E U \in ins : e.key <= Hi(U) /\ (Open(U) => e.key < Hi(U))
  <2>1. PICK U \in ins : \E x \in U.entries : x.key = e.key
    BY DEF MadeOf
  <2>2. e.key \in KeysIn(U) /\ e.key <= Hi(U)
    BY <2>1, Bounds DEF Tabs, KeysIn
  <2>3. e.key \in Nat
    BY KeysAssumption DEF Sound, EntryLike, Keys
  <2> QED
    BY <1>1, <2>2, <2>3 DEF Open
<1>4. \E U \in ins : Hi(O) <= Hi(U)
  <2>1. CASE \E e \in O.entries : Hi(O) = e.key
    BY <1>3, <2>1
  <2>2. CASE \E t \in O.tombs : Hi(O) = t.end
    <3>1. PICK t \in O.tombs : Hi(O) = t.end
      BY <2>2
    <3>2. PICK U \in ins : \E u \in U.tombs : t.end <= u.end
      BY DEF MadeOf
    <3>3. PICK u \in U.tombs : t.end <= u.end
      BY <3>2
    <3>4. u.end <= Hi(U)
      BY Bounds DEF Tabs
    <3>5. u.end \in Nat
      BY KeysAssumption DEF Tabs, Sound, Tombstone
    <3> QED
      BY <1>1, <3>1, <3>3, <3>4, <3>5
  <2> QED
    BY <2>1, <2>2, Bounds
<1>5. ASSUME \A U \in ins : Precedes(V, U) PROVE Precedes(V, O)
  <2>1. PICK U \in ins : Lo(U) <= Lo(O)
    BY <1>2
  <2>2. Precedes(V, U)
    BY <1>5
  <2> QED
    BY <1>1, <2>1, <2>2 DEF Precedes
<1>6. ASSUME \A U \in ins : Precedes(U, V) PROVE Precedes(O, V)
  <2>1. Hi(O) <= Lo(V)
    <3>1. PICK U \in ins : Hi(O) <= Hi(U)
      BY <1>4
    <3>2. Precedes(U, V)
      BY <1>6
    <3> QED
      BY <1>1, <3>1, <3>2 DEF Precedes
  <2>2. ASSUME Hi(O) = Lo(V) PROVE Open(O)
    <3>1. \A e \in O.entries : e.key # Hi(O)
      BY <1>1, <1>3, <1>6, <2>2 DEF Precedes
    <3> QED
      BY <3>1 DEF Open, KeysIn
  <2> QED
    BY <1>1, <2>1, <2>2 DEF Precedes
<1> QED
  BY <1>5, <1>6

LEMMA Pair ==
  ASSUME NEW x \in Nat, NEW y \in Nat
  PROVE  /\ Max({x, y}) \in Nat /\ x <= Max({x, y}) /\ y <= Max({x, y})
         /\ Max({x, y}) = x \/ Max({x, y}) = y
         /\ Min({x, y}) \in Nat /\ Min({x, y}) <= x /\ Min({x, y}) <= y
         /\ Min({x, y}) = x \/ Min({x, y}) = y
<1>1. \E z \in {x, y} : \A w \in {x, y} : z >= w
  OBVIOUS
<1>2. \E z \in {x, y} : \A w \in {x, y} : z <= w
  OBVIOUS
<1>3. Max({x, y}) \in {x, y} /\ \A w \in {x, y} : Max({x, y}) >= w
  BY <1>1 DEF Max
<1>4. Min({x, y}) \in {x, y} /\ \A w \in {x, y} : Min({x, y}) <= w
  BY <1>2 DEF Min
<1> QED
  BY <1>3, <1>4

\* A part ends where the next one starts, at the latest.
LEMMA PartEnds ==
  ASSUME NEW cuts \in SUBSET Nat, NEW a \in Nat
  PROVE  PartEnd(a, cuts) \in Nat /\ \A c \in cuts : a < c => PartEnd(a, cuts) <= c
<1> DEFINE S == {c \in cuts : a < c} \cup {KeyEnd}
<1>1. S \in SUBSET Nat /\ S # {}
  <2>1. KeyEnd \in Nat
    BY KeysAssumption DEF KeyEnd
  <2> QED
    BY <2>1
<1>2. PartEnd(a, cuts) = Min(S)
  BY DEF PartEnd
<1>3. \A c \in cuts : a < c => c \in S
  OBVIOUS
<1> HIDE DEF S
<1>4. \E n \in S : \A m \in S : n <= m
  BY <1>1, LeastElement
<1>5. Min(S) \in S /\ \A m \in S : Min(S) <= m
  BY <1>4 DEF Min
<1> QED
  BY <1>1, <1>2, <1>3, <1>5

\* FinishCompactionOutputFile: tombstones cut to [a, b) are parts of them.
LEMMA ClippedParts ==
  ASSUME NEW T \in SUBSET Tombstone, NEW a \in Nat, NEW b \in Nat
  PROVE  /\ Clipped(T, a, b) \subseteq Tombstone
         /\ \A t \in Clipped(T, a, b) :
              /\ t.begin < t.end /\ a <= t.begin /\ t.end <= b
              /\ \E u \in T : u.begin <= t.begin /\ t.end <= u.end /\ u.seq = t.seq
<1>1. SUFFICES ASSUME NEW t \in Clipped(T, a, b)
               PROVE  /\ t \in Tombstone
                      /\ t.begin < t.end /\ a <= t.begin /\ t.end <= b
                      /\ \E u \in T : u.begin <= t.begin /\ t.end <= u.end /\ u.seq = t.seq
  OBVIOUS
<1>2. PICK u \in T : /\ Max({u.begin, a}) < Min({u.end, b})
                     /\ t = [begin |-> Max({u.begin, a}), end |-> Min({u.end, b}), seq |-> u.seq]
  BY DEF Clipped
<1>3. u.begin \in Keys /\ u.end \in 2 .. NKeys + 1 /\ u.seq \in Seqs
  BY DEF Tombstone
<1>4. u.begin \in Nat /\ u.end \in Nat /\ 1 <= u.begin /\ u.end <= NKeys + 1 /\ NKeys \in Nat
  BY <1>3, KeysAssumption DEF Keys
<1>5. /\ t.begin \in Nat /\ u.begin <= t.begin /\ a <= t.begin
      /\ t.end \in Nat /\ t.end <= u.end /\ t.end <= b
      /\ t.begin < t.end /\ t.seq = u.seq
  BY <1>2, <1>4, Pair
<1>6. t.begin \in Keys /\ t.end \in 2 .. NKeys + 1
  BY <1>4, <1>5 DEF Keys
<1>7. t \in Tombstone
  BY <1>2, <1>3, <1>5, <1>6 DEF Tombstone
<1> QED
  BY <1>5, <1>7

\* Each output is a table made of the inputs.
LEMMA OutputsMade ==
  ASSUME NEW ins, Tabs(ins), NEW E, \A x \in E : StandsFor(x, UNION {T.entries : T \in ins}),
         NEW kept \in SUBSET (UNION {T.tombs : T \in ins}), NEW cuts \in SUBSET Nat
  PROVE  \A O \in Outputs(E, kept, cuts) : Sound(O) /\ O # Empty /\ MadeOf(O, ins)
<1> SUFFICES ASSUME NEW O \in Outputs(E, kept, cuts)
             PROVE  Sound(O) /\ O # Empty /\ MadeOf(O, ins)
  OBVIOUS
<1>1. PICK a \in cuts \cup {0} : O = Part(E, kept, a, PartEnd(a, cuts))
  BY DEF Outputs
<1>2. O # Empty
  BY DEF Outputs
<1> DEFINE b == PartEnd(a, cuts)
<1>3. a \in Nat /\ b \in Nat
  BY PartEnds
<1> HIDE DEF b
<1>4. O = [entries |-> {e \in E : a <= e.key /\ e.key < b}, tombs |-> Clipped(kept, a, b)]
  BY <1>1 DEF Part, b
<1>5. kept \in SUBSET Tombstone
  BY DEF Tabs, Sound
<1>6. /\ O.tombs \subseteq Tombstone
      /\ \A t \in O.tombs : t.begin < t.end
      /\ \A t \in O.tombs :
           \E u \in kept : u.begin <= t.begin /\ t.end <= u.end /\ u.seq = t.seq
  BY <1>3, <1>4, <1>5, ClippedParts
<1>7. \A e \in O.entries : StandsFor(e, UNION {T.entries : T \in ins})
  BY <1>4
<1>8. Sound(O)
  BY <1>4, <1>6, <1>7 DEF Sound, StandsFor
<1>9. ASSUME NEW e \in O.entries
      PROVE  \E U \in ins : \E x \in U.entries : x.key = e.key /\ x.seq = e.seq
  BY <1>7 DEF StandsFor
<1>10. ASSUME NEW t \in O.tombs
       PROVE  \E U \in ins : \E u \in U.tombs :
                u.begin <= t.begin /\ t.end <= u.end /\ u.seq = t.seq
  <2>1. PICK u \in kept : u.begin <= t.begin /\ t.end <= u.end /\ u.seq = t.seq
    BY <1>6
  <2>2. PICK U \in ins : u \in U.tombs
    OBVIOUS
  <2> QED
    BY <2>1, <2>2
<1> QED
  BY <1>2, <1>8, <1>9, <1>10 DEF MadeOf

\* The outputs follow one another.
LEMMA PartsInOrder ==
  ASSUME NEW E, NEW kept \in SUBSET Tombstone, NEW cuts \in SUBSET Nat,
         NEW a \in Nat, NEW b \in cuts, a < b,
         NEW O, O = Part(E, kept, a, PartEnd(a, cuts)), Sound(O), O # Empty,
         NEW P, P = Part(E, kept, b, PartEnd(b, cuts)), Sound(P), P # Empty
  PROVE  Precedes(O, P)
<1> DEFINE m == PartEnd(a, cuts)
           n == PartEnd(b, cuts)
<1>1. m \in Nat /\ m <= b /\ n \in Nat /\ b \in Nat
  BY PartEnds
<1> HIDE DEF m, n
<1>2. /\ O = [entries |-> {e \in E : a <= e.key /\ e.key < m}, tombs |-> Clipped(kept, a, m)]
      /\ P = [entries |-> {e \in E : b <= e.key /\ e.key < n}, tombs |-> Clipped(kept, b, n)]
  BY DEF Part, m, n
<1>3. /\ \A e \in O.entries : e.key < m /\ e.key \in Nat
      /\ \A t \in O.tombs : t.end <= m
  BY <1>1, <1>2, ClippedParts, KeysAssumption DEF Sound, EntryLike, Keys
<1>4. /\ \A e \in P.entries : b <= e.key
      /\ \A t \in P.tombs : b <= t.begin
  BY <1>1, <1>2, ClippedParts
<1>5. Lo(P) \in Nat /\ b <= Lo(P)
  BY <1>4, Bounds
<1>6. Hi(O) \in Nat /\ Hi(O) <= m
  BY <1>1, <1>3, Bounds
<1>7. Hi(O) = b => Open(O)
  BY <1>1, <1>3 DEF Open, KeysIn
<1> QED
  BY <1>1, <1>5, <1>6, <1>7 DEF Precedes

LEMMA OutputsApart ==
  ASSUME NEW ins, Tabs(ins), NEW E, \A x \in E : StandsFor(x, UNION {T.entries : T \in ins}),
         NEW kept \in SUBSET (UNION {T.tombs : T \in ins}), NEW cuts \in SUBSET Nat
  PROVE  \A O, P \in Outputs(E, kept, cuts) : O # P => Precedes(O, P) \/ Precedes(P, O)
<1> SUFFICES ASSUME NEW O \in Outputs(E, kept, cuts), NEW P \in Outputs(E, kept, cuts), O # P
             PROVE  Precedes(O, P) \/ Precedes(P, O)
  OBVIOUS
<1>1. Sound(O) /\ O # Empty /\ Sound(P) /\ P # Empty
  BY OutputsMade
<1>2. kept \in SUBSET Tombstone
  BY DEF Tabs, Sound
<1>3. PICK a \in cuts \cup {0} : O = Part(E, kept, a, PartEnd(a, cuts))
  BY DEF Outputs
<1>4. PICK b \in cuts \cup {0} : P = Part(E, kept, b, PartEnd(b, cuts))
  BY DEF Outputs
<1>5. a \in Nat /\ b \in Nat /\ a # b
  BY <1>3, <1>4
<1>6. CASE a < b
  <2>1. b \in cuts
    BY <1>5, <1>6
  <2> QED
    BY <1>1, <1>2, <1>3, <1>4, <1>5, <1>6, <2>1, PartsInOrder
<1>7. CASE b < a
  <2>1. a \in cuts
    BY <1>5, <1>7
  <2> QED
    BY <1>1, <1>2, <1>3, <1>4, <1>5, <1>7, <2>1, PartsInOrder
<1> QED
  BY <1>5, <1>6, <1>7

\* compact_group for the only stripe, with nothing deeper.
LEMMA OnlyStripePlain ==
  ASSUME NEW G, \A e \in G : EntryLike(e), G # {}, NEW T, NEW folds \in BOOLEAN,
         NEW k, \A e \in G : e.key = k
  PROVE  LET R == CompactStripe(G, T, KMax, KMax, FALSE, TRUE, folds)
         IN  \A x, y \in R : x.type = "value" /\ x = y
<1> DEFINE gone    == {e \in G : e.type = "deletion" \/ HiddenInStripe(e, T, KMax)}
           settles == gone \cup {e \in G : e.type = "value"}
           settle  == Newest(settles)
           ops     == {e \in G : \A s \in settles : s.seq < e.seq}
           kept    == IF settle \in gone
                      THEN {[settle EXCEPT !.type = "deletion", !.val = <<>>]}
                      ELSE {settle}
           R == CompactStripe(G, T, KMax, KMax, FALSE, TRUE, folds)
<1>1. R = CASE settles # {} /\ ops = {} ->
                  IF settle \in gone /\ KMax = KMax /\ TRUE THEN {} ELSE kept
            [] settles # {} /\ ops # {} ->
                  {[Newest(G) EXCEPT !.type = "value", !.val = Folded(ops \cup kept)]}
            [] settles = {} /\ ~FALSE /\ TRUE ->
                  {[Newest(G) EXCEPT !.type = "value", !.val = Folded(ops)]}
            [] settles = {} /\ (FALSE \/ ~TRUE) ->
                  IF folds /\ Cardinality(ops) > 1
                  THEN {[Newest(G) EXCEPT !.val = Folded(ops)]}
                  ELSE ops
  BY DEF CompactStripe
<1>2. settles \subseteq G /\ "value" \in EntryType
  BY DEF EntryType
<1>3. Newest(G) \in G /\ EntryLike(Newest(G))
  BY NewestIn
<1>4. \A v : [Newest(G) EXCEPT !.type = "value", !.val = v].type = "value"
  <2>1. ASSUME NEW e \in G, NEW v PROVE [e EXCEPT !.type = "value", !.val = v].type = "value"
    <3> DEFINE r == [e EXCEPT !.type = "value", !.val = v]
    <3>1. e \in [key : {e.key}, seq : {e.seq}, type : {e.type}, val : {e.val}]
      BY DEF EntryLike
    <3>2. r \in [key : {e.key}, seq : {e.seq}, type : {"value"}, val : {v}]
      BY <3>1
    <3> HIDE DEF r
    <3>3. r.type = "value"
      BY <3>2
    <3> QED
      BY <3>3 DEF r
  <2> QED
    BY <1>3, <2>1
<1>5. settles # {} /\ settle \notin gone => settle.type = "value"
  <2>1. settles # {} => settle \in settles
    <3> HIDE DEF settles
    <3> QED
      BY <1>2, NewestIn
  <2> HIDE DEF settle
  <2> QED
    BY <2>1
<1> HIDE DEF R, ops, settles, settle, gone
<1>6. CASE settles # {} /\ ops = {}
  <2>1. R = IF settle \in gone THEN {} ELSE {settle}
    BY <1>1, <1>6
  <2>2. \A x, y \in R : x.type = "value" /\ x = y
    BY <1>5, <1>6, <2>1
  <2> QED
    BY <2>2 DEF R
<1> HIDE DEF kept
<1>7. CASE settles # {} /\ ops # {}
  <2>1. R = {[Newest(G) EXCEPT !.type = "value", !.val = Folded(ops \cup kept)]}
    BY <1>1, <1>7
  <2> QED
    BY <1>4, <2>1 DEF R
<1>8. CASE settles = {}
  <2>1. R = {[Newest(G) EXCEPT !.type = "value", !.val = Folded(ops)]}
    BY <1>1, <1>8
  <2> QED
    BY <1>4, <2>1 DEF R
<1> QED
  BY <1>6, <1>7, <1>8

LEMMA SoleStripe ==
  /\ Stripes({}) = {KMax} /\ OldestStripe({}) = KMax
  /\ \A s \in Seqs : StripeOf(s, {}) = KMax
<1>1. KMax \in Nat /\ \A s \in Seqs : s \in Nat /\ s <= KMax
  BY KeysAssumption DEF KMax, Seqs
<1>2. Stripes({}) = {KMax}
  BY DEF Stripes
<1>3. Min({KMax}) = KMax
  BY <1>1 DEF Min
<1>4. \A s \in Seqs : {b \in Stripes({}) : s <= b} = {KMax}
  BY <1>1, <1>2
<1> QED
  BY <1>2, <1>3, <1>4 DEF OldestStripe, StripeOf

LEMMA BottomIsPlain ==
  ASSUME NEW E, \A e \in E : EntryLike(e), NEW T \in SUBSET Tombstone, NEW folds \in BOOLEAN,
         NEW cuts \in SUBSET Nat
  PROVE  Plain(Outputs(CompactEntries(E, T, {}, {}, folds), KeptTombs(T, {}, {}), cuts))
<1> DEFINE new == CompactEntries(E, T, {}, {}, folds)
<1>1. KeptTombs(T, {}, {}) = {}
  <2>1. \A t \in T : t.seq \in Nat /\ t.seq <= KMax
    BY KeysAssumption DEF Tombstone, Seqs, KMax
  <2> QED
    BY <2>1, SoleStripe DEF KeptTombs, BaseForRange
<1>2. ASSUME NEW k, NEW x \in CompactKey({e \in E : e.key = k}, T, {}, BaseForKey({}, k), folds)
      PROVE  /\ x \in CompactStripe({e \in E : e.key = k}, T, KMax, KMax, FALSE, TRUE, folds)
             /\ {e \in E : e.key = k} # {}
  <2> DEFINE G == {e \in E : e.key = k}
             mine == {e \in G : StripeOf(e.seq, {}) = KMax}
             older == \E e \in G : StripeOf(e.seq, {}) < KMax
  <2>1. \A e \in G : StripeOf(e.seq, {}) = KMax
    BY SoleStripe DEF EntryLike
  <2>2. mine = G /\ (older <=> FALSE) /\ (BaseForKey({}, k) <=> TRUE)
    <3>1. ~(KMax < KMax)
      BY KeysAssumption DEF KMax
    <3> QED
      BY <2>1, <3>1 DEF BaseForKey
  <2>3. /\ mine # {}
        /\ x \in CompactStripe(mine, T, KMax, OldestStripe({}), older, BaseForKey({}, k), folds)
    BY <1>2, SoleStripe DEF CompactKey
  <2>4. older = FALSE /\ BaseForKey({}, k) = TRUE
    BY <2>2 DEF BaseForKey
  <2> HIDE DEF G, mine, older
  <2>5. x \in CompactStripe(G, T, KMax, KMax, FALSE, TRUE, folds) /\ G # {}
    BY <2>2, <2>3, <2>4, SoleStripe
  <2> QED
    BY <2>5 DEF G
<1>3. ASSUME NEW x \in new
      PROVE  LET G == {e \in E : e.key = x.key}
             IN  /\ x \in CompactStripe(G, T, KMax, KMax, FALSE, TRUE, folds)
                 /\ G # {}
  <2>1. PICK k \in {e.key : e \in E} :
          x \in CompactKey({e \in E : e.key = k}, T, {}, BaseForKey({}, k), folds)
    BY DEF CompactEntries
  <2> DEFINE G == {e \in E : e.key = k}
  <2>2. x \in CompactStripe(G, T, KMax, KMax, FALSE, TRUE, folds) /\ G # {}
    BY <1>2, <2>1
  <2>3. StandsFor(x, G)
    BY <2>2, StripeStandsFor
  <2>4. x.key = k
    BY <2>3 DEF StandsFor
  <2> QED
    BY <2>2, <2>4
<1>4. ASSUME NEW x \in new, NEW y \in new
      PROVE  x.type = "value" /\ (x.key = y.key => x = y)
  <2> DEFINE G(z) == {e \in E : e.key = z.key}
  <2>1. x \in CompactStripe(G(x), T, KMax, KMax, FALSE, TRUE, folds) /\ G(x) # {}
    BY <1>3
  <2>2. y \in CompactStripe(G(y), T, KMax, KMax, FALSE, TRUE, folds)
    BY <1>3
  <2>3. x.key = y.key => G(x) = G(y)
    OBVIOUS
  <2>4. \A e \in G(x) : EntryLike(e) /\ e.key = x.key
    OBVIOUS
  <2> HIDE DEF G, new
  <2>5. \A u, v \in CompactStripe(G(x), T, KMax, KMax, FALSE, TRUE, folds) :
          u.type = "value" /\ u = v
    BY <2>1, <2>4, OnlyStripePlain
  <2> QED
    BY <2>1, <2>2, <2>3, <2>5
<1> HIDE DEF new
<1>5. ASSUME NEW O \in Outputs(new, {}, cuts) PROVE O.tombs = {} /\ O.entries \subseteq new
  BY DEF Outputs, Part, Clipped
<1>6. Plain(Outputs(new, {}, cuts))
  <2>1. UNION {O.entries : O \in Outputs(new, {}, cuts)} \subseteq new
    BY <1>5
  <2> QED
    BY <1>4, <1>5, <2>1 DEF Plain
<1> QED
  BY <1>1, <1>6 DEF new

------------------------------------------------------------------------------
(* The invariant.                                                          *)

Levs == 0 .. NumLevels - 1

Apart(T, U) == Precedes(T, U) \/ Precedes(U, T)

\* Tables are sound, and what is not in use is empty.
Shape ==
  /\ written \in Seq(Writes) /\ LastSeq <= MaxSeq
  /\ Sound(mem) /\ Sound(imm) /\ (~hasImm => imm = Empty)
  /\ level0 \in Seq(ToSet(level0))
  /\ levels = [l \in Deeper |-> levels[l]]
  /\ \A l \in Levs : Tabs(TablesAt(l))
  /\ comp.busy => comp.level \in 0 .. NumLevels - 2 /\ Tabs(comp.outs)
  /\ call \in Call
  /\ call.stage # "none" => call.max \in Deeper /\ call.level < call.max

\* Age: nothing is newer than the last write, and each layer is newer than
\* those after it.
Dated(T) == \A k, s \in Nat : Holds(T, k, s) => s <= LastSeq

Aged ==
  /\ Dated(mem) /\ Dated(imm) /\ Newer(mem, imm)
  /\ \A l \in Levs : \A T \in TablesAt(l) : Dated(T) /\ Newer(mem, T) /\ Newer(imm, T)
  /\ \A i, j \in DOMAIN level0 : i < j => Newer(level0[i], level0[j])
  /\ \A l, m \in Levs : l < m => \A T \in TablesAt(l), U \in TablesAt(m) : Newer(T, U)

\* The tables C0 and C1 of level l and the next can be replaced, in the latter,
\* by tables made of them: what stays in the former is newer, what stays in
\* the latter is beside them all.
Beside(V, C) == (\A U \in C : Precedes(V, U)) \/ (\A U \in C : Precedes(U, V))

Replaceable(l, C0, C1) ==
  /\ C0 # {} /\ C0 \subseteq TablesAt(l) /\ C1 \subseteq TablesAt(l + 1)
  /\ \A X \in TablesAt(l) \ C0, T \in C0 : Newer(X, T)
  /\ \A V \in TablesAt(l + 1) \ C1 : Beside(V, C0 \cup C1)

Replaces(N, C) == /\ \A O \in N : MadeOf(O, C)
                  /\ \A O, P \in N : O # P => Apart(O, P)

\* The compaction that is at work can be installed, also after a flush: no
\* table fits between its inputs, unless nobody writes.
Working ==
  comp.busy => /\ Replaceable(comp.level, comp.in0, comp.in1)
               /\ Replaces(comp.outs, comp.in0 \cup comp.in1)
               /\ call.stage = "running" \/ Gapless(comp.in0 \cup comp.in1)

\* The call of CompactRange: once its flush is done there is nothing to flush,
\* and behind it there are no tables.
Compacting == call.stage \in {"ready", "armed", "running"}

Calling ==
  /\ call.stage = "running" => comp.busy /\ comp.level = call.level
  /\ call.stage \in {"force", "wait"} => call.level = 0 /\ call.from = 0
  /\ call.stage = "wait" => mem = Empty
  /\ Compacting => mem = Empty /\ imm = Empty

Behind ==
  Compacting =>
    /\ \A l \in 0 .. call.level - 1 : TablesAt(l) = {}
    /\ \A T \in TablesAt(call.level) :
         call.from <= Hi(T) \/ (call.stage = "running" /\ T \in comp.in0)

Ordered == Aged /\ LevelsDisjoint /\ Working /\ Calling /\ Behind

------------------------------------------------------------------------------
(* Tables stay sound.                                                      *)

LEMMA SeqOfItsRange ==
  ASSUME NEW A, NEW s \in Seq(A)
  PROVE  /\ s \in Seq(ToSet(s)) /\ ToSet(s) \subseteq A
         /\ DOMAIN s = 1 .. Len(s) /\ Len(s) \in Nat
         /\ ToSet(s) = {s[i] : i \in 1 .. Len(s)}
<1>1. DOMAIN s = 1 .. Len(s) /\ Len(s) \in Nat
  OBVIOUS
<1>2. ToSet(s) = {s[i] : i \in 1 .. Len(s)}
  BY <1>1 DEF ToSet
<1>3. s \in [1 .. Len(s) -> {s[i] : i \in 1 .. Len(s)}]
  OBVIOUS
<1>4. s \in Seq({s[i] : i \in 1 .. Len(s)})
  BY <1>1, <1>3
<1> QED
  BY <1>1, <1>2, <1>4

\* level0 without the tables of an edit.
LEMMA Level0Without ==
  ASSUME NEW s, s \in Seq(ToSet(s)), NEW C
  PROVE  LET w == Without(s, C)
         IN  /\ w \in Seq(ToSet(w)) /\ ToSet(w) = ToSet(s) \ C
             /\ \A i, j \in DOMAIN w : i < j =>
                  \E m, n \in DOMAIN s : m < n /\ w[i] = s[m] /\ w[j] = s[n]
<1> DEFINE w == Without(s, C)
<1>1. w \in Seq(ToSet(s)) /\ Filters(w, s, Len(s), C)
  BY WithoutKeeps
<1> HIDE DEF w
<1> DEFINE L == Len(s)
           K == Len(w)
<1>2. /\ w \in Seq(ToSet(w)) /\ DOMAIN w = 1 .. K /\ DOMAIN s = 1 .. L
      /\ ToSet(w) = {w[i] : i \in 1 .. K}
      /\ ToSet(s) = {s[i] : i \in 1 .. L}
  BY <1>1, SeqOfItsRange
<1>3. /\ \A i \in 1 .. K : w[i] \notin C /\ \E m \in 1 .. L : w[i] = s[m]
      /\ \A m \in 1 .. L : s[m] \in C \/ \E i \in 1 .. K : w[i] = s[m]
      /\ \A i, j \in 1 .. K : i < j =>
           \E l, m \in 1 .. L : l < m /\ w[i] = s[l] /\ w[j] = s[m]
  BY <1>1 DEF Filters
<1> HIDE DEF L, K
<1>4. ToSet(w) = ToSet(s) \ C
  BY <1>2, <1>3
<1>5. \A i, j \in DOMAIN w : i < j =>
        \E m, n \in DOMAIN s : m < n /\ w[i] = s[m] /\ w[j] = s[n]
  <2> SUFFICES ASSUME NEW i \in DOMAIN w, NEW j \in DOMAIN w, i < j
               PROVE  \E m, n \in DOMAIN s : m < n /\ w[i] = s[m] /\ w[j] = s[n]
    OBVIOUS
  <2>1. i \in 1 .. K /\ j \in 1 .. K
    BY <1>2
  <2>2. PICK m \in 1 .. L, n \in 1 .. L : m < n /\ w[i] = s[m] /\ w[j] = s[n]
    BY <2>1, <1>3
  <2>3. m \in DOMAIN s /\ n \in DOMAIN s
    BY <1>2
  <2> QED
    BY <2>2, <2>3
<1> QED
  BY <1>2, <1>4, <1>5 DEF w

LEMMA Levels0 ==
  /\ NumLevels \in Nat /\ 0 \in Levs /\ Levs \subseteq Nat
  /\ \A l \in Levs : l # 0 <=> l \in Deeper
  /\ \A l \in Deeper : l \in Levs /\ TablesAt(l) = levels[l]
  /\ TablesAt(0) = ToSet(level0)
  /\ \A l \in 0 .. NumLevels - 2 : l \in Levs /\ l + 1 \in Levs /\ l + 1 \in Deeper
BY LevelsAssumption DEF Levs, Deeper, TablesAt

\* MemTable::Add.
LEMMA AddToSound ==
  ASSUME NEW M, Sound(M), NEW w \in Write, NEW s \in Seqs
  PROVE  /\ Sound(AddTo(M, w, s))
         /\ \A k, q : Holds(AddTo(M, w, s), k, q) => Holds(M, k, q) \/ q = s
<1> DEFINE N == AddTo(M, w, s)
           t == [begin |-> w.begin, end |-> w.end, seq |-> s]
           e == [key |-> w.begin, seq |-> s, type |-> w.type,
                 val |-> IF w.type = "deletion" THEN <<>> ELSE <<s>>]
<1>1. M = [entries |-> M.entries, tombs |-> M.tombs]
  BY DEF Sound
<1>2. /\ w.type \in EntryType \cup {"range"} /\ w.begin \in Keys
      /\ w.end \in 1 .. NKeys + 1
  BY DEF Write
<1>3. CASE w.type = "range"
  <2>1. N = [entries |-> M.entries,
             tombs |-> M.tombs \cup (IF w.begin < w.end THEN {t} ELSE {})]
    BY <1>1, <1>3 DEF AddTo
  <2>2. w.begin < w.end => t \in Tombstone
    BY <1>2, KeysAssumption DEF Tombstone, Keys
  <2> HIDE DEF N
  <2>3. Sound(N)
    BY <2>1, <2>2 DEF Sound
  <2>4. \A k, q : Holds(N, k, q) => Holds(M, k, q) \/ q = s
    BY <2>1 DEF Holds
  <2> QED
    BY <2>3, <2>4 DEF N
<1>4. CASE w.type # "range"
  <2>1. N = [entries |-> M.entries \cup {e}, tombs |-> M.tombs]
    BY <1>1, <1>4 DEF AddTo
  <2>2. EntryLike(e)
    BY <1>2, <1>4 DEF EntryLike
  <2>3. e.seq = s
    OBVIOUS
  <2> HIDE DEF N, e
  <2>4. Sound(N)
    BY <2>1, <2>2 DEF Sound
  <2>5. \A k, q : Holds(N, k, q) => Holds(M, k, q) \/ q = s
    BY <2>1, <2>3 DEF Holds
  <2> QED
    BY <2>4, <2>5 DEF N
<1> QED
  BY <1>3, <1>4

\* Inputs, in terms of the levels.
LEMMA InputsFit ==
  ASSUME Shape, NEW l \in 0 .. NumLevels - 2, NEW picked \in SUBSET TablesAt(l), picked # {},
         l = 0 => Isolated(TablesAt(l), picked),
         NEW in \in Inputs(TablesAt(l), l, levels[l + 1], picked)
  PROVE  /\ in[1] # {} /\ in[1] \subseteq TablesAt(l) /\ picked \subseteq in[1]
         /\ in[2] \subseteq TablesAt(l + 1)
         /\ Tabs(in[1] \cup in[2])
         /\ \A V \in TablesAt(l + 1) \ in[2] : ~Overlaps(V, HullLo(in[1]), HullHi(in[1]))
         /\ l = 0 => Isolated(TablesAt(l), in[1])
         /\ Gapless(picked) => Gapless(in[1] \cup in[2])
<1>1. l \in Nat /\ l \in Levs /\ l + 1 \in Levs /\ levels[l + 1] = TablesAt(l + 1)
  BY Levels0
<1>2. Tabs(TablesAt(l)) /\ Tabs(TablesAt(l + 1))
  BY <1>1 DEF Shape
<1>3. in \in Inputs(TablesAt(l), l, TablesAt(l + 1), picked)
  BY <1>1
<1>4. /\ in[1] \subseteq TablesAt(l) /\ picked \subseteq in[1] /\ in[2] \subseteq TablesAt(l + 1)
      /\ \A V \in TablesAt(l + 1) \ in[2] : ~Overlaps(V, HullLo(in[1]), HullHi(in[1]))
      /\ l = 0 => Isolated(TablesAt(l), in[1])
      /\ Gapless(picked) => Gapless(in[1] \cup in[2])
  BY <1>1, <1>2, <1>3, InputsTaken
<1> QED
  BY <1>2, <1>4 DEF Tabs

\* What a compaction is to install.
LEMMA BeginMakes ==
  ASSUME NEW l, NEW in0, NEW in1, Tabs(in0 \cup in1), BeginCompaction(l, in0, in1)
  PROVE  /\ comp' = [level |-> l, in0 |-> in0, in1 |-> in1, outs |-> comp'.outs, busy |-> TRUE]
         /\ Tabs(comp'.outs) /\ Replaces(comp'.outs, in0 \cup in1)
         /\ snapshots = {} /\ Below(l) = {} => Plain(comp'.outs)
<1> DEFINE ins     == in0 \cup in1
           entries == UNION {T.entries : T \in ins}
           tombs   == UNION {T.tombs : T \in ins}
           kept    == KeptTombs(tombs, snapshots, Below(l))
           new(folds) == CompactEntries(entries, tombs, snapshots, Below(l), folds)
<1>1. PICK folds \in BOOLEAN, cuts \in SUBSET {e.key : e \in entries} :
        comp' = [level |-> l, in0 |-> in0, in1 |-> in1,
                 outs |-> Outputs(new(folds), kept, cuts), busy |-> TRUE]
  BY DEF BeginCompaction, CutsFor
<1>2. /\ \A e \in entries : EntryLike(e)
      /\ tombs \in SUBSET Tombstone
      /\ kept \in SUBSET tombs
  BY DEF Tabs, Sound, KeptTombs
<1>3. cuts \in SUBSET Nat
  BY <1>2, KeysAssumption DEF EntryLike, Keys
<1>4. \A x \in new(folds) : StandsFor(x, entries)
  <2> HIDE DEF entries, tombs
  <2> QED
    BY <1>2, EntriesStandFor
<1> DEFINE outs == Outputs(new(folds), kept, cuts)
<1>5. \A O \in outs : Sound(O) /\ O # Empty /\ MadeOf(O, ins)
  <2> HIDE DEF new, kept
  <2> QED
    BY <1>2, <1>3, <1>4, OutputsMade
<1>6. \A O, P \in outs : O # P => Apart(O, P)
  <2> HIDE DEF new, kept
  <2> QED
    BY <1>2, <1>3, <1>4, OutputsApart DEF Apart
<1>7. ASSUME snapshots = {}, Below(l) = {} PROVE Plain(outs)
  <2>1. outs = Outputs(CompactEntries(entries, tombs, {}, {}, folds), KeptTombs(tombs, {}, {}), cuts)
    BY <1>7
  <2> HIDE DEF entries, tombs
  <2> QED
    BY <1>2, <1>3, <2>1, BottomIsPlain
<1> HIDE DEF outs
<1>8. comp' = [level |-> l, in0 |-> in0, in1 |-> in1, outs |-> outs, busy |-> TRUE]
  BY <1>1 DEF outs
<1> QED
  BY <1>5, <1>6, <1>7, <1>8 DEF Tabs, Replaces

\* level0 with a table before the others.
LEMMA Level0With ==
  ASSUME NEW s, s \in Seq(ToSet(s)), NEW x
  PROVE  LET w == <<x>> \o s
         IN  /\ w \in Seq(ToSet(w)) /\ ToSet(w) = ToSet(s) \cup {x}
             /\ \A i, j \in DOMAIN w : i < j =>
                  \/ w[i] = x /\ w[j] \in ToSet(s)
                  \/ \E m, n \in DOMAIN s : m < n /\ w[i] = s[m] /\ w[j] = s[n]
<1> DEFINE w == <<x>> \o s
           L == Len(s)
<1>1. /\ DOMAIN s = 1 .. L /\ L \in Nat /\ ToSet(s) = {s[i] : i \in 1 .. L}
      /\ \A i \in 1 .. L : s[i] \in ToSet(s)
  BY SeqOfItsRange
<1>2. <<x>> \in Seq(ToSet(s) \cup {x}) /\ s \in Seq(ToSet(s) \cup {x})
  <2>1. s \in [1 .. L -> ToSet(s) \cup {x}]
    BY <1>1
  <2> QED
    BY <2>1, <1>1
<1>3. /\ w \in Seq(ToSet(s) \cup {x}) /\ Len(w) = L + 1
      /\ \A i \in 1 .. L + 1 : w[i] = IF i = 1 THEN x ELSE s[i - 1]
  BY <1>2, <1>1
<1> HIDE DEF w
<1>4. w \in Seq(ToSet(w)) /\ DOMAIN w = 1 .. L + 1 /\ ToSet(w) = {w[i] : i \in 1 .. L + 1}
  BY <1>3, SeqOfItsRange
<1> HIDE DEF L
<1>5. ToSet(w) = ToSet(s) \cup {x}
  <2>1. \A i \in 1 .. L : i + 1 \in 1 .. L + 1 /\ w[i + 1] = s[i]
    BY <1>1, <1>3
  <2>2. w[1] = x /\ 1 \in 1 .. L + 1
    BY <1>1, <1>3
  <2>3. \A i \in 1 .. L + 1 : i # 1 => i - 1 \in 1 .. L /\ w[i] = s[i - 1]
    BY <1>1, <1>3
  <2> QED
    BY <1>1, <1>4, <2>1, <2>2, <2>3
<1>6. \A i, j \in DOMAIN w : i < j =>
        \/ w[i] = x /\ w[j] \in ToSet(s)
        \/ \E m, n \in DOMAIN s : m < n /\ w[i] = s[m] /\ w[j] = s[n]
  <2> SUFFICES ASSUME NEW i \in 1 .. L + 1, NEW j \in 1 .. L + 1, i < j
               PROVE  \/ w[i] = x /\ w[j] \in ToSet(s)
                      \/ \E m, n \in DOMAIN s : m < n /\ w[i] = s[m] /\ w[j] = s[n]
    BY <1>4
  <2>1. j - 1 \in 1 .. L /\ w[j] = s[j - 1]
    BY <1>1, <1>3
  <2>2. CASE i = 1
    BY <2>1, <2>2, <1>1, <1>3
  <2>3. CASE i # 1
    <3>1. i - 1 \in 1 .. L /\ w[i] = s[i - 1]
      BY <1>1, <1>3, <2>3
    <3>2. i - 1 < j - 1
      BY <1>1
    <3> QED
      BY <1>1, <2>1, <3>1, <3>2
  <2> QED
    BY <2>2, <2>3
<1> QED
  BY <1>4, <1>5, <1>6 DEF w

LEMMA ShapeInit ==
  ASSUME Init
  PROVE  Shape
<1>1. TablesAt(0) = {} /\ \A l \in Deeper : TablesAt(l) = {}
  BY DEF Init, TablesAt, Deeper, ToSet
<1>2. \A l \in Levs : Tabs(TablesAt(l))
  BY <1>1, Levels0 DEF Tabs
<1>3. written \in Seq(Writes) /\ LastSeq <= MaxSeq
  BY KeysAssumption DEF Init, LastSeq
<1>4. level0 \in Seq(ToSet(level0))
  BY DEF Init
<1>5. call \in Call /\ call.stage = "none" /\ ~comp.busy
  BY DEF Init, NoCall, Call, Idle
<1>6. levels = [l \in Deeper |-> levels[l]]
  BY DEF Init
<1> QED
  BY <1>2, <1>3, <1>4, <1>5, <1>6, EmptyIsSound DEF Init, Shape

\* The parts of the shape that most steps leave alone.
LEMMA SameTree ==
  ASSUME Shape, UNCHANGED <<level0, levels>>
  PROVE  /\ level0' \in Seq(ToSet(level0')) /\ levels' = [l \in Deeper |-> levels'[l]]
         /\ \A l \in Levs : Tabs(TablesAt(l)')
         /\ \A l \in Levs : TablesAt(l)' = TablesAt(l)
BY DEF Shape, TablesAt

LEMMA UserShape ==
  ASSUME Shape, User
  PROVE  Shape'
<1>1. ASSUME NEW w \in Writes, WriteOne(w)
      PROVE  Shape'
  <2>1. /\ written \in Seq(Writes) /\ LastSeq \in Nat /\ LastSeq < MaxSeq
        /\ LastSeq + 1 \in Seqs /\ w \in Write
    BY <1>1, WritesAssumption, KeysAssumption DEF Shape, WriteOne, LastSeq, Seqs
  <2>2. written' \in Seq(Writes) /\ LastSeq' <= MaxSeq
    BY <1>1, <2>1, KeysAssumption DEF WriteOne, LastSeq
  <2>3. Sound(mem')
    BY <1>1, <2>1, AddToSound DEF WriteOne, Shape
  <2> QED
    BY <1>1, <2>2, <2>3, SameTree DEF WriteOne, Shape
<1>2. CASE GetSnapshot \/ ReleaseSnapshot
  BY <1>2, SameTree DEF GetSnapshot, ReleaseSnapshot, Shape, LastSeq
<1>3. CASE SwitchMemTable
  BY <1>3, SameTree, EmptyIsSound DEF SwitchMemTable, Switch, Shape, LastSeq
<1> QED
  BY <1>1, <1>2, <1>3 DEF User

\* The levels a memtable can be flushed to.
LEMMA PickedLevel ==
  ASSUME NEW T, NEW l \in PickLevel(T)
  PROVE  /\ l \in 0 .. MaxMemCompactLevel /\ l \in Levs
         /\ l # 0 => l \in Deeper /\ \A i \in 0 .. l : ~OverlapInLevel(i, T)
<1>1. MaxMemCompactLevel \in 0 .. NumLevels - 1
  BY LevelsAssumption
<1>2. l \in 0 .. MaxMemCompactLevel
  BY <1>1, LevelsAssumption DEF PickLevel
<1>3. ASSUME l # 0, NEW i \in 0 .. l
      PROVE  ~OverlapInLevel(i, T)
  <2>1. i = 0 \/ i \in 1 .. l
    BY <1>2
  <2>2. ~OverlapInLevel(0, T) /\ \A j \in 1 .. l : ~OverlapInLevel(j, T)
    BY <1>3 DEF PickLevel
  <2> QED
    BY <2>1, <2>2
<1> QED
  BY <1>1, <1>2, <1>3, LevelsAssumption DEF Levs, Deeper

\* What a flush does to the levels.
LEMMA FlushTree ==
  ASSUME Shape, Flush
  PROVE  /\ level0' \in Seq(ToSet(level0')) /\ levels' = [l \in Deeper |-> levels'[l]]
         /\ \/ imm = Empty /\ UNCHANGED <<level0, levels>>
            \/ /\ imm # Empty
               /\ \E f \in PickLevel(imm) : f \in Levs /\
                    \A l \in Levs : TablesAt(l)' = IF l = f THEN TablesAt(l) \cup {imm}
                                                            ELSE TablesAt(l)
         /\ \A i, j \in DOMAIN level0' : i < j =>
              \/ imm # Empty /\ level0'[i] = imm /\ level0'[j] \in ToSet(level0)
              \/ \E m, n \in DOMAIN level0 :
                   m < n /\ level0'[i] = level0[m] /\ level0'[j] = level0[n]
<1>1. level0 \in Seq(ToSet(level0)) /\ levels = [l \in Deeper |-> levels[l]]
  BY DEF Shape
<1>2. CASE imm = Empty
  BY <1>1, <1>2 DEF Flush
<1>3. CASE imm # Empty
  <2>1. PICK f \in PickLevel(imm) :
          IF f = 0 THEN level0' = <<imm>> \o level0 /\ UNCHANGED levels
                   ELSE levels' = [levels EXCEPT ![f] = @ \cup {imm}] /\ UNCHANGED level0
    BY <1>3 DEF Flush
  <2>2. f \in Levs /\ (f # 0 => f \in Deeper)
    BY PickedLevel
  <2>3. CASE f = 0
    <3>1. /\ level0' \in Seq(ToSet(level0')) /\ ToSet(level0') = ToSet(level0) \cup {imm}
          /\ \A i, j \in DOMAIN level0' : i < j =>
               \/ level0'[i] = imm /\ level0'[j] \in ToSet(level0)
               \/ \E m, n \in DOMAIN level0 :
                    m < n /\ level0'[i] = level0[m] /\ level0'[j] = level0[n]
      <4> DEFINE w == <<imm>> \o level0
      <4>1. /\ w \in Seq(ToSet(w)) /\ ToSet(w) = ToSet(level0) \cup {imm}
            /\ \A i, j \in DOMAIN w : i < j =>
                 \/ w[i] = imm /\ w[j] \in ToSet(level0)
                 \/ \E m, n \in DOMAIN level0 : m < n /\ w[i] = level0[m] /\ w[j] = level0[n]
        BY <1>1, Level0With
      <4>2. level0' = w
        BY <2>1, <2>3
      <4> HIDE DEF w
      <4> QED
        BY <4>1, <4>2
    <3>2. \A l \in Levs : TablesAt(l)' = IF l = f THEN TablesAt(l) \cup {imm} ELSE TablesAt(l)
      BY <2>1, <2>3, <3>1 DEF TablesAt
    <3> QED
      BY <1>1, <1>3, <2>1, <2>2, <2>3, <3>1, <3>2
  <2>4. CASE f # 0
    <3>1. levels' = [l \in Deeper |-> IF l = f THEN levels[l] \cup {imm} ELSE levels[l]]
      BY <1>1, <2>1, <2>2, <2>4
    <3>2. \A l \in Levs : TablesAt(l)' = IF l = f THEN TablesAt(l) \cup {imm} ELSE TablesAt(l)
      BY <2>1, <2>4, <3>1, Levels0 DEF TablesAt
    <3>3. levels' = [l \in Deeper |-> levels'[l]] /\ level0' = level0
      BY <2>1, <2>4, <3>1
    <3> QED
      BY <1>1, <1>3, <2>2, <3>2, <3>3
  <2> QED
    BY <2>3, <2>4
<1> QED
  BY <1>2, <1>3

LEMMA FlushShape ==
  ASSUME Shape, Flush
  PROVE  Shape'
<1>1. \A l \in Levs : Tabs(TablesAt(l)')
  <2> SUFFICES ASSUME NEW l \in Levs
               PROVE  Tabs(TablesAt(l)')
    OBVIOUS
  <2>1. Tabs(TablesAt(l)) /\ Sound(imm)
    BY DEF Shape
  <2>2. \/ TablesAt(l)' = TablesAt(l)
        \/ imm # Empty /\ TablesAt(l)' = TablesAt(l) \cup {imm}
    BY FlushTree DEF TablesAt
  <2> QED
    BY <2>1, <2>2 DEF Tabs
<1>2. Sound(imm') /\ imm' = Empty
  BY EmptyIsSound DEF Flush
<1> QED
  BY <1>1, <1>2, FlushTree DEF Flush, Shape, LastSeq

\* What a version edit does to the levels.
Replaced(l, C0, C1, N) ==
  /\ level0' \in Seq(ToSet(level0')) /\ levels' = [i \in Deeper |-> levels'[i]]
  /\ \A i \in Levs : TablesAt(i)' = IF i = l THEN TablesAt(i) \ C0
                                    ELSE IF i = l + 1 THEN (TablesAt(i) \ C1) \cup N
                                    ELSE TablesAt(i)
  /\ \A i, j \in DOMAIN level0' : i < j =>
       \E m, n \in DOMAIN level0 : m < n /\ level0'[i] = level0[m] /\ level0'[j] = level0[n]

LEMMA ReplaceTree ==
  ASSUME Shape, NEW l \in 0 .. NumLevels - 2, NEW C0, NEW C1, NEW N, Replace(l, C0, C1, N)
  PROVE  Replaced(l, C0, C1, N)
<1>1. /\ level0 \in Seq(ToSet(level0))
      /\ levels' = [i \in Deeper |->
                      IF i = l THEN levels[i] \ C0
                      ELSE IF i = l + 1 THEN (levels[i] \ C1) \cup N ELSE levels[i]]
      /\ level0' = IF l = 0 THEN Without(level0, C0) ELSE level0
      /\ l \in Nat
  BY DEF Shape, Replace
<1>2. levels' = [i \in Deeper |-> levels'[i]]
  BY <1>1
<1>3. /\ level0' \in Seq(ToSet(level0'))
      /\ ToSet(level0') = IF l = 0 THEN ToSet(level0) \ C0 ELSE ToSet(level0)
      /\ \A i, j \in DOMAIN level0' : i < j =>
           \E m, n \in DOMAIN level0 : m < n /\ level0'[i] = level0[m] /\ level0'[j] = level0[n]
  <2>1. CASE l = 0
    <3> DEFINE w == Without(level0, C0)
    <3>1. /\ w \in Seq(ToSet(w)) /\ ToSet(w) = ToSet(level0) \ C0
          /\ \A i, j \in DOMAIN w : i < j =>
               \E m, n \in DOMAIN level0 : m < n /\ w[i] = level0[m] /\ w[j] = level0[n]
      BY <1>1, Level0Without
    <3>2. level0' = w
      BY <1>1, <2>1
    <3> HIDE DEF w
    <3> QED
      BY <2>1, <3>1, <3>2
  <2>2. CASE l # 0
    BY <1>1, <2>2
  <2> QED
    BY <2>1, <2>2
<1>4. TablesAt(0)' = ToSet(level0') /\ TablesAt(0) = ToSet(level0) /\ l + 1 # 0
  BY <1>1 DEF TablesAt
<1>5. \A i \in Deeper : i # 0 /\ TablesAt(i)' = levels'[i] /\ TablesAt(i) = levels[i]
  BY Levels0 DEF TablesAt
<1>6. ASSUME NEW i \in Levs
      PROVE  TablesAt(i)' = IF i = l THEN TablesAt(i) \ C0
                            ELSE IF i = l + 1 THEN (TablesAt(i) \ C1) \cup N
                            ELSE TablesAt(i)
  <2>1. i = 0 \/ i \in Deeper
    BY Levels0
  <2>2. CASE i = 0
    BY <1>3, <1>4, <2>2
  <2>3. CASE i \in Deeper
    BY <1>1, <1>5, <2>3
  <2> QED
    BY <2>1, <2>2, <2>3
<1> QED
  BY <1>2, <1>3, <1>6 DEF Replaced

LEMMA ReplacedTabs ==
  ASSUME Shape, NEW l, NEW C0, NEW C1, NEW N, Replaced(l, C0, C1, N), Tabs(N)
  PROVE  \A i \in Levs : Tabs(TablesAt(i)')
<1> SUFFICES ASSUME NEW i \in Levs
             PROVE  Tabs(TablesAt(i)')
  OBVIOUS
<1>1. Tabs(TablesAt(i))
  BY DEF Shape
<1>2. \/ TablesAt(i)' = TablesAt(i) \ C0
      \/ TablesAt(i)' = (TablesAt(i) \ C1) \cup N
      \/ TablesAt(i)' = TablesAt(i)
  BY DEF Replaced
<1> QED
  BY <1>1, <1>2 DEF Tabs

LEMMA InstallShape ==
  ASSUME Shape, InstallCompaction
  PROVE  Shape' /\ Replaced(comp.level, comp.in0, comp.in1, comp.outs)
<1>1. /\ comp.level \in 0 .. NumLevels - 2 /\ Tabs(comp.outs)
      /\ Replace(comp.level, comp.in0, comp.in1, comp.outs)
  BY DEF Shape, InstallCompaction
<1>2. Replaced(comp.level, comp.in0, comp.in1, comp.outs)
  BY <1>1, ReplaceTree
<1>3. \A i \in Levs : Tabs(TablesAt(i)')
  BY <1>1, <1>2, ReplacedTabs
<1>4. call' \in Call /\ call'.max = call.max /\ call'.level = call.level
      /\ (call'.stage # "none" => call.stage # "none")
  BY DEF InstallCompaction, Shape, Call
<1>5. ~comp'.busy
  BY DEF InstallCompaction, Idle
<1> QED
  BY <1>2, <1>3, <1>4, <1>5 DEF InstallCompaction, Shape, Replaced, LastSeq

\* What PickCompaction hands over.
Picked(l, f) == IF l = 0 THEN Overlapping(TablesAt(0), 0, Lo(f), Hi(f)) ELSE {f}

LEMMA PickedFits ==
  ASSUME Shape, NEW l \in 0 .. NumLevels - 2, NEW f \in TablesAt(l)
  PROVE  /\ f \in Picked(l, f) /\ Picked(l, f) \subseteq TablesAt(l)
         /\ l = 0 => Isolated(TablesAt(l), Picked(l, f))
<1>1. Tabs(TablesAt(l)) /\ Lo(f) \in Nat /\ Hi(f) \in Nat /\ Lo(f) <= Hi(f)
  BY Levels0, TabBounds DEF Shape
<1>2. CASE l = 0
  <2>1. Picked(l, f) = OverlappingAt0(TablesAt(l), Lo(f), Hi(f))
    BY <1>2 DEF Picked, Overlapping
  <2>2. Overlaps(f, Lo(f), Hi(f))
    BY <1>1 DEF Overlaps
  <2> QED
    BY <1>1, <2>1, <2>2, OverlappingAt0Closed
<1>3. CASE l # 0
  BY <1>3 DEF Picked
<1> QED
  BY <1>2, <1>3

\* The two ways of an automatic compaction.
LEMMA AutoTakes ==
  ASSUME Shape, AutoCompaction
  PROVE  \E l \in 0 .. NumLevels - 2 : \E f \in TablesAt(l) :
         \E in \in Inputs(TablesAt(l), l, levels[l + 1], Picked(l, f)) :
           \/ /\ Cardinality(in[1]) = 1 /\ in[2] = {}
              /\ Replace(l, in[1], {}, in[1]) /\ comp' = comp
           \/ BeginCompaction(l, in[1], in[2]) /\ UNCHANGED <<level0, levels>>
BY DEF AutoCompaction, Picked

LEMMA AutoShape ==
  ASSUME Shape, AutoCompaction
  PROVE  Shape'
<1>1. PICK l \in 0 .. NumLevels - 2 : \E f \in TablesAt(l) :
        \E in \in Inputs(TablesAt(l), l, levels[l + 1], Picked(l, f)) :
           \/ /\ Cardinality(in[1]) = 1 /\ in[2] = {}
              /\ Replace(l, in[1], {}, in[1]) /\ comp' = comp
           \/ BeginCompaction(l, in[1], in[2]) /\ UNCHANGED <<level0, levels>>
  BY AutoTakes
<1>2. PICK f \in TablesAt(l) :
        \E in \in Inputs(TablesAt(l), l, levels[l + 1], Picked(l, f)) :
           \/ /\ Cardinality(in[1]) = 1 /\ in[2] = {}
              /\ Replace(l, in[1], {}, in[1]) /\ comp' = comp
           \/ BeginCompaction(l, in[1], in[2]) /\ UNCHANGED <<level0, levels>>
  BY <1>1
<1>3. PICK in \in Inputs(TablesAt(l), l, levels[l + 1], Picked(l, f)) :
           \/ /\ Cardinality(in[1]) = 1 /\ in[2] = {}
              /\ Replace(l, in[1], {}, in[1]) /\ comp' = comp
           \/ BeginCompaction(l, in[1], in[2]) /\ UNCHANGED <<level0, levels>>
  BY <1>2
<1>4. Tabs(in[1] \cup in[2])
  BY PickedFits, InputsFit
<1>5. UNCHANGED <<written, mem, imm, hasImm, snapshots, call, calls>>
  BY DEF AutoCompaction
<1>6. CASE Replace(l, in[1], {}, in[1]) /\ comp' = comp
  <2>1. Replaced(l, in[1], {}, in[1]) /\ Tabs(in[1])
    BY <1>4, <1>6, ReplaceTree DEF Tabs
  <2>2. \A i \in Levs : Tabs(TablesAt(i)')
    BY <2>1, ReplacedTabs
  <2> QED
    BY <1>5, <1>6, <2>1, <2>2 DEF Shape, Replaced, LastSeq
<1>7. CASE BeginCompaction(l, in[1], in[2]) /\ UNCHANGED <<level0, levels>>
  <2>1. comp'.level = l /\ Tabs(comp'.outs)
    BY <1>4, <1>7, BeginMakes
  <2> QED
    BY <1>5, <1>7, <2>1, SameTree DEF Shape, LastSeq
<1> QED
  BY <1>3, <1>6, <1>7

\* What a request of CompactRange takes: tables from where the last one ended,
\* all of them at level 0, the first ones below.
LEMMA ManualFits ==
  ASSUME Shape, call.stage = "armed", NEW picked \in FirstOf(ManualTables), ManualTables # {}
  PROVE  /\ call.level \in 0 .. NumLevels - 2 /\ call.from \in Nat
         /\ picked # {} /\ picked \subseteq TablesAt(call.level)
         /\ call.level = 0 => Isolated(TablesAt(call.level), picked)
<1> DEFINE l == call.level
           S == TablesAt(l)
<1>1. l \in 0 .. NumLevels - 2 /\ call.from \in Nat
  BY LevelsAssumption DEF Shape, Call, Deeper
<1>2. Tabs(S) /\ KeyEnd \in Nat
  BY <1>1, Levels0, KeysAssumption DEF Shape, KeyEnd
<1>3. CASE l = 0
  <2>1. picked = OverlappingAt0(S, call.from, KeyEnd)
    BY <1>3 DEF FirstOf, ManualTables, Overlapping
  <2>2. picked = ManualTables
    BY <1>3 DEF FirstOf
  <2>3. OverlappingAt0(S, call.from, KeyEnd) \subseteq S /\ Isolated(S, OverlappingAt0(S, call.from, KeyEnd))
    <3> HIDE DEF S
    <3> QED
      BY <1>1, <1>2, OverlappingAt0Closed
  <2> QED
    BY <1>1, <2>1, <2>2, <2>3
<1>4. CASE l # 0
  <2>1. ManualTables \subseteq S
    BY <1>4 DEF ManualTables, Overlapping
  <2>2. PICK x \in ManualTables : picked = {T \in ManualTables : Lo(T) <= Lo(x)}
    BY <1>4 DEF FirstOf
  <2>3. Lo(x) \in Nat
    BY <1>2, <2>1, TabBounds
  <2>4. x \in picked /\ picked \subseteq ManualTables
    BY <2>2, <2>3
  <2> QED
    BY <1>1, <1>4, <2>1, <2>4
<1> QED
  BY <1>3, <1>4

LEMMA ManualShape ==
  ASSUME Shape, ManualCompaction
  PROVE  Shape'
<1> DEFINE l == call.level
<1>1. call.stage = "armed" /\ ManualTables # {}
  BY DEF ManualCompaction
<1>2. PICK picked \in FirstOf(ManualTables) :
        \E in \in Inputs(TablesAt(l), l, levels[l + 1], picked) :
          /\ BeginCompaction(l, in[1], in[2])
          /\ \E T \in in[1] : /\ \A U \in in[1] : Lo(U) <= Lo(T)
                              /\ call' = [call EXCEPT !.stage = "running", !.from = Hi(T)]
  BY Zenon DEF ManualCompaction
<1>3. PICK in \in Inputs(TablesAt(l), l, levels[l + 1], picked) :
          /\ BeginCompaction(l, in[1], in[2])
          /\ \E T \in in[1] : /\ \A U \in in[1] : Lo(U) <= Lo(T)
                              /\ call' = [call EXCEPT !.stage = "running", !.from = Hi(T)]
  BY <1>2, Zenon
<1>4. l \in 0 .. NumLevels - 2 /\ Tabs(in[1] \cup in[2])
  BY <1>1, ManualFits, InputsFit
<1>5. comp'.level = l /\ Tabs(comp'.outs)
  BY <1>3, <1>4, BeginMakes
<1>6. /\ call' \in Call /\ call'.stage = "running" /\ call'.level = call.level
      /\ call'.max = call.max
  <2>1. PICK T \in in[1] : call' = [call EXCEPT !.stage = "running", !.from = Hi(T)]
    BY <1>3, Zenon
  <2>2. Hi(T) \in Nat
    BY <1>4, TabBounds
  <2> QED
    BY <2>1, <2>2 DEF Shape, Call
<1> QED
  BY <1>1, <1>4, <1>5, <1>6, SameTree DEF ManualCompaction, Shape, LastSeq

LEMMA CallerShape ==
  ASSUME Shape, CallBegin \/ Caller \/ ManualDone
  PROVE  Shape'
<1>1. ASSUME CallBegin
      PROVE  call' \in Call /\ call'.level = 0 /\ call'.max \in Deeper /\ call'.level < call'.max
  <2> DEFINE D == {1} \cup {l \in Deeper : levels[l] # {}}
  <2>1. D \in SUBSET Deeper /\ D \in SUBSET Nat /\ D # {} /\ NumLevels \in Nat
        /\ \A m \in D : m <= NumLevels
    BY LevelsAssumption DEF Deeper
  <2>2. \E n \in D : \A m \in D : m <= n
    BY <2>1, GreatestElement
  <2>3. Max(D) \in D
    BY <2>2 DEF Max
  <2>4. call' = [stage |-> "force", level |-> 0, max |-> Max(D), from |-> 0]
    BY <1>1 DEF CallBegin, NoCall
  <2> HIDE DEF D
  <2>5. Max(D) \in Deeper /\ Max(D) \in Nat
    BY <2>1, <2>3
  <2>6. 0 < Max(D)
    BY <2>5 DEF Deeper
  <2> QED
    BY <2>4, <2>5, <2>6 DEF Call
<1>2. CASE CallBegin
  BY <1>1, <1>2, SameTree DEF CallBegin, Shape, LastSeq
<1>3. CASE CallForce
  BY <1>3, SameTree, EmptyIsSound DEF CallForce, Switch, Shape, LastSeq, Call
<1>4. CASE CallFlushed \/ CallArm
  BY <1>4, SameTree DEF CallFlushed, CallArm, Shape, LastSeq, Call
<1>5. ASSUME ManualDone
      PROVE  /\ call' \in Call
             /\ call'.stage # "none" => call'.max \in Deeper /\ call'.level < call'.max
  <2>1. CASE call.level + 1 < call.max
    <3>1. call' = [call EXCEPT !.stage = "ready", !.level = @ + 1, !.from = 0]
      BY <1>5, <2>1 DEF ManualDone
    <3>2. call \in Call /\ call.max \in Deeper
      BY <1>5 DEF Shape, ManualDone
    <3>3. call' = [stage |-> "ready", level |-> call.level + 1, max |-> call.max, from |-> 0]
      BY <3>1, <3>2 DEF Call
    <3>4. call.level + 1 \in Nat /\ call.max \in Nat
      BY <3>2 DEF Call
    <3>5. call' \in Call
      BY <3>3, <3>4 DEF Call
    <3>6. call'.max = call.max /\ call'.level = call.level + 1
      BY <3>3
    <3> QED
      BY <2>1, <3>2, <3>5, <3>6
  <2>2. CASE ~(call.level + 1 < call.max)
    BY <1>5, <2>2 DEF ManualDone, NoCall, Call
  <2> QED
    BY <2>1, <2>2
<1>6. CASE ManualDone
  BY <1>5, <1>6, SameTree DEF ManualDone, Shape, LastSeq
<1> QED
  BY <1>2, <1>3, <1>4, <1>6 DEF Caller

LEMMA NextShape ==
  ASSUME Shape, [Next]_vars
  PROVE  Shape'
<1>1. CASE UNCHANGED vars
  BY <1>1, SameTree DEF vars, Shape, LastSeq
<1>2. CASE Background
  BY <1>2, FlushShape, AutoShape, InstallShape, ManualShape, CallerShape DEF Background
<1> QED
  BY <1>1, <1>2, UserShape, CallerShape DEF Next

\* Every table is well formed and holds something, and its tombstones cover some
\* key: what WriteLevel0Table builds, DoCompactionWork clips and cuts and
\* BackgroundCompaction moves never leaves less.
THEOREM ShapeAlways == Spec => []Shape
<1>1. Init => Shape
  BY ShapeInit
<1>2. Shape /\ [Next]_vars => Shape'
  BY NextShape
<1> QED
  BY <1>1, <1>2, PTL DEF Spec

\* BaseIsPlain, for any tables and cuts: a compaction with no live snapshot and
\* nothing deeper in its way leaves one plain value per key (compact_group, the
\* tombstones' drop rule, FinishCompactionOutputFile's cuts).
THEOREM BottomCompactionsPlain == Spec => BaseIsPlain
<1>1. ASSUME Shape, [Next]_vars,
             ~comp.busy, comp'.busy, snapshots = {}, Below(comp'.level) = {}
      PROVE  Plain(comp'.outs)
  <2>1. ASSUME NEW l, NEW in0, NEW in1, Tabs(in0 \cup in1), BeginCompaction(l, in0, in1)
        PROVE  Plain(comp'.outs)
    <3>1. comp'.level = l
      BY <2>1, BeginMakes
    <3> QED
      BY <1>1, <2>1, <3>1, BeginMakes
  <2>2. CASE AutoCompaction
    <3>1. PICK l \in 0 .. NumLevels - 2 : \E f \in TablesAt(l) :
            \E in \in Inputs(TablesAt(l), l, levels[l + 1], Picked(l, f)) :
              comp' # comp => BeginCompaction(l, in[1], in[2])
      BY <1>1, <2>2, AutoTakes
    <3>2. PICK f \in TablesAt(l) :
            \E in \in Inputs(TablesAt(l), l, levels[l + 1], Picked(l, f)) :
              comp' # comp => BeginCompaction(l, in[1], in[2])
      BY <3>1
    <3>3. PICK in \in Inputs(TablesAt(l), l, levels[l + 1], Picked(l, f)) :
              comp' # comp => BeginCompaction(l, in[1], in[2])
      BY <3>2
    <3>4. Tabs(in[1] \cup in[2])
      BY <1>1, PickedFits, InputsFit
    <3> QED
      BY <1>1, <2>1, <3>3, <3>4
  <2>3. CASE ManualCompaction
    <3> DEFINE l == call.level
    <3>1. call.stage = "armed" /\ ManualTables # {}
      BY <2>3 DEF ManualCompaction
    <3>2. PICK picked \in FirstOf(ManualTables) :
            \E in \in Inputs(TablesAt(l), l, levels[l + 1], picked) :
              BeginCompaction(l, in[1], in[2])
      BY <2>3 DEF ManualCompaction
    <3>3. PICK in \in Inputs(TablesAt(l), l, levels[l + 1], picked) :
              BeginCompaction(l, in[1], in[2])
      BY <3>2
    <3>4. Tabs(in[1] \cup in[2])
      BY <1>1, <3>1, ManualFits, InputsFit
    <3> QED
      BY <2>1, <3>3, <3>4
  <2>4. CASE InstallCompaction
    BY <1>1, <2>4 DEF InstallCompaction, Idle
  <2>5. CASE UNCHANGED comp
    BY <1>1, <2>5
  <2>6. AutoCompaction \/ ManualCompaction \/ InstallCompaction \/ UNCHANGED comp
    BY <1>1 DEF Next, User, Caller, Background, vars, WriteOne, GetSnapshot, ReleaseSnapshot,
                SwitchMemTable, Flush, CallBegin, CallForce, CallFlushed, CallArm, ManualDone
  <2> QED
    BY <2>2, <2>3, <2>4, <2>5, <2>6
<1>2. Shape /\ [Next]_vars => [~comp.busy /\ comp'.busy /\ snapshots = {} /\ Below(comp'.level) = {}
                                 => Plain(comp'.outs)]_vars
  BY <1>1
<1> QED
  BY <1>2, ShapeAlways, PTL DEF Spec, BaseIsPlain

------------------------------------------------------------------------------
(* A version edit keeps the order.                                         *)

\* A table made of others is as old, and lies, as they do.
LEMMA MadeAge ==
  ASSUME NEW O, Sound(O), NEW ins, Tabs(ins), MadeOf(O, ins), NEW X
  PROVE  /\ (\A U \in ins : Newer(X, U)) => Newer(X, O)
         /\ (\A U \in ins : Newer(U, X)) => Newer(O, X)
         /\ (\A U \in ins : Dated(U)) => Dated(O)
<1>1. \A k \in Nat : \A s : Holds(O, k, s) => \E U \in ins : Holds(U, k, s)
  BY MadeHolds DEF Tabs
<1>2. (\A U \in ins : Newer(X, U)) => Newer(X, O)
  BY <1>1 DEF Newer
<1>3. (\A U \in ins : Newer(U, X)) => Newer(O, X)
  BY <1>1 DEF Newer
<1>4. (\A U \in ins : Dated(U)) => Dated(O)
  BY <1>1 DEF Dated
<1> QED
  BY <1>2, <1>3, <1>4

LEMMA ReplacedAged ==
  ASSUME Shape, Aged, NEW l \in 0 .. NumLevels - 2, NEW C0, NEW C1, NEW N,
         Replaced(l, C0, C1, N), Replaceable(l, C0, C1), Tabs(N), Replaces(N, C0 \cup C1),
         UNCHANGED <<written, mem, imm>>
  PROVE  Aged'
<1> DEFINE ins == C0 \cup C1
           Kept(i, T) == T \in TablesAt(i) /\ ~(i = l /\ T \in C0)
           Made(i, T) == i = l + 1 /\ T \in N
<1>1. l \in Levs /\ l + 1 \in Levs /\ l \in Nat /\ Levs \subseteq Nat
  BY Levels0
<1>2. C0 \subseteq TablesAt(l) /\ C1 \subseteq TablesAt(l + 1)
  BY DEF Replaceable
<1>3. Tabs(ins)
  BY <1>1, <1>2 DEF Shape, Tabs
<1>4. \A O \in N : Sound(O) /\ MadeOf(O, ins)
  BY DEF Tabs, Replaces
<1>5. \A i \in Levs : \A T \in TablesAt(i)' : Kept(i, T) \/ Made(i, T)
  BY <1>1 DEF Replaced
<1>6. \A i \in Levs : \A T \in TablesAt(i) : Dated(T) /\ Newer(mem, T) /\ Newer(imm, T)
  BY DEF Aged
<1>7. \A i, m \in Levs : i < m => \A T \in TablesAt(i), U \in TablesAt(m) : Newer(T, U)
  BY DEF Aged
<1>8. LastSeq' = LastSeq /\ mem' = mem /\ imm' = imm
  BY DEF LastSeq
<1> HIDE DEF ins
<1>9. ASSUME NEW i \in Levs, NEW T \in TablesAt(i)'
      PROVE  Dated(T) /\ Newer(mem, T) /\ Newer(imm, T)
  <2>1. CASE Kept(i, T)
    BY <1>6, <2>1
  <2>2. CASE Made(i, T)
    <3>1. \A U \in ins : Dated(U) /\ Newer(mem, U) /\ Newer(imm, U)
      BY <1>1, <1>2, <1>6 DEF ins
    <3> QED
      BY <1>3, <1>4, <2>2, <3>1, MadeAge
  <2> QED
    BY <1>5, <2>1, <2>2
<1>10. ASSUME NEW i \in Levs, NEW m \in Levs, i < m,
              NEW T \in TablesAt(i)', NEW U \in TablesAt(m)'
       PROVE  Newer(T, U)
  <2>1. CASE Kept(i, T) /\ Kept(m, U)
    BY <1>7, <1>10, <2>1
  <2>2. CASE Made(i, T) /\ Kept(m, U)
    <3>1. \A W \in ins : Newer(W, U)
      <4>1. l < m /\ l + 1 < m
        BY <1>1, <1>10, <2>2
      <4> QED
        BY <1>1, <1>2, <1>7, <2>2, <4>1 DEF ins
    <3> QED
      BY <1>3, <1>4, <2>2, <3>1, MadeAge
  <2>3. CASE Kept(i, T) /\ Made(m, U)
    <3>1. \A W \in C1 : Newer(T, W)
      BY <1>1, <1>2, <1>7, <1>10, <2>3
    <3>2. \A W \in C0 : Newer(T, W)
      <4>1. CASE i = l
        BY <2>3, <4>1 DEF Replaceable
      <4>2. CASE i # l
        <5>1. i < l
          BY <1>1, <1>10, <2>3, <4>2
        <5> QED
          BY <1>1, <1>2, <1>7, <2>3, <5>1
      <4> QED
        BY <4>1, <4>2
    <3>3. \A W \in ins : Newer(T, W)
      BY <3>1, <3>2 DEF ins
    <3> QED
      BY <1>3, <1>4, <2>3, <3>3, MadeAge
  <2>4. ~(Made(i, T) /\ Made(m, U))
    BY <1>1, <1>10
  <2> QED
    BY <1>5, <2>1, <2>2, <2>3, <2>4
<1>11. \A i, j \in DOMAIN level0' : i < j => Newer(level0'[i], level0'[j])
  BY DEF Replaced, Aged
<1>12. Dated(mem) /\ Dated(imm) /\ Newer(mem, imm)
  BY DEF Aged
<1> QED
  BY <1>8, <1>9, <1>10, <1>11, <1>12 DEF Aged, Dated

LEMMA ReplacedDisjoint ==
  ASSUME Shape, LevelsDisjoint, NEW l \in 0 .. NumLevels - 2, NEW C0, NEW C1, NEW N,
         Replaced(l, C0, C1, N), Replaceable(l, C0, C1), Tabs(N), Replaces(N, C0 \cup C1)
  PROVE  LevelsDisjoint'
<1>1. l + 1 \in Deeper /\ l \in Levs /\ l + 1 \in Levs /\ levels[l + 1] = TablesAt(l + 1)
      /\ l \in Nat
  BY Levels0
<1>2. Tabs(C0 \cup C1)
  BY <1>1 DEF Shape, Tabs, Replaceable
<1>3. \A i \in Deeper : levels'[i] = IF i = l THEN levels[i] \ C0
                                     ELSE IF i = l + 1 THEN (levels[i] \ C1) \cup N
                                     ELSE levels[i]
  <2>1. \A i \in Deeper : i \in Levs /\ i # 0 /\ TablesAt(i) = levels[i] /\ TablesAt(i)' = levels'[i]
    BY Levels0 DEF TablesAt
  <2> QED
    BY <2>1 DEF Replaced
<1>6. levels'[l + 1] = (levels[l + 1] \ C1) \cup N
  <2>1. l + 1 # l
    BY <1>1
  <2> DEFINE n == l + 1
  <2>2. levels'[n] = IF n = l THEN levels[n] \ C0
                     ELSE IF n = l + 1 THEN (levels[n] \ C1) \cup N ELSE levels[n]
    BY <1>1, <1>3, Zenon
  <2> QED
    BY <2>1, <2>2
<1>4. ASSUME NEW T \in N, NEW V \in levels[l + 1] \ C1
      PROVE  Apart(T, V)
  <2>1. Sound(T) /\ T # Empty /\ MadeOf(T, C0 \cup C1) /\ Sound(V) /\ V # Empty
    BY <1>1 DEF Tabs, Replaces, Shape
  <2>2. Beside(V, C0 \cup C1)
    BY <1>1 DEF Replaceable
  <2> QED
    BY <1>2, <2>1, <2>2, MadeBeside DEF Beside, Apart
<1>5. ASSUME NEW i \in Deeper, NEW T \in levels'[i], NEW U \in levels'[i], T # U
      PROVE  Apart(T, U)
  <2>1. CASE T \in levels[i] /\ U \in levels[i]
    BY <1>5, <2>1 DEF LevelsDisjoint, Apart
  <2>2. CASE T \notin levels[i]
    <3>1. i = l + 1 /\ T \in N
      BY <1>3, <2>2
    <3>2. U \in N \/ U \in levels[l + 1] \ C1
      BY <1>6, <3>1
    <3> QED
      BY <1>4, <1>5, <3>1, <3>2 DEF Replaces
  <2>3. CASE U \notin levels[i]
    <3>1. i = l + 1 /\ U \in N
      BY <1>3, <2>3
    <3>2. T \in N \/ T \in levels[l + 1] \ C1
      BY <1>6, <3>1
    <3> QED
      BY <1>4, <1>5, <3>1, <3>2 DEF Replaces, Apart
  <2> QED
    BY <2>1, <2>2, <2>3
<1> QED
  BY <1>5 DEF LevelsDisjoint, Apart

\* The tables that Inputs takes of the next level are those in its way.
LEMMA InputsBelow ==
  ASSUME NEW S, NEW level \in Nat, NEW below, NEW picked, NEW in \in Inputs(S, level, below, picked)
  PROVE  in[2] = {V \in below : Overlaps(V, HullLo(in[1]), HullHi(in[1]))}
<1> DEFINE O(a, b) == Overlapping(below, level + 1, a, b)
<1>1. in[2] = O(HullLo(in[1]), HullHi(in[1]))
  BY DEF Inputs
<1>2. \A a, b : O(a, b) = {V \in below : Overlaps(V, a, b)}
  BY DEF Overlapping
<1> HIDE DEF O
<1> QED
  BY <1>1, <1>2

LEMMA InputsReplaceable ==
  ASSUME Shape, LevelsDisjoint, NEW l \in 0 .. NumLevels - 2,
         NEW picked \in SUBSET TablesAt(l), picked # {}, l = 0 => Isolated(TablesAt(l), picked),
         NEW in \in Inputs(TablesAt(l), l, levels[l + 1], picked)
  PROVE  Replaceable(l, in[1], in[2])
<1> DEFINE C0 == in[1]
           C1 == in[2]
           a == HullLo(C0)
           b == HullHi(C0)
<1>1. l \in Nat /\ l \in Levs /\ l + 1 \in Levs /\ l + 1 \in Deeper
      /\ levels[l + 1] = TablesAt(l + 1) /\ (l # 0 => l \in Deeper /\ levels[l] = TablesAt(l))
  BY Levels0
<1>2. Tabs(TablesAt(l)) /\ Tabs(TablesAt(l + 1))
  BY <1>1 DEF Shape
<1>3. /\ C0 # {} /\ C0 \subseteq TablesAt(l) /\ C1 \subseteq TablesAt(l + 1)
      /\ l = 0 => Isolated(TablesAt(l), C0)
  BY InputsFit
<1>4. C1 = {V \in TablesAt(l + 1) : Overlaps(V, a, b)}
  BY <1>1, InputsBelow
<1>5. Tabs(C0)
  BY <1>2, <1>3 DEF Tabs
<1>6. a \in Nat /\ b \in Nat /\ \A T \in C0 : a <= Lo(T) /\ Hi(T) <= b
  BY <1>3, <1>5, Hull
<1> HIDE DEF C0, C1, a, b
<1>7. ASSUME NEW X \in TablesAt(l) \ C0, NEW T \in C0
      PROVE  Newer(X, T)
  <2>1. Sound(X) /\ X # Empty /\ Sound(T) /\ T # Empty /\ X # T
    BY <1>2, <1>3 DEF Tabs
  <2>2. CASE l = 0
    BY <1>3, <2>1, <2>2, NoOverlapApart, ApartNewer DEF Isolated
  <2>3. CASE l # 0
    <3>1. Precedes(X, T) \/ Precedes(T, X)
      BY <1>1, <1>3, <2>1, <2>3 DEF LevelsDisjoint
    <3> QED
      BY <2>1, <3>1, ApartNewer
  <2> QED
    BY <2>2, <2>3
<1>8. ASSUME NEW V \in TablesAt(l + 1) \ C1
      PROVE  Beside(V, C0 \cup C1)
  <2>1. Lo(V) \in Nat /\ Hi(V) \in Nat /\ Lo(V) <= Hi(V)
    BY <1>2, TabBounds
  <2>2. \A U \in C0 : Lo(U) \in Nat /\ Hi(U) \in Nat /\ Lo(U) <= Hi(U)
    BY <1>5, TabBounds
  <2>3. \A U \in C1 : /\ Lo(U) \in Nat /\ Hi(U) \in Nat /\ Lo(U) <= Hi(U)
                      /\ Lo(U) <= b /\ a <= Hi(U)
                      /\ Precedes(V, U) \/ Precedes(U, V)
    <3>1. \A U \in C1 : Lo(U) \in Nat /\ Hi(U) \in Nat /\ Lo(U) <= Hi(U)
      BY <1>2, <1>3, TabBounds
    <3>2. \A U \in C1 : Precedes(V, U) \/ Precedes(U, V)
      BY <1>1, <1>3 DEF LevelsDisjoint
    <3>3. \A U \in C1 : Lo(U) <= b /\ a <= Hi(U)
      BY <1>4 DEF Overlaps
    <3> QED
      BY <3>1, <3>2, <3>3
  <2>4. Hi(V) < a \/ b < Lo(V)
    BY <1>4, <1>6, <2>1 DEF Overlaps
  <2>5. CASE Hi(V) < a
    <3>1. \A U \in C0 : Precedes(V, U)
      BY <1>6, <2>1, <2>2, <2>5 DEF Precedes
    <3>2. \A U \in C1 : ~Precedes(U, V)
      BY <1>6, <2>1, <2>3, <2>5 DEF Precedes
    <3> QED
      BY <2>3, <3>1, <3>2 DEF Beside
  <2>6. CASE b < Lo(V)
    <3>1. \A U \in C0 : Precedes(U, V)
      BY <1>6, <2>1, <2>2, <2>6 DEF Precedes
    <3>2. \A U \in C1 : ~Precedes(V, U)
      BY <1>6, <2>1, <2>3, <2>6 DEF Precedes
    <3> QED
      BY <2>3, <3>1, <3>2 DEF Beside
  <2> QED
    BY <2>4, <2>5, <2>6
<1> QED
  BY <1>3, <1>7, <1>8 DEF Replaceable, C0, C1

------------------------------------------------------------------------------
(* Each action keeps the order.                                            *)

LEMMA AgedUnchanged ==
  ASSUME Aged, UNCHANGED <<written, mem, imm, level0, levels>>
  PROVE  Aged'
BY DEF Aged, Dated, LastSeq, TablesAt

\* Nothing of a level meets T.
LEMMA NothingMet ==
  ASSUME Shape, NEW T, Sound(T), T # Empty, NEW i \in Levs, ~OverlapInLevel(i, T),
         NEW U \in TablesAt(i)
  PROVE  /\ Newer(U, T) /\ Apart(T, U) /\ Apart(U, T) /\ Lo(T) \in Nat /\ Hi(T) \in Nat
         /\ Lo(U) \in Nat /\ Hi(U) \in Nat /\ Lo(T) <= Hi(T) /\ Lo(U) <= Hi(U)
         /\ Hi(U) < Lo(T) \/ Hi(T) < Lo(U)
<1>1. Sound(U) /\ U # Empty
  BY DEF Shape, Tabs
<1>2. ~Overlaps(U, Lo(T), Hi(T))
  BY DEF OverlapInLevel
<1>3. Precedes(T, U) \/ Precedes(U, T)
  BY <1>1, <1>2, NoOverlapApart
<1>4. Lo(T) \in Nat /\ Hi(T) \in Nat /\ Lo(U) \in Nat /\ Hi(U) \in Nat /\ Lo(T) <= Hi(T)
      /\ Lo(U) <= Hi(U)
  BY <1>1, Bounds
<1>5. Hi(U) < Lo(T) \/ Hi(T) < Lo(U)
  BY <1>2, <1>4 DEF Overlaps
<1> QED
  BY <1>1, <1>3, <1>4, <1>5, ApartNewer DEF Apart

\* A memtable goes no deeper than the first table in its way.
LEMMA FlushOrder ==
  ASSUME Shape, Aged, LevelsDisjoint, Flush
  PROVE  Aged' /\ LevelsDisjoint'
<1>1. /\ mem' = mem /\ imm' = Empty /\ LastSeq' = LastSeq
      /\ \A k, s : ~Holds(Empty, k, s)
  BY EmptyIsSound DEF Flush, LastSeq
<1>2. \A X : Newer(Empty, X) /\ Newer(X, Empty)
  BY <1>1 DEF Newer
<1>3. Dated(Empty)
  BY <1>1 DEF Dated
<1>4. \A i \in Levs : \A T \in TablesAt(i) : Dated(T) /\ Newer(mem, T) /\ Newer(imm, T)
  BY DEF Aged
<1>5. Dated(mem) /\ Dated(imm) /\ Newer(mem, imm)
  BY DEF Aged
<1>6. \A i, m \in Levs : i < m => \A T \in TablesAt(i), U \in TablesAt(m) : Newer(T, U)
  BY DEF Aged
<1>7. \A i, j \in DOMAIN level0' : i < j => Newer(level0'[i], level0'[j])
  <2>1. \A i, j \in DOMAIN level0' : i < j =>
          \/ level0'[i] = imm /\ level0'[j] \in TablesAt(0)
          \/ \E m, n \in DOMAIN level0 : m < n /\ level0'[i] = level0[m] /\ level0'[j] = level0[n]
    BY FlushTree, Levels0
  <2>2. \A m, n \in DOMAIN level0 : m < n => Newer(level0[m], level0[n])
    BY DEF Aged
  <2> QED
    BY <1>4, <2>1, <2>2, Levels0
<1>8. CASE imm = Empty
  <2>1. UNCHANGED <<level0, levels>>
    BY <1>8, FlushTree DEF Flush
  <2> QED
    BY <1>1, <1>2, <1>3, <1>8, <2>1, AgedUnchanged DEF Flush, LevelsDisjoint
<1>9. ASSUME imm # Empty
      PROVE  Aged' /\ LevelsDisjoint'
  <2>1. PICK f \in PickLevel(imm) : f \in Levs /\
          \A l \in Levs : TablesAt(l)' = IF l = f THEN TablesAt(l) \cup {imm} ELSE TablesAt(l)
    BY <1>9, FlushTree
  <2>2. Sound(imm) /\ f \in Nat
    BY <2>1, Levels0 DEF Shape
  <2>3. f # 0 => f \in Deeper /\ \A i \in 0 .. f : ~OverlapInLevel(i, imm)
    BY PickedLevel
  <2>4. \A i \in Levs : i <= f /\ f # 0 => \A U \in TablesAt(i) : Newer(U, imm) /\ Apart(imm, U) /\ Apart(U, imm)
    <3>1. \A i \in Levs : i <= f /\ f # 0 => ~OverlapInLevel(i, imm)
      BY <2>2, <2>3, Levels0
    <3> QED
      BY <1>9, <2>2, <3>1, NothingMet
  <2>5. ASSUME NEW i \in Levs, NEW T \in TablesAt(i)'
        PROVE  Dated(T) /\ Newer(mem, T)
    BY <1>4, <1>5, <2>1
  <2>6. ASSUME NEW i \in Levs, NEW m \in Levs, i < m,
               NEW T \in TablesAt(i)', NEW U \in TablesAt(m)'
        PROVE  Newer(T, U)
    <3>1. CASE T \in TablesAt(i) /\ U \in TablesAt(m)
      BY <1>6, <2>6, <3>1
    <3>2. CASE T \notin TablesAt(i)
      <4>1. i = f /\ T = imm /\ U \in TablesAt(m)
        BY <2>1, <2>6, <3>2, Levels0
      <4> QED
        BY <1>4, <4>1
    <3>3. CASE U \notin TablesAt(m)
      <4>1. m = f /\ U = imm /\ T \in TablesAt(i)
        BY <2>1, <2>6, <3>3, Levels0
      <4>2. i <= f /\ f # 0
        BY <2>2, <2>6, <4>1, Levels0
      <4> QED
        BY <2>4, <4>1, <4>2
    <3> QED
      BY <3>1, <3>2, <3>3
  <2>7. Aged'
    BY <1>1, <1>2, <1>3, <1>5, <1>7, <2>5, <2>6 DEF Aged, Dated
  <2>8. ASSUME NEW i \in Deeper, NEW T \in levels'[i], NEW U \in levels'[i], T # U
        PROVE  Apart(T, U)
    <3>1. i \in Levs /\ i # 0 /\ TablesAt(i) = levels[i] /\ TablesAt(i)' = levels'[i]
      BY Levels0 DEF TablesAt
    <3>2. levels'[i] = IF i = f THEN levels[i] \cup {imm} ELSE levels[i]
      BY <2>1, <3>1
    <3>3. CASE T \in levels[i] /\ U \in levels[i]
      BY <2>8, <3>3 DEF LevelsDisjoint, Apart
    <3>4. CASE T \notin levels[i] \/ U \notin levels[i]
      <4>1. i = f
        BY <3>2, <3>4
      <4>2. (T \in levels[i] \/ T = imm) /\ (U \in levels[i] \/ U = imm)
        BY <3>2, <4>1
      <4>3. i = f /\ ((T = imm /\ U \in TablesAt(i)) \/ (U = imm /\ T \in TablesAt(i)))
        BY <2>8, <3>1, <3>4, <4>1, <4>2
      <4> QED
        BY <2>2, <2>4, <3>1, <4>3
    <3> QED
      BY <3>3, <3>4
  <2> QED
    BY <2>7, <2>8 DEF LevelsDisjoint, Apart
<1> QED
  BY <1>8, <1>9

\* The compaction at work does not see the flush, and can still be installed.
LEMMA FlushWorking ==
  ASSUME Shape, Aged, Working, Calling, Flush
  PROVE  Working'
<1> SUFFICES ASSUME comp.busy, NEW l, l = comp.level, NEW C0, C0 = comp.in0,
                    NEW C1, C1 = comp.in1
             PROVE  Working'
  BY DEF Flush, Working
<1>1. /\ comp' = comp /\ call' = call
      /\ Replaceable(l, C0, C1) /\ Replaces(comp.outs, C0 \cup C1)
      /\ call.stage = "running" \/ Gapless(C0 \cup C1)
  BY DEF Working, Flush
<1>2. l \in 0 .. NumLevels - 2 /\ l \in Levs /\ l + 1 \in Levs /\ l + 1 # 0 /\ l \in Nat
  BY Levels0 DEF Shape
<1>3. CASE imm = Empty
  <2>1. UNCHANGED <<level0, levels>>
    BY <1>3, FlushTree DEF Flush
  <2>2. \A i : TablesAt(i)' = TablesAt(i)
    BY <2>1 DEF TablesAt
  <2> QED
    BY <1>1, <2>2 DEF Working, Replaceable
<1>4. ASSUME imm # Empty
      PROVE  Replaceable(l, C0, C1)'
  <2>1. PICK f \in PickLevel(imm) : f \in Levs /\
          \A i \in Levs : TablesAt(i)' = IF i = f THEN TablesAt(i) \cup {imm} ELSE TablesAt(i)
    BY <1>4, FlushTree
  <2>2. Sound(imm) /\ f \in Nat
    BY <2>1, Levels0 DEF Shape
  <2>3. Gapless(C0 \cup C1)
    BY <1>1, <1>4 DEF Calling, Compacting
  <2>4. C0 # {} /\ C0 \subseteq TablesAt(l) /\ C1 \subseteq TablesAt(l + 1)
    BY <1>1 DEF Replaceable
  <2>5. C0 \subseteq TablesAt(l)' /\ C1 \subseteq TablesAt(l + 1)'
    BY <1>2, <2>1, <2>4
  <2>6. ASSUME NEW X \in TablesAt(l)' \ C0, NEW T \in C0
        PROVE  Newer(X, T)
    <3>1. X \in TablesAt(l) \/ X = imm
      BY <1>2, <2>1
    <3>2. Newer(imm, T)
      BY <1>2, <2>4 DEF Aged
    <3> QED
      BY <1>1, <3>1, <3>2 DEF Replaceable
  <2>7. ASSUME f = l + 1
        PROVE  Beside(imm, C0 \cup C1)
    <3>1. \A U \in C0 \cup C1 :
            /\ Lo(imm) \in Nat /\ Hi(imm) \in Nat /\ Lo(U) \in Nat /\ Hi(U) \in Nat
            /\ Lo(imm) <= Hi(imm) /\ Lo(U) <= Hi(U)
            /\ Hi(U) < Lo(imm) \/ Hi(imm) < Lo(U)
      <4>1. f # 0 /\ l \in 0 .. f /\ l + 1 \in 0 .. f
        BY <1>2, <2>7
      <4>2. ~OverlapInLevel(l, imm) /\ ~OverlapInLevel(l + 1, imm)
        BY <4>1, PickedLevel
      <4>3. \A U \in C0 \cup C1 : U \in TablesAt(l) \/ U \in TablesAt(l + 1)
        BY <2>4
      <4> QED
        BY <1>2, <1>4, <2>2, <4>2, <4>3, NothingMet
    <3>2. ASSUME NEW T \in C0 \cup C1, NEW U \in C0 \cup C1, Hi(T) < Lo(imm), Hi(imm) < Lo(U)
          PROVE  FALSE
      <4>1. Lo(T) <= Lo(imm) /\ Lo(imm) <= Hi(U) /\ Lo(imm) \in Nat
        BY <3>1, <3>2
      <4>2. PICK W \in C0 \cup C1 : Lo(W) <= Lo(imm) /\ Lo(imm) <= Hi(W)
        BY <2>3, <4>1 DEF Gapless, Spans
      <4> QED
        BY <3>1, <4>2
    <3>3. CASE \A U \in C0 \cup C1 : Hi(U) < Lo(imm)
      BY <3>3 DEF Beside, Precedes
    <3>4. CASE \E U \in C0 \cup C1 : ~(Hi(U) < Lo(imm))
      <4>1. \A U \in C0 \cup C1 : Hi(imm) < Lo(U)
        BY <3>1, <3>2, <3>4
      <4> QED
        BY <4>1 DEF Beside, Precedes
    <3> QED
      BY <3>3, <3>4
  <2>8. ASSUME NEW V \in TablesAt(l + 1)' \ C1
        PROVE  Beside(V, C0 \cup C1)
    <3>1. V \in TablesAt(l + 1) \ C1 \/ (f = l + 1 /\ V = imm)
      BY <1>2, <2>1
    <3> QED
      BY <1>1, <2>7, <3>1 DEF Replaceable
  <2> QED
    BY <1>1, <2>4, <2>5, <2>6, <2>8 DEF Replaceable
<1> QED
  BY <1>1, <1>3, <1>4 DEF Working

LEMMA WriteAged ==
  ASSUME Shape, Aged, NEW w \in Writes, WriteOne(w)
  PROVE  Aged'
<1> DEFINE n == LastSeq + 1
<1>1. LastSeq \in Nat /\ n \in Seqs /\ n \in Nat /\ LastSeq' = n /\ w \in Write
  BY WritesAssumption, KeysAssumption DEF Shape, WriteOne, LastSeq, Seqs
<1>2. \A k, q : Holds(mem', k, q) => Holds(mem, k, q) \/ q = n
  BY <1>1, AddToSound DEF Shape, WriteOne
<1>3. imm' = imm /\ level0' = level0 /\ levels' = levels /\ \A i : TablesAt(i)' = TablesAt(i)
  BY DEF WriteOne, TablesAt
<1>4. \A X : Dated(X) <=> \A k, s \in Nat : Holds(X, k, s) => s <= LastSeq
  BY DEF Dated
<1>5. \A X : Dated(X)' <=> \A k, s \in Nat : Holds(X, k, s) => s <= n
  BY <1>1 DEF Dated
<1>6. Dated(mem)'
  BY <1>1, <1>2 DEF Aged, Dated
<1>7. \A X : Dated(X) => Dated(X)'
  BY <1>1, <1>4, <1>5
<1>8. \A X : Newer(mem, X) /\ Dated(X) => Newer(mem', X)
  BY <1>1, <1>2, <1>4 DEF Newer
<1> QED
  BY <1>3, <1>6, <1>7, <1>8 DEF Aged

LEMMA UserOrder ==
  ASSUME Shape, Ordered, ~WritesDuringCall, User
  PROVE  Ordered'
<1>1. ASSUME NEW w \in Writes, WriteOne(w)
      PROVE  Ordered'
  <2>1. call.stage = "none" /\ UNCHANGED <<imm, level0, levels, comp, call>>
    BY <1>1 DEF WriteOne
  <2>2. Aged'
    BY <1>1, WriteAged DEF Ordered
  <2>3. LevelsDisjoint' /\ Working'
    BY <2>1 DEF Ordered, LevelsDisjoint, Working, Replaceable, TablesAt
  <2> QED
    BY <2>1, <2>2, <2>3 DEF Ordered, Calling, Behind, Compacting
<1>2. CASE GetSnapshot \/ ReleaseSnapshot
  <2>1. UNCHANGED <<written, mem, imm, level0, levels, comp, call>>
    BY <1>2 DEF GetSnapshot, ReleaseSnapshot
  <2>2. Aged' /\ LevelsDisjoint' /\ Working'
    BY <2>1, AgedUnchanged DEF Ordered, LevelsDisjoint, Working, Replaceable, TablesAt
  <2> QED
    BY <2>1, <2>2 DEF Ordered, Calling, Behind, Compacting, TablesAt
<1>3. CASE SwitchMemTable
  <2>1. /\ mem # Empty /\ imm = Empty /\ imm' = mem /\ mem' = Empty
        /\ UNCHANGED <<written, level0, levels, comp, call>>
    BY <1>3 DEF SwitchMemTable, Switch, Shape
  <2>2. \A X : Newer(Empty, X) /\ Newer(X, Empty)
    BY EmptyIsSound DEF Newer
  <2>3. Aged'
    BY <2>1, <2>2, EmptyIsSound DEF Ordered, Aged, Dated, LastSeq, TablesAt
  <2>4. LevelsDisjoint' /\ Working'
    BY <2>1 DEF Ordered, LevelsDisjoint, Working, Replaceable, TablesAt
  <2>5. ~Compacting /\ call.stage # "wait"
    BY <2>1 DEF Ordered, Calling
  <2> QED
    BY <2>1, <2>3, <2>4, <2>5 DEF Ordered, Calling, Behind, Compacting
<1> QED
  BY <1>1, <1>2, <1>3 DEF User

\* What CompactRange left behind stays empty: nothing above its level can be
\* compacted.
LEMMA ReplacedBehind ==
  ASSUME Shape, Behind, Compacting, NEW l \in 0 .. NumLevels - 2, NEW C0, NEW C1, NEW N,
         Replaced(l, C0, C1, N), C0 # {}, C0 \subseteq TablesAt(l), NEW c, c = call.level
  PROVE  /\ \A i \in 0 .. c - 1 : TablesAt(i)' = {}
         /\ \A T \in TablesAt(c)' : T \in TablesAt(c) /\ (l = c => T \notin C0)
         /\ c <= l /\ c \in Levs
<1>1. c \in Levs /\ c \in Nat /\ \A i \in 0 .. c : i \in Levs
  BY LevelsAssumption DEF Shape, Call, Compacting, Levs, Deeper
<1>2. \A i \in 0 .. c - 1 : TablesAt(i) = {}
  BY DEF Behind
<1>3. l \in Nat /\ ~(l < c)
  <2>1. l \in Nat
    BY Levels0
  <2>2. l < c => l \in 0 .. c - 1
    BY <1>1, <2>1
  <2> QED
    BY <1>2, <2>1, <2>2
<1>4. c <= l /\ c # l + 1 /\ \A i \in 0 .. c - 1 : i # l /\ i # l + 1
  BY <1>1, <1>3
<1>5. \A i \in 0 .. c - 1 : TablesAt(i)' = {}
  BY <1>1, <1>2, <1>4 DEF Replaced
<1>6. TablesAt(c)' = IF c = l THEN TablesAt(c) \ C0 ELSE TablesAt(c)
  BY <1>1, <1>4 DEF Replaced
<1> QED
  BY <1>1, <1>4, <1>5, <1>6

LEMMA InstallOrder ==
  ASSUME Shape, Ordered, InstallCompaction
  PROVE  Ordered'
<1>1. PICK l, C0, C1, N : l = comp.level /\ C0 = comp.in0 /\ C1 = comp.in1 /\ N = comp.outs
  OBVIOUS
<1>2. comp.busy /\ UNCHANGED <<written, mem, imm>>
  BY DEF InstallCompaction
<1>3. /\ l \in 0 .. NumLevels - 2 /\ Tabs(N) /\ Replaced(l, C0, C1, N)
      /\ Replaceable(l, C0, C1) /\ Replaces(N, C0 \cup C1)
  BY <1>1, <1>2, InstallShape DEF Shape, Ordered, Working
<1>4. Aged' /\ LevelsDisjoint'
  BY <1>2, <1>3, ReplacedAged, ReplacedDisjoint DEF Ordered
<1>5. /\ ~comp'.busy /\ call'.stage # "running"
      /\ call'.level = call.level /\ call'.from = call.from
      /\ \/ call'.stage = call.stage /\ call.stage # "running"
         \/ call'.stage = "ready" /\ call.stage = "running"
  BY DEF InstallCompaction, Idle, Shape, Call
<1>6. Working' /\ Calling' /\ (Compacting' => Compacting)
  BY <1>2, <1>5 DEF Ordered, Working, Calling, Compacting
<1>7. ASSUME Compacting
      PROVE  /\ \A i \in 0 .. call.level - 1 : TablesAt(i)' = {}
             /\ \A T \in TablesAt(call.level)' : call.from <= Hi(T)
  <2>1. PICK c : c = call.level
    OBVIOUS
  <2>2. /\ \A i \in 0 .. c - 1 : TablesAt(i)' = {}
        /\ \A T \in TablesAt(c)' : T \in TablesAt(c) /\ (l = c => T \notin C0)
    BY <1>3, <1>7, <2>1, ReplacedBehind DEF Ordered, Replaceable
  <2>3. \A T \in TablesAt(c) : call.from <= Hi(T) \/ (call.stage = "running" /\ T \in C0)
    BY <1>1, <1>7, <2>1 DEF Ordered, Behind
  <2>4. call.stage = "running" => l = c
    BY <1>1, <2>1 DEF Ordered, Calling
  <2>5. \A T \in TablesAt(c)' : call.from <= Hi(T)
    BY <2>2, <2>3, <2>4
  <2> QED
    BY <1>5, <2>1, <2>2, <2>5
<1>8. Behind'
  BY <1>5, <1>6, <1>7 DEF Behind
<1> QED
  BY <1>4, <1>6, <1>8 DEF Ordered

LEMMA PickedGapless ==
  ASSUME Shape, NEW l \in 0 .. NumLevels - 2, NEW f \in TablesAt(l)
  PROVE  Gapless(Picked(l, f))
<1>1. Tabs(TablesAt(l)) /\ Tabs({f}) /\ Lo(f) \in Nat /\ Hi(f) \in Nat
  BY Levels0, TabBounds DEF Shape, Tabs
<1>2. Gapless({f})
  BY DEF Gapless, Spans
<1>3. CASE l = 0
  <2>1. Picked(l, f) = OverlappingAt0(TablesAt(l), Lo(f), Hi(f)) /\ f \in Picked(l, f)
    BY <1>3, PickedFits DEF Picked, Overlapping
  <2>2. Gapless({f} \cup OverlappingAt0(TablesAt(l), Lo(f), Hi(f)))
    BY <1>1, <1>2, OverlappingAt0Gapless
  <2>3. {f} \cup OverlappingAt0(TablesAt(l), Lo(f), Hi(f)) = Picked(l, f)
    BY <2>1
  <2> QED
    BY <2>2, <2>3
<1>4. CASE l # 0
  BY <1>2, <1>4 DEF Picked
<1> QED
  BY <1>3, <1>4

\* A compaction that has just begun can be installed.
LEMMA BeginWorking ==
  ASSUME Shape, NEW l, NEW in0, NEW in1, Tabs(in0 \cup in1), BeginCompaction(l, in0, in1),
         UNCHANGED <<level0, levels>>, Replaceable(l, in0, in1),
         call'.stage = "running" \/ Gapless(in0 \cup in1)
  PROVE  Working'
<1>1. comp'.level = l /\ comp'.in0 = in0 /\ comp'.in1 = in1 /\ Replaces(comp'.outs, in0 \cup in1)
  BY BeginMakes
<1>2. \A i : TablesAt(i)' = TablesAt(i)
  BY DEF TablesAt
<1> QED
  BY <1>1, <1>2 DEF Working, Replaceable

\* A table that is moved stands for itself.
LEMMA MovedReplaces ==
  ASSUME Shape, LevelsDisjoint, NEW l \in 0 .. NumLevels - 2, NEW C \in SUBSET TablesAt(l),
         Cardinality(C) = 1
  PROVE  Replaces(C, C \cup {})
<1>1. \A T \in C : MadeOf(T, C \cup {})
  <2>1. \A T \in C : T.tombs \subseteq Tombstone
    BY Levels0 DEF Shape, Tabs, Sound
  <2>2. \A t \in Tombstone : t.begin \in Nat /\ t.end \in Nat
    BY KeysAssumption DEF Tombstone, Keys
  <2> QED
    BY <2>1, <2>2 DEF MadeOf
<1>2. ASSUME NEW T \in C, NEW U \in C, T # U
      PROVE  Apart(T, U)
  <2>1. CASE l = 0
    <3>1. level0 \in Seq(ToSet(level0)) /\ C \subseteq ToSet(level0)
      BY <2>1, Levels0 DEF Shape
    <3>2. IsFiniteSet(ToSet(level0))
      <4> DEFINE n == Len(level0)
                 h == [i \in 1 .. n |-> level0[i]]
      <4>1. n \in Nat /\ ToSet(level0) = {level0[i] : i \in 1 .. n}
        BY <3>1, SeqOfItsRange
      <4>2. IsFiniteSet(1 .. n)
        BY <4>1, FS_Interval
      <4>3. h \in Surjection(1 .. n, ToSet(level0))
        <5> HIDE DEF n
        <5> QED
          BY <4>1 DEF Surjection
      <4> QED
        BY <4>2, <4>3, FS_Surjection
    <3>3. IsFiniteSet(C)
      BY <3>1, <3>2, FS_Subset
    <3>4. \E x : C = {x}
      BY <3>3, FS_Singleton
    <3> QED
      BY <1>2, <3>4
  <2>2. CASE l # 0
    BY <1>2, <2>2, Levels0 DEF LevelsDisjoint, Apart
  <2> QED
    BY <2>1, <2>2
<1> QED
  BY <1>1, <1>2 DEF Replaces

LEMMA AutoOrder ==
  ASSUME Shape, Ordered, AutoCompaction
  PROVE  Ordered'
<1>1. PICK l \in 0 .. NumLevels - 2 : \E f \in TablesAt(l) :
        \E in \in Inputs(TablesAt(l), l, levels[l + 1], Picked(l, f)) :
           \/ /\ Cardinality(in[1]) = 1 /\ in[2] = {}
              /\ Replace(l, in[1], {}, in[1]) /\ comp' = comp
           \/ BeginCompaction(l, in[1], in[2]) /\ UNCHANGED <<level0, levels>>
  BY AutoTakes
<1>2. PICK f \in TablesAt(l) :
        \E in \in Inputs(TablesAt(l), l, levels[l + 1], Picked(l, f)) :
           \/ /\ Cardinality(in[1]) = 1 /\ in[2] = {}
              /\ Replace(l, in[1], {}, in[1]) /\ comp' = comp
           \/ BeginCompaction(l, in[1], in[2]) /\ UNCHANGED <<level0, levels>>
  BY <1>1
<1>3. PICK in \in Inputs(TablesAt(l), l, levels[l + 1], Picked(l, f)) :
           \/ /\ Cardinality(in[1]) = 1 /\ in[2] = {}
              /\ Replace(l, in[1], {}, in[1]) /\ comp' = comp
           \/ BeginCompaction(l, in[1], in[2]) /\ UNCHANGED <<level0, levels>>
  BY <1>2
<1>4. /\ Picked(l, f) # {} /\ Picked(l, f) \subseteq TablesAt(l)
      /\ l = 0 => Isolated(TablesAt(l), Picked(l, f))
  BY PickedFits
<1>5. /\ Tabs(in[1] \cup in[2]) /\ in[1] # {} /\ in[1] \subseteq TablesAt(l)
      /\ Gapless(in[1] \cup in[2]) /\ Replaceable(l, in[1], in[2])
  BY <1>4, InputsFit, PickedGapless, InputsReplaceable DEF Ordered
<1>6. /\ UNCHANGED <<written, mem, imm, call>> /\ ~comp.busy
      /\ call.stage # "armed" /\ call.stage # "running"
  BY DEF AutoCompaction, Ordered, Calling
<1>7. Calling'
  BY <1>6 DEF Ordered, Calling, Compacting
<1>8. CASE BeginCompaction(l, in[1], in[2]) /\ UNCHANGED <<level0, levels>>
  <2>1. Working'
    BY <1>5, <1>8, BeginWorking
  <2>2. Aged' /\ LevelsDisjoint'
    BY <1>6, <1>8, AgedUnchanged DEF Ordered, LevelsDisjoint
  <2>3. Behind'
    BY <1>6, <1>8 DEF Ordered, Behind, Compacting, TablesAt
  <2> QED
    BY <1>7, <2>1, <2>2, <2>3 DEF Ordered
<1>9. ASSUME Cardinality(in[1]) = 1, in[2] = {}, Replace(l, in[1], {}, in[1]), comp' = comp
      PROVE  Ordered'
  <2>1. Tabs(in[1]) /\ Replaceable(l, in[1], {}) /\ Replaced(l, in[1], {}, in[1])
    BY <1>5, <1>9, ReplaceTree DEF Tabs
  <2>2. Replaces(in[1], in[1] \cup {})
    BY <1>5, <1>9, MovedReplaces DEF Ordered
  <2>3. Aged' /\ LevelsDisjoint'
    BY <1>6, <2>1, <2>2, ReplacedAged, ReplacedDisjoint DEF Ordered
  <2>4. Working'
    BY <1>6, <1>9 DEF Working
  <2>5. ASSUME Compacting
        PROVE  /\ \A i \in 0 .. call.level - 1 : TablesAt(i)' = {}
               /\ \A T \in TablesAt(call.level)' : call.from <= Hi(T)
    <3>1. PICK c : c = call.level
      OBVIOUS
    <3>2. /\ \A i \in 0 .. c - 1 : TablesAt(i)' = {}
          /\ \A T \in TablesAt(c)' : T \in TablesAt(c)
      BY <1>5, <2>1, <2>5, <3>1, ReplacedBehind DEF Ordered
    <3>3. \A T \in TablesAt(c) : call.from <= Hi(T)
      BY <1>6, <2>5, <3>1 DEF Ordered, Behind
    <3> QED
      BY <1>6, <3>1, <3>2, <3>3
  <2>6. Behind'
    BY <1>6, <2>5 DEF Behind, Compacting
  <2> QED
    BY <1>7, <2>3, <2>4, <2>6 DEF Ordered
<1> QED
  BY <1>3, <1>8, <1>9

\* Below level 0, what AddBoundaryInputs adds lies right behind the tables it
\* is given: a table left out is behind all of them, or before.
LEMMA BoundaryBelow ==
  ASSUME NEW S, NEW C \in SUBSET S, Tabs(S), C # {},
         \A T, V \in S : T # V => Apart(T, V),
         NEW U \in S \ AddBoundary(S, C), \A W \in C : Lo(W) < Lo(U)
  PROVE  \A T \in AddBoundary(S, C) : Lo(T) < Lo(U)
<1> DEFINE closed(D) == \A T \in S :
             Lo(T) = HullHi(C) \/ (\E V \in D : Lo(T) = Hi(V)) => T \in D
           R == {T \in S : \A D \in SUBSET S : closed(D) => T \in D}
           D0 == {T \in S : T \in R /\ Lo(T) < Lo(U)}
<1>1. AddBoundary(S, C) = C \cup R
  BY DEF AddBoundary
<1>2. \A T \in S : Lo(T) \in Nat /\ Hi(T) \in Nat /\ Lo(T) <= Hi(T)
  BY TabBounds
<1>3. PICK Q \in C : HullHi(C) = Hi(Q)
  BY Hull DEF Tabs
<1>4. closed(R)
  OBVIOUS
<1>5. U \in S /\ U \notin C /\ U \notin R
  BY <1>1
<1> HIDE DEF R
<1>6. \A W \in S : Lo(W) < Lo(U) => Hi(W) <= Lo(U)
  BY <1>2, <1>5 DEF Apart, Precedes
<1>7. closed(D0)
  <2> SUFFICES ASSUME NEW T \in S, Lo(T) = HullHi(C) \/ \E V \in D0 : Lo(T) = Hi(V)
               PROVE  T \in D0
    OBVIOUS
  <2>1. T \in R
    BY <1>4
  <2>2. PICK W \in S : Lo(W) < Lo(U) /\ Lo(T) = Hi(W)
    BY <1>3
  <2>3. Lo(T) <= Lo(U)
    BY <1>6, <2>2
  <2>4. Lo(T) # Lo(U)
    <3>1. Lo(U) = HullHi(C) \/ (\E V \in R : Lo(U) = Hi(V)) => U \in R
      BY <1>4, <1>5
    <3> QED
      BY <1>5, <3>1
  <2> QED
    BY <1>2, <1>5, <2>1, <2>3, <2>4
<1>8. R \subseteq D0
  BY <1>7 DEF R
<1> QED
  BY <1>1, <1>8

LEMMA InputsInOrder ==
  ASSUME NEW S, NEW level \in Nat, level # 0, NEW below, NEW picked \in SUBSET S, picked # {},
         Tabs(S), Tabs(below), \A T, V \in S : T # V => Apart(T, V),
         NEW in \in Inputs(S, level, below, picked),
         NEW U \in S \ in[1], \A W \in picked : Lo(W) < Lo(U)
  PROVE  \A T \in in[1] : Lo(T) < Lo(U)
<1> DEFINE in0 == AddBoundary(S, picked)
           in1 == Overlapping(below, level + 1, HullLo(in0), HullHi(in0))
           all == in0 \cup in1
           mine == Overlapping(S, level, HullLo(all), HullHi(all))
           more0 == AddBoundary(S, mine)
<1>1. in[1] = in0 \/ in[1] = more0
  BY DEF Inputs
<1>2. CASE in[1] = in0
  BY <1>2, BoundaryBelow
<1>3. CASE in[1] = more0
  <2>1. picked \subseteq in0 /\ in0 \subseteq S
    BY BoundaryKept
  <2>2. in1 \subseteq below
    <3> DEFINE O(a, b) == Overlapping(below, level + 1, a, b)
    <3>1. \A a, b : O(a, b) \subseteq below
      BY DEF Overlapping
    <3> QED
      BY <3>1
  <2> HIDE DEF in0, in1
  <2>3. Tabs(all) /\ all # {} /\ picked \subseteq all
    BY <2>1, <2>2 DEF Tabs
  <2> DEFINE a == HullLo(all)
             b == HullHi(all)
  <2>4. a \in Nat /\ b \in Nat /\ \A T \in all : a <= Lo(T) /\ Hi(T) <= b
    BY <2>3, Hull
  <2>5. mine = {T \in S : Overlaps(T, a, b)}
    BY DEF Overlapping
  <2> HIDE DEF all, a, b
  <2>6. PICK P \in picked : P \in all /\ P \in S
    BY <2>3
  <2>7. /\ Lo(P) \in Nat /\ Hi(P) \in Nat /\ Lo(P) <= Hi(P)
        /\ Lo(U) \in Nat /\ Hi(U) \in Nat /\ Lo(U) <= Hi(U)
    BY <2>6, TabBounds
  <2>8. P \in mine /\ mine \in SUBSET S
    BY <2>4, <2>5, <2>6, <2>7 DEF Overlaps
  <2>9. U \notin mine
    BY <1>3, <2>8, BoundaryKept
  <2>10. b < Lo(U)
    BY <2>4, <2>5, <2>6, <2>7, <2>9 DEF Overlaps
  <2>11. \A W \in mine : Lo(W) < Lo(U)
    <3>1. \A W \in mine : Lo(W) \in Nat /\ Lo(W) <= b
      BY <2>5, TabBounds DEF Overlaps
    <3> QED
      BY <2>4, <2>7, <2>10, <3>1
  <2> HIDE DEF mine
  <2> QED
    BY <1>3, <2>8, <2>11, BoundaryBelow
<1> QED
  BY <1>1, <1>2, <1>3

\* What CompactRange has not compacted yet of its level is what it takes next.
LEMMA ManualAll ==
  ASSUME Shape, Behind, call.stage = "armed"
  PROVE  TablesAt(call.level) \subseteq ManualTables
<1>1. PICK c, a : c = call.level /\ a = call.from
  OBVIOUS
<1>2. c \in Levs /\ a \in Nat /\ KeyEnd \in Nat /\ KeyEnd = NKeys + 2 /\ NKeys \in Nat
  BY <1>1, LevelsAssumption, KeysAssumption DEF Shape, Call, Levs, Deeper, KeyEnd
<1>3. Tabs(TablesAt(c))
  BY <1>2 DEF Shape
<1>4. ASSUME NEW T \in TablesAt(c)
      PROVE  Overlaps(T, a, KeyEnd)
  <2>1. a <= Hi(T)
    BY <1>1 DEF Behind, Compacting
  <2>2. Lo(T) \in Nat /\ Hi(T) \in Nat /\ Lo(T) <= Hi(T) /\ Hi(T) <= NKeys + 1
    BY <1>3, TabBounds
  <2> QED
    BY <1>2, <2>1, <2>2 DEF Overlaps
<1>5. ManualTables = Overlapping(TablesAt(c), c, a, KeyEnd)
  BY <1>1 DEF ManualTables
<1>6. CASE c = 0
  <2>1. ManualTables = OverlappingAt0(TablesAt(c), a, KeyEnd)
    BY <1>5, <1>6 DEF Overlapping
  <2> QED
    BY <1>1, <1>2, <1>4, <2>1, OverlappingAt0Closed
<1>7. CASE c # 0
  <2>1. ManualTables = {T \in TablesAt(c) : Overlaps(T, a, KeyEnd)}
    BY <1>5, <1>7 DEF Overlapping
  <2> QED
    BY <1>1, <1>4, <2>1
<1> QED
  BY <1>6, <1>7

LEMMA ManualRuns ==
  ASSUME Shape, ManualCompaction
  PROVE  call'.stage = "running"
<1>1. PICK T : call' = [call EXCEPT !.stage = "running", !.from = Hi(T)]
  BY Zenon DEF ManualCompaction
<1> QED
  BY <1>1 DEF Shape, Call

\* A request leaves behind it, of its level, only its inputs.
LEMMA RequestBehind ==
  ASSUME Shape, Ordered, call.stage = "armed", NEW l, l = call.level, ManualTables # {},
         NEW picked \in FirstOf(ManualTables),
         NEW in \in Inputs(TablesAt(l), l, levels[l + 1], picked),
         NEW T \in in[1], \A W \in in[1] : Lo(W) <= Lo(T),
         NEW U \in TablesAt(l) \ in[1]
  PROVE  Hi(T) <= Hi(U)
<1>1. /\ l \in 0 .. NumLevels - 2 /\ l \in Nat
      /\ picked # {} /\ picked \subseteq TablesAt(l)
      /\ l = 0 => Isolated(TablesAt(l), picked)
  BY ManualFits, Levels0
<1>2. in[1] \subseteq TablesAt(l) /\ picked \subseteq in[1]
  BY <1>1, InputsFit
<1>3. /\ Tabs(TablesAt(l)) /\ Tabs(TablesAt(l + 1)) /\ levels[l + 1] = TablesAt(l + 1)
      /\ (l # 0 => l \in Deeper /\ levels[l] = TablesAt(l))
  BY <1>1, Levels0 DEF Shape
<1>4. U \in ManualTables /\ U \notin picked
  BY <1>2, ManualAll DEF Ordered
<1>5. l # 0 /\ \E x \in ManualTables : picked = {W \in ManualTables : Lo(W) <= Lo(x)}
  BY <1>4 DEF FirstOf
<1>6. \A V, W \in TablesAt(l) : V # W => Apart(V, W)
  BY <1>3, <1>5 DEF Ordered, LevelsDisjoint, Apart
<1>7. \A W \in TablesAt(l) : Lo(W) \in Nat /\ Hi(W) \in Nat /\ Lo(W) <= Hi(W)
  BY <1>3, TabBounds
<1>8. \A W \in picked : Lo(W) < Lo(U)
  <2>1. PICK x \in ManualTables : picked = {W \in ManualTables : Lo(W) <= Lo(x)}
    BY <1>5
  <2>2. \A W \in picked : W \in TablesAt(l) /\ Lo(W) <= Lo(x)
    BY <1>1, <2>1
  <2>3. PICK P \in picked : TRUE
    BY <1>1
  <2>4. x \in TablesAt(l)
    BY <1>5 DEF ManualTables, Overlapping
  <2>5. ~(Lo(U) <= Lo(x))
    BY <1>4, <2>1
  <2> QED
    BY <1>7, <2>2, <2>4, <2>5
<1>9. Lo(T) < Lo(U)
  <2>1. PICK S, below : S = TablesAt(l) /\ below = levels[l + 1]
    OBVIOUS
  <2>2. l \in Nat /\ l # 0 /\ picked \in SUBSET S /\ picked # {}
    BY <1>1, <1>5, <2>1
  <2>3. Tabs(S) /\ Tabs(below) /\ \A V, W \in S : V # W => Apart(V, W)
    BY <1>3, <1>6, <2>1
  <2>4. in \in Inputs(S, l, below, picked) /\ U \in S \ in[1]
    BY <2>1, Zenon
  <2> QED
    BY ONLY <1>8, <2>2, <2>3, <2>4, T \in in[1], InputsInOrder
<1>10. Apart(T, U)
  BY <1>2, <1>6
<1> QED
  BY <1>2, <1>7, <1>9, <1>10 DEF Apart, Precedes

LEMMA ManualOrder ==
  ASSUME Shape, Ordered, ManualCompaction
  PROVE  Ordered'
<1>1. PICK l : l = call.level
  OBVIOUS
<1>2. /\ call.stage = "armed" /\ ManualTables # {}
      /\ UNCHANGED <<written, mem, imm, level0, levels>>
  BY DEF ManualCompaction
<1>3. PICK picked \in FirstOf(ManualTables) :
        \E in \in Inputs(TablesAt(l), l, levels[l + 1], picked) :
          /\ BeginCompaction(l, in[1], in[2])
          /\ \E T \in in[1] : /\ \A U \in in[1] : Lo(U) <= Lo(T)
                              /\ call' = [call EXCEPT !.stage = "running", !.from = Hi(T)]
  BY <1>1, Zenon DEF ManualCompaction
<1>4. PICK in \in Inputs(TablesAt(l), l, levels[l + 1], picked) :
          /\ BeginCompaction(l, in[1], in[2])
          /\ \E T \in in[1] : /\ \A U \in in[1] : Lo(U) <= Lo(T)
                              /\ call' = [call EXCEPT !.stage = "running", !.from = Hi(T)]
  BY <1>3, Zenon
<1>5. PICK T \in in[1] : /\ \A U \in in[1] : Lo(U) <= Lo(T)
                         /\ call' = [call EXCEPT !.stage = "running", !.from = Hi(T)]
  BY <1>4, Zenon
<1>6. /\ l \in 0 .. NumLevels - 2 /\ picked # {} /\ picked \subseteq TablesAt(l)
      /\ l = 0 => Isolated(TablesAt(l), picked)
  BY <1>1, <1>2, ManualFits
<1>7. Tabs(in[1] \cup in[2]) /\ Replaceable(l, in[1], in[2])
  BY <1>6, InputsFit, InputsReplaceable DEF Ordered
<1>8. call'.stage = "running" /\ call'.level = l /\ call'.from = Hi(T)
  BY <1>1, <1>5 DEF Shape, Call
<1>9. Working'
  BY <1>2, <1>4, <1>7, <1>8, BeginWorking
<1>10. comp'.busy /\ comp'.level = l /\ comp'.in0 = in[1]
  BY <1>4, <1>7, BeginMakes
<1>11. Calling'
  BY <1>2, <1>8, <1>10 DEF Ordered, Calling, Compacting
<1>12. Aged' /\ LevelsDisjoint'
  BY <1>2, AgedUnchanged DEF Ordered, LevelsDisjoint
<1>13. \A i : TablesAt(i)' = TablesAt(i)
  BY <1>2 DEF TablesAt
<1>14. \A i \in 0 .. l - 1 : TablesAt(i) = {}
  BY <1>1, <1>2 DEF Ordered, Behind, Compacting
<1>15. \A U \in TablesAt(l) : Hi(T) <= Hi(U) \/ U \in in[1]
  BY <1>1, <1>2, <1>5, RequestBehind
<1>16. Behind'
  BY <1>8, <1>10, <1>13, <1>14, <1>15 DEF Behind
<1> QED
  BY <1>9, <1>11, <1>12, <1>16 DEF Ordered

LEMMA CallerOrder ==
  ASSUME Shape, Ordered, CallBegin \/ Caller \/ ManualDone
  PROVE  Ordered'
<1>1. UNCHANGED <<written, level0, levels, comp>>
  BY DEF CallBegin, Caller, CallForce, CallFlushed, CallArm, ManualDone
<1>2. LevelsDisjoint' /\ \A i : TablesAt(i)' = TablesAt(i)
  BY <1>1 DEF Ordered, LevelsDisjoint, TablesAt
<1>3. call.stage # "running" /\ call'.stage # "running"
  <2>1. CASE CallBegin
    BY <2>1 DEF CallBegin, NoCall
  <2>2. CASE Caller
    BY <2>2 DEF Caller, CallForce, CallFlushed, CallArm, Shape, Call
  <2>3. CASE ManualDone
    BY <2>3 DEF ManualDone, NoCall, Shape, Call
  <2> QED
    BY <2>1, <2>2, <2>3
<1>4. Working'
  BY <1>1, <1>2, <1>3 DEF Ordered, Working, Replaceable
<1>5. CASE CallForce
  <2>1. mem' = Empty /\ imm' = mem /\ imm = Empty
    BY <1>5 DEF CallForce, Switch, Shape
  <2>2. \A X : Newer(Empty, X) /\ Newer(X, Empty)
    BY EmptyIsSound DEF Newer
  <2>3. Aged'
    BY <1>1, <2>1, <2>2, EmptyIsSound DEF Ordered, Aged, Dated, LastSeq, TablesAt
  <2>4. call'.stage = "wait" /\ call'.level = 0 /\ call'.from = 0
    BY <1>5 DEF CallForce, Ordered, Calling, Shape, Call
  <2> QED
    BY <1>2, <1>4, <2>1, <2>3, <2>4 DEF Ordered, Calling, Behind, Compacting
<1>6. CASE CallBegin \/ CallFlushed \/ CallArm \/ ManualDone
  <2>1. UNCHANGED <<mem, imm, hasImm>>
    BY <1>6 DEF CallBegin, CallFlushed, CallArm, ManualDone
  <2>2. Aged'
    BY <1>1, <2>1, AgedUnchanged DEF Ordered
  <2>3. CASE CallBegin
    BY <1>2, <1>4, <2>2, <2>3 DEF CallBegin, NoCall, Ordered, Calling, Behind, Compacting
  <2>4. CASE CallFlushed
    <3>1. mem = Empty /\ imm = Empty /\ call.level = 0 /\ call.from = 0
      BY <2>4 DEF CallFlushed, Ordered, Calling, Shape
    <3>2. call'.stage = "ready" /\ call'.level = 0 /\ call'.from = 0
      BY <2>4, <3>1 DEF CallFlushed, Shape, Call
    <3>3. \A T \in TablesAt(0) : 0 <= Hi(T)
      BY Levels0, TabBounds DEF Shape
    <3> QED
      BY <1>2, <1>4, <2>1, <2>2, <3>1, <3>2, <3>3 DEF Ordered, Calling, Behind, Compacting
  <2>5. CASE CallArm
    <3>1. call.stage = "ready" /\ call'.stage = "armed" /\ call'.level = call.level
          /\ call'.from = call.from
      BY <2>5 DEF CallArm, Shape, Call
    <3> QED
      BY <1>2, <1>4, <2>1, <2>2, <3>1 DEF Ordered, Calling, Behind, Compacting
  <2>6. CASE ManualDone
    <3>1. PICK l : l = call.level
      OBVIOUS
    <3>2. call.stage = "armed" /\ ManualTables = {}
      BY <2>6 DEF ManualDone
    <3>3. TablesAt(l) = {} /\ \A i \in 0 .. l - 1 : TablesAt(i) = {}
      BY <3>1, <3>2, ManualAll DEF Ordered, Behind, Compacting
    <3>4. l \in Nat /\ l + 1 \in Nat /\ (call.level + 1 < call.max => l + 1 \in Levs)
      BY <3>1, <3>2, LevelsAssumption DEF Shape, Call, Deeper, Levs
    <3>5. CASE call.level + 1 < call.max
      <4>1. call' = [call EXCEPT !.stage = "ready", !.level = @ + 1, !.from = 0]
        BY <2>6, <3>5 DEF ManualDone
      <4>2. call'.stage = "ready" /\ call'.level = l + 1 /\ call'.from = 0
        BY <3>1, <4>1 DEF Shape, Call
      <4>3. \A i \in 0 .. (l + 1) - 1 : TablesAt(i) = {}
        BY <3>3, <3>4
      <4>4. \A T \in TablesAt(l + 1) : 0 <= Hi(T)
        BY <3>4, <3>5, TabBounds DEF Shape
      <4>5. Behind'
        BY <1>2, <4>2, <4>3, <4>4 DEF Behind
      <4>6. Calling'
        BY <2>1, <3>2, <4>2 DEF Ordered, Calling, Compacting
      <4> QED
        BY <1>2, <1>4, <2>2, <4>5, <4>6 DEF Ordered
    <3>6. CASE ~(call.level + 1 < call.max)
      <4>1. call'.stage = "none"
        BY <2>6, <3>6 DEF ManualDone, NoCall
      <4> QED
        BY <1>2, <1>4, <2>2, <4>1 DEF Ordered, Calling, Behind, Compacting
    <3> QED
      BY <3>5, <3>6
  <2> QED
    BY <1>6, <2>3, <2>4, <2>5, <2>6
<1> QED
  BY <1>5, <1>6 DEF Caller

LEMMA FlushKeepsOrder ==
  ASSUME Shape, Ordered, Flush
  PROVE  Ordered'
<1>1. Aged' /\ LevelsDisjoint' /\ Working'
  BY FlushOrder, FlushWorking DEF Ordered
<1>2. UNCHANGED <<mem, comp, call>> /\ imm' = Empty
  BY DEF Flush
<1>3. Calling'
  BY <1>2 DEF Ordered, Calling, Compacting
<1>4. ASSUME Compacting
      PROVE  \A i : TablesAt(i)' = TablesAt(i)
  <2>1. imm = Empty
    BY <1>4 DEF Ordered, Calling
  <2>2. UNCHANGED <<level0, levels>>
    BY <2>1 DEF Flush
  <2> QED
    BY <2>2 DEF TablesAt
<1>5. Behind'
  BY <1>2, <1>4 DEF Ordered, Behind, Compacting
<1> QED
  BY <1>1, <1>3, <1>5 DEF Ordered

LEMMA NextOrder ==
  ASSUME Shape, Ordered, ~WritesDuringCall, [Next]_vars
  PROVE  Ordered'
<1>1. CASE UNCHANGED vars
  <2>1. UNCHANGED <<written, mem, imm, level0, levels, comp, call>>
    BY <1>1 DEF vars
  <2>2. Aged' /\ LevelsDisjoint' /\ Working'
    BY <2>1, AgedUnchanged DEF Ordered, LevelsDisjoint, Working, Replaceable, TablesAt
  <2> QED
    BY <2>1, <2>2 DEF Ordered, Calling, Behind, Compacting, TablesAt
<1>2. CASE Background
  BY <1>2, FlushKeepsOrder, AutoOrder, InstallOrder, ManualOrder, CallerOrder DEF Background
<1> QED
  BY <1>1, <1>2, UserOrder, CallerOrder DEF Next

LEMMA InitOrder ==
  ASSUME Init
  PROVE  Ordered
<1>1. \A l \in Levs : TablesAt(l) = {}
  BY Levels0 DEF Init, TablesAt, Deeper, ToSet
<1>2. Aged
  BY <1>1, EmptyIsSound DEF Init, Aged, Dated, Newer
<1>3. LevelsDisjoint
  BY DEF Init, LevelsDisjoint
<1>4. Working /\ Calling /\ Behind
  BY DEF Init, Working, Calling, Behind, Compacting, Idle, NoCall
<1> QED
  BY <1>2, <1>3, <1>4 DEF Ordered

------------------------------------------------------------------------------
(* What holds while nobody writes during a call of CompactRange.           *)

\* The inductive invariant: layers in order of age, levels disjoint, the
\* compaction at work ready to be installed, nothing left behind the call.
THEOREM OrderAlways ==
  ASSUME ~WritesDuringCall
  PROVE  Spec => []Ordered
<1>1. Init => Ordered
  BY InitOrder
<1>2. Shape /\ Ordered /\ [Next]_vars => Ordered'
  BY NextOrder
<1> QED
  BY <1>1, <1>2, ShapeAlways, PTL DEF Spec

\* LevelsDisjoint: the tables of a level below 0 do not overlap, whatever was
\* flushed, moved, compacted and installed, in any order
\* (PickLevelForMemTableOutput, InstallCompactionResults).
THEOREM TablesDisjoint ==
  ASSUME ~WritesDuringCall
  PROVE  Spec => []LevelsDisjoint
<1>1. Ordered => LevelsDisjoint
  BY DEF Ordered
<1> QED
  BY <1>1, OrderAlways, PTL

\* LayerOrder: of any key, what a layer holds is older than what every newer
\* layer holds.  (With a write during the call of CompactRange it need not be:
\* a memtable can be flushed in between the inputs of its compaction.)
\* DBImpl::Get stops, and hides layers, on the strength of this.
THEOREM LayersInOrder ==
  ASSUME ~WritesDuringCall
  PROVE  Spec => []LayerOrder
<1>1. ASSUME Shape, Ordered
      PROVE  LayerOrder
  <2> DEFINE n == Len(level0)
  <2>1. /\ n \in Nat /\ DOMAIN level0 = 1 .. n
        /\ \A i \in 1 .. n : level0[i] \in TablesAt(0)
    <3>1. level0 \in Seq(ToSet(level0))
      BY <1>1 DEF Shape
    <3>2. n \in Nat /\ DOMAIN level0 = 1 .. n /\ ToSet(level0) = {level0[i] : i \in 1 .. n}
      BY <3>1, SeqOfItsRange
    <3> QED
      BY <3>2, Levels0
  <2>2. /\ LayerCount = 2 + n + NumLevels - 1
        /\ \A i : LayerTables(i) = IF i = 1 THEN {mem} ELSE IF i = 2 THEN {imm}
                                   ELSE IF i <= 2 + n THEN {level0[i - 2]}
                                   ELSE levels[i - 2 - n]
    BY DEF LayerCount, LayerTables, LevelOf
  <2> HIDE DEF n
  <2>3. \A i \in 1 .. LayerCount : \A k : \A s \in LayerSeqs(i, k) :
          \E T \in LayerTables(i) : Holds(T, k, s)
    BY DEF LayerSeqs, Holds
  <2>4. ASSUME NEW i \in 1 .. LayerCount, NEW j \in 1 .. LayerCount, i < j,
               NEW T \in LayerTables(i), NEW U \in LayerTables(j)
        PROVE  Newer(T, U)
    <3>1. i \in Nat /\ j \in Nat /\ 1 <= i /\ i < j /\ j <= 2 + n + NumLevels - 1
          /\ NumLevels \in Nat
      BY <2>1, <2>2, <2>4, LevelsAssumption
    <3>2. \/ U = imm /\ j = 2
          \/ j > 2 /\ j <= 2 + n /\ j - 2 \in 1 .. n /\ U = level0[j - 2] /\ U \in TablesAt(0)
          \/ j > 2 + n /\ j - 2 - n \in Deeper /\ U \in TablesAt(j - 2 - n)
      <4>1. j = 2 => U = imm
        BY <2>2, <2>4
      <4>2. ASSUME j > 2, j <= 2 + n
            PROVE  j - 2 \in 1 .. n /\ U = level0[j - 2] /\ U \in TablesAt(0)
        <5>1. j - 2 \in 1 .. n
          BY <2>1, <3>1, <4>2
        <5>2. U = level0[j - 2]
          BY <2>2, <2>4, <3>1, <4>2
        <5> QED
          BY <2>1, <5>1, <5>2
      <4>3. ASSUME j > 2 + n
            PROVE  j - 2 - n \in Deeper /\ U \in TablesAt(j - 2 - n)
        <5>1. j - 2 - n \in Deeper
          BY <2>1, <3>1, <4>3 DEF Deeper
        <5>2. U \in levels[j - 2 - n]
          <6>1. j # 1 /\ j # 2 /\ ~(j <= 2 + n)
            BY <2>1, <3>1, <4>3
          <6> QED
            BY <2>2, <2>4, <6>1
        <5> QED
          BY <5>1, <5>2, Levels0
      <4> QED
        BY <2>1, <3>1, <4>1, <4>2, <4>3
    <3>3. \/ T = mem /\ i = 1
          \/ T = imm /\ i = 2
          \/ i > 2 /\ i <= 2 + n /\ i - 2 \in 1 .. n /\ T = level0[i - 2] /\ T \in TablesAt(0)
          \/ i > 2 + n /\ i - 2 - n \in Deeper /\ T \in TablesAt(i - 2 - n)
      <4>1. (i = 1 => T = mem) /\ (i = 2 => T = imm)
        BY <2>2, <2>4
      <4>2. ASSUME i > 2, i <= 2 + n
            PROVE  i - 2 \in 1 .. n /\ T = level0[i - 2] /\ T \in TablesAt(0)
        <5>1. i - 2 \in 1 .. n
          BY <2>1, <3>1, <4>2
        <5>2. T = level0[i - 2]
          BY <2>2, <2>4, <3>1, <4>2
        <5> QED
          BY <2>1, <5>1, <5>2
      <4>3. ASSUME i > 2 + n
            PROVE  i - 2 - n \in Deeper /\ T \in TablesAt(i - 2 - n)
        <5>1. i - 2 - n \in Deeper
          BY <2>1, <3>1, <4>3 DEF Deeper
        <5>2. T \in levels[i - 2 - n]
          <6>1. i # 1 /\ i # 2 /\ ~(i <= 2 + n)
            BY <2>1, <3>1, <4>3
          <6> QED
            BY <2>2, <2>4, <6>1
        <5> QED
          BY <5>1, <5>2, Levels0
      <4> QED
        BY <2>1, <3>1, <4>1, <4>2, <4>3
    <3>4. \A l \in Levs : \A X \in TablesAt(l) : Newer(mem, X) /\ Newer(imm, X)
      BY <1>1 DEF Ordered, Aged
    <3>5. Newer(mem, imm)
      BY <1>1 DEF Ordered, Aged
    <3>6. \A l, m \in Levs : l < m => \A X \in TablesAt(l), Y \in TablesAt(m) : Newer(X, Y)
      BY <1>1 DEF Ordered, Aged
    <3>7. \A l, m \in 1 .. n : l < m => Newer(level0[l], level0[m])
      BY <1>1, <2>1 DEF Ordered, Aged
    <3>8. CASE i <= 2
      BY <2>1, <3>1, <3>2, <3>3, <3>4, <3>5, <3>8, Levels0
    <3>9. CASE i > 2 /\ j <= 2 + n
      <4>1. i - 2 < j - 2 /\ j > 2 /\ i <= 2 + n
        BY <2>1, <3>1, <3>9
      <4>2. T = level0[i - 2] /\ U = level0[j - 2] /\ i - 2 \in 1 .. n /\ j - 2 \in 1 .. n
        BY <2>1, <3>1, <3>2, <3>3, <3>9, <4>1
      <4> QED
        BY <3>7, <4>1, <4>2
    <3>10. CASE i > 2 /\ i <= 2 + n /\ j > 2 + n
      <4>1. T \in TablesAt(0) /\ j - 2 - n \in Deeper /\ U \in TablesAt(j - 2 - n)
        BY <2>1, <3>1, <3>2, <3>3, <3>10
      <4>2. 0 < j - 2 - n
        BY <2>1, <3>1, <3>10
      <4> QED
        BY <3>6, <4>1, <4>2, Levels0
    <3>11. CASE i > 2 + n
      <4>1. i - 2 - n \in Deeper /\ T \in TablesAt(i - 2 - n)
            /\ j - 2 - n \in Deeper /\ U \in TablesAt(j - 2 - n)
        BY <2>1, <3>1, <3>2, <3>3, <3>11
      <4>2. i - 2 - n < j - 2 - n
        BY <2>1, <3>1
      <4> QED
        BY <3>6, <4>1, <4>2, Levels0
    <3> QED
      BY <2>1, <3>1, <3>8, <3>9, <3>10, <3>11
  <2>5. Keys \subseteq Nat
    BY KeysAssumption DEF Keys
  <2>6. \A i \in 1 .. LayerCount : \A T \in LayerTables(i) : Sound(T)
    <3> SUFFICES ASSUME NEW i \in 1 .. LayerCount, NEW T \in LayerTables(i)
                 PROVE  Sound(T)
      OBVIOUS
    <3>1. i \in Nat /\ 1 <= i /\ i <= 2 + n + NumLevels - 1 /\ NumLevels \in Nat
      BY <2>1, <2>2, LevelsAssumption
    <3>2. \A l \in Levs : \A X \in TablesAt(l) : Sound(X)
      BY <1>1 DEF Shape, Tabs
    <3>3. CASE i <= 2
      <4>1. i = 1 \/ i = 2
        BY <3>1, <3>3
      <4>2. T = mem \/ T = imm
        BY <2>2, <4>1
      <4> QED
        BY <1>1, <4>2 DEF Shape
    <3>4. CASE i > 2 /\ i <= 2 + n
      <4>1. i - 2 \in 1 .. n /\ T = level0[i - 2]
        BY <2>1, <2>2, <3>1, <3>4
      <4> QED
        BY <2>1, <3>2, <4>1, Levels0
    <3>5. CASE i > 2 + n
      <4>1. i - 2 - n \in Deeper
        BY <2>1, <3>1, <3>5 DEF Deeper
      <4>2. i # 1 /\ i # 2 /\ ~(i <= 2 + n)
        BY <2>1, <3>1, <3>5
      <4>3. T \in levels[i - 2 - n]
        BY <2>2, <4>2
      <4> QED
        BY <3>2, <4>1, <4>3, Levels0
    <3> QED
      BY <2>1, <3>1, <3>3, <3>4, <3>5
  <2>7. ASSUME NEW k \in Keys, NEW i \in 1 .. LayerCount, NEW j \in 1 .. LayerCount, i < j,
               NEW s \in LayerSeqs(i, k), NEW q \in LayerSeqs(j, k)
        PROVE  q < s
    <3>1. PICK T \in LayerTables(i) : Holds(T, k, s)
      BY <2>3
    <3>2. PICK U \in LayerTables(j) : Holds(U, k, q)
      BY <2>3
    <3>3. k \in Nat /\ s \in Nat /\ q \in Nat
      BY <2>5, <2>6, <3>1, <3>2, HoldsType
    <3>4. Newer(T, U)
      BY <2>4, <2>7
    <3> QED
      BY <3>1, <3>2, <3>3, <3>4 DEF Newer
  <2> QED
    BY <2>7 DEF LayerOrder
<1> QED
  BY <1>1, ShapeAlways, OrderAlways, PTL

\* CallEmptiesLevels: CompactRange leaves nothing above the deepest level that
\* held tables when it was called, whatever the background thread did
\* meanwhile (DBImpl::CompactRange, TEST_CompactRange's requests).
THEOREM CompactRangeEmpties == Spec => CallEmptiesLevels
<1>1. ASSUME Shape, Ordered, ~WritesDuringCall, [Next]_vars,
             call.stage # "none", call'.stage = "none"
      PROVE  \A l \in 0 .. call.max - 1 : TablesAt(l) = {}
  <2>1. ManualDone
    <3>1. \/ UNCHANGED call \/ CallBegin \/ Caller
          \/ InstallCompaction \/ ManualCompaction \/ ManualDone
      BY <1>1 DEF Next, User, Background, vars, WriteOne, GetSnapshot, ReleaseSnapshot,
                  SwitchMemTable, Flush, AutoCompaction
    <3>2. ~CallBegin
      BY <1>1 DEF CallBegin
    <3>3. ~Caller
      BY <1>1 DEF Caller, CallForce, CallFlushed, CallArm, Shape, Call
    <3>4. ~InstallCompaction
      BY <1>1 DEF InstallCompaction, Shape, Call
    <3>5. ~ManualCompaction
      BY <1>1, ManualRuns
    <3> QED
      BY <1>1, <3>1, <3>2, <3>3, <3>4, <3>5
  <2>2. PICK c : c = call.level
    OBVIOUS
  <2>3. call.stage = "armed" /\ ManualTables = {} /\ ~(call.level + 1 < call.max)
    BY <1>1, <2>1 DEF ManualDone, Shape, Call
  <2>4. TablesAt(c) = {} /\ \A i \in 0 .. c - 1 : TablesAt(i) = {}
    BY <1>1, <2>2, <2>3, ManualAll DEF Ordered, Behind, Compacting
  <2>5. c \in Nat /\ call.max \in Nat /\ call.max - 1 <= c
    BY <1>1, <2>2, <2>3 DEF Shape, Call
  <2> QED
    BY <2>4, <2>5
<1>2. Shape /\ Ordered /\ ~WritesDuringCall /\ [Next]_vars
        => [call.stage # "none" /\ call'.stage = "none" /\ ~WritesDuringCall =>
              \A l \in 0 .. call.max - 1 : TablesAt(l) = {}]_vars
  BY <1>1
<1>3. CASE ~WritesDuringCall
  <2>1. Shape /\ Ordered /\ [Next]_vars
          => [call.stage # "none" /\ call'.stage = "none" /\ ~WritesDuringCall =>
                \A l \in 0 .. call.max - 1 : TablesAt(l) = {}]_vars
    BY <1>2, <1>3
  <2> QED
    BY <1>3, <2>1, ShapeAlways, OrderAlways, PTL DEF Spec, CallEmptiesLevels
<1>4. CASE WritesDuringCall
  <2>1. [Next]_vars
          => [call.stage # "none" /\ call'.stage = "none" /\ ~WritesDuringCall =>
                \A l \in 0 .. call.max - 1 : TablesAt(l) = {}]_vars
    BY <1>4
  <2> QED
    BY <2>1, PTL DEF Spec, CallEmptiesLevels
<1> QED
  BY <1>3, <1>4
==============================================================================
