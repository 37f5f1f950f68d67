------------------------------ MODULE LevelsReads ------------------------------
(***************************************************************************)
(* Theorems of Levels about what its readers get, for any keys, writes,    *)
(* snapshots and number of levels: while nobody writes during a call of    *)
(* CompactRange, every reader gets what was written before it.  A value is *)
(* an increasing sequence of writes, so it is known once the set of them   *)
(* is; the set is what the proof follows through flushes and compactions.  *)
(* Types, with or without such writes, come last.                          *)
(***************************************************************************)
EXTENDS LevelsProofs

------------------------------------------------------------------------------
(* Increasing sequences.                                                   *)

Increasing(s) == s \in Seq(Nat) /\ \A i, j \in 1 .. Len(s) : i < j => s[i] < s[j]

\* All of s comes before all of t.
AllBefore(s, t) == \A a \in ToSet(s), b \in ToSet(t) : a < b

\* What a sequence holds, by its places.
LEMMA ToSetOf == ASSUME NEW A, NEW s \in Seq(A)
                 PROVE  ToSet(s) = {s[i] : i \in 1 .. Len(s)} /\ ToSet(s) \subseteq A
BY DEF ToSet

\* Increasing sequences, one before the other, join to an increasing one.
LEMMA Joined ==
  ASSUME NEW s, NEW t, Increasing(s), Increasing(t), AllBefore(s, t)
  PROVE  Increasing(s \o t) /\ ToSet(s \o t) = ToSet(s) \cup ToSet(t)
<1>1. s \in Seq(Nat) /\ t \in Seq(Nat)
  BY DEF Increasing
<1> DEFINE u == s \o t
           m == Len(s)
           n == Len(t)
<1>2. /\ u \in Seq(Nat) /\ Len(u) = m + n /\ m \in Nat /\ n \in Nat
      /\ \A i \in 1 .. m : u[i] = s[i]
      /\ \A i \in m + 1 .. m + n : u[i] = t[i - m]
  BY <1>1
<1>3. /\ ToSet(s) = {s[i] : i \in 1 .. m} /\ ToSet(t) = {t[i] : i \in 1 .. n}
      /\ ToSet(u) = {u[i] : i \in 1 .. Len(u)}
  BY <1>1, <1>2, ToSetOf
<1>4. /\ \A i, j \in 1 .. m : i < j => s[i] < s[j]
      /\ \A i, j \in 1 .. n : i < j => t[i] < t[j]
  BY DEF Increasing
<1>5. \A i \in 1 .. m, j \in 1 .. n : s[i] < t[j]
  BY <1>3 DEF AllBefore
<1> HIDE DEF u, m, n
<1>6. \A i \in 1 .. m + n : i \in 1 .. m \/ (i \in m + 1 .. m + n /\ i - m \in 1 .. n)
  BY <1>2
<1>7. \A i \in 1 .. m : i \in 1 .. m + n
  BY <1>2
<1>8. \A i \in 1 .. n : i + m \in m + 1 .. m + n /\ i + m \in 1 .. m + n /\ (i + m) - m = i
  BY <1>2
<1>9. \A i, j \in 1 .. m + n : i < j => u[i] < u[j]
  <2> SUFFICES ASSUME NEW i \in 1 .. m + n, NEW j \in 1 .. m + n, i < j
               PROVE  u[i] < u[j]
    OBVIOUS
  <2>1. CASE i \in 1 .. m /\ j \in 1 .. m
    BY <1>2, <1>4, <2>1
  <2>2. CASE i \in 1 .. m /\ j \in m + 1 .. m + n /\ j - m \in 1 .. n
    BY <1>2, <1>5, <2>2
  <2>3. CASE i \in m + 1 .. m + n /\ i - m \in 1 .. n
    <3>1. j \in m + 1 .. m + n /\ j - m \in 1 .. n /\ i - m < j - m
      BY <1>2, <2>3
    <3> QED
      BY <1>2, <1>4, <2>3, <3>1
  <2> QED
    BY <1>6, <2>1, <2>2, <2>3
<1>10. ToSet(u) = ToSet(s) \cup ToSet(t)
  <2>1. \A a \in ToSet(u) : a \in ToSet(s) \cup ToSet(t)
    BY <1>2, <1>3, <1>6
  <2>2. \A a \in ToSet(s) : a \in ToSet(u)
    BY <1>2, <1>3, <1>7
  <2>3. \A a \in ToSet(t) : a \in ToSet(u)
    BY <1>2, <1>3, <1>8
  <2> QED
    BY <2>1, <2>2, <2>3
<1> QED
  BY <1>2, <1>9, <1>10 DEF Increasing, u

\* An increasing sequence is known by the set of its elements.
LEMMA SameSequence ==
  ASSUME NEW s, NEW t, Increasing(s), Increasing(t), ToSet(s) = ToSet(t)
  PROVE  s = t
<1> DEFINE m == Len(s)
           n == Len(t)
           Same(i) == i \in 1 .. m /\ i \in 1 .. n /\ s[i] = t[i]
           Differ == {i \in Nat \ {0} : (i <= m \/ i <= n) /\ ~Same(i)}
<1>1. /\ s \in Seq(Nat) /\ t \in Seq(Nat) /\ m \in Nat /\ n \in Nat
      /\ \A i \in 1 .. m : s[i] \in Nat
      /\ \A i \in 1 .. n : t[i] \in Nat
  BY DEF Increasing
<1>2. /\ \A i \in 1 .. m : \E j \in 1 .. n : s[i] = t[j]
      /\ \A i \in 1 .. n : \E j \in 1 .. m : t[i] = s[j]
  <2>1. ToSet(s) = {s[i] : i \in 1 .. m} /\ ToSet(t) = {t[i] : i \in 1 .. n}
    BY <1>1, ToSetOf
  <2> HIDE DEF m, n
  <2> QED
    BY <2>1
<1>3. /\ \A i, j \in 1 .. m : i < j => s[i] < s[j]
      /\ \A i, j \in 1 .. n : i < j => t[i] < t[j]
  BY DEF Increasing
<1> HIDE DEF m, n
<1>4. Differ = {}
  <2> SUFFICES ASSUME Differ # {} PROVE FALSE
    OBVIOUS
  <2>1. PICK i \in Differ : \A j \in Differ : i <= j
    <3>1. Differ \in SUBSET Nat
      OBVIOUS
    <3> HIDE DEF Differ
    <3> QED
      BY <3>1, LeastElement
  <2>2. i \in Nat \ {0} /\ ~Same(i) /\ (i <= m \/ i <= n)
    OBVIOUS
  <2>3. \A j \in Nat \ {0} : j < i => j \in 1 .. m /\ j \in 1 .. n /\ s[j] = t[j]
    <3>1. \A j \in Nat \ {0} : j < i => (j <= m \/ j <= n) /\ j \notin Differ
      <4> HIDE DEF Differ
      <4> QED
        BY <1>1, <2>1, <2>2
    <3> QED
      BY <3>1
  <2> HIDE DEF Differ
  <2>4. CASE i \in 1 .. m
    <3>1. PICK j \in 1 .. n : s[i] = t[j]
      BY <1>2, <2>4
    <3>2. ~(j < i)
      <4> SUFFICES ASSUME j < i PROVE FALSE
        OBVIOUS
      <4>1. j \in 1 .. m /\ s[j] = t[j]
        BY <2>3
      <4> QED
        BY <1>1, <1>3, <2>4, <3>1, <4>1
    <3>3. i \in 1 .. n /\ j # i
      BY <1>1, <2>2, <2>4, <3>1, <3>2
    <3>4. t[i] < s[i]
      BY <1>1, <1>3, <2>4, <3>1, <3>2, <3>3
    <3>5. PICK l \in 1 .. m : t[i] = s[l]
      BY <1>2, <3>3
    <3>6. l < i
      <4>1. l # i /\ (i < l => s[i] < s[l])
        BY <1>1, <1>3, <2>4, <3>3, <3>4, <3>5
      <4> QED
        BY <1>1, <2>4, <3>4, <3>5, <4>1
    <3>7. l \in 1 .. n /\ s[l] = t[l]
      BY <2>3, <3>5, <3>6
    <3> QED
      BY <1>1, <1>3, <3>3, <3>5, <3>6, <3>7
  <2>5. CASE i \notin 1 .. m
    <3>1. i \in 1 .. n
      BY <1>1, <2>2, <2>5
    <3>2. PICK l \in 1 .. m : t[i] = s[l]
      BY <1>2, <3>1
    <3>3. l < i
      BY <1>1, <2>2, <2>5, <3>2
    <3>4. l \in 1 .. n /\ s[l] = t[l]
      BY <2>3, <3>2, <3>3
    <3> QED
      BY <1>1, <1>3, <3>1, <3>2, <3>3, <3>4
  <2> QED
    BY <2>4, <2>5
<1>5. \A i \in Nat \ {0} : i <= m \/ i <= n => Same(i)
  <2> HIDE DEF Same
  <2> QED
    BY <1>4
<1>6. m = n /\ \A i \in 1 .. m : s[i] = t[i]
  BY <1>1, <1>5
<1> QED
  <2>1. Len(s) = Len(t) /\ \A i \in 1 .. Len(s) : s[i] = t[i]
    BY <1>6 DEF m, n
  <2>2. s = [i \in 1 .. Len(s) |-> s[i]] /\ t = [i \in 1 .. Len(t) |-> t[i]]
    BY <1>1
  <2>3. [i \in 1 .. Len(s) |-> s[i]] = [i \in 1 .. Len(t) |-> t[i]]
    BY <2>1, Zenon
  <2> QED
    BY <2>2, <2>3, Zenon

\* The function that FlattenSeq computes: it exists, since it does up to each
\* place of f.
LEMMA FlattenDefined ==
  ASSUME NEW A, NEW f \in Seq(Seq(A)), Len(f) # 0
  PROVE  \E g : /\ g = [i \in 1 .. Len(f) |-> IF i = 1 THEN f[i] ELSE g[i - 1] \o f[i]]
                /\ FlattenSeq(f) = g[Len(f)]
<1> DEFINE IsFlat(g, m) == g = [i \in 1 .. m |-> IF i = 1 THEN f[i] ELSE g[i - 1] \o f[i]]
           flatten[i \in 1 .. Len(f)] == IF i = 1 THEN f[i] ELSE flatten[i - 1] \o f[i]
           Missing == {m \in Nat : ~\E g : IsFlat(g, m)}
<1>1. Missing = {}
  <2> SUFFICES ASSUME Missing # {} PROVE FALSE
    OBVIOUS
  <2>1. PICK m \in Missing : \A n \in Missing : m <= n
    <3>1. Missing \in SUBSET Nat
      OBVIOUS
    <3> HIDE DEF Missing
    <3> QED
      BY <3>1, LeastElement
  <2>2. m # 0
    <3>1. IsFlat([i \in 1 .. 0 |-> <<>>], 0)
      OBVIOUS
    <3> HIDE DEF IsFlat
    <3> QED
      BY <3>1
  <2>3. m - 1 \in Nat /\ m - 1 \notin Missing
    <3>1. m \in Nat
      OBVIOUS
    <3> HIDE DEF Missing
    <3> QED
      BY <2>1, <2>2, <3>1
  <2>4. PICK g : IsFlat(g, m - 1)
    BY <2>3
  <2> DEFINE h == [i \in 1 .. m |-> IF i < m THEN g[i]
                                    ELSE IF m = 1 THEN f[m] ELSE g[m - 1] \o f[m]]
  <2>5. ASSUME NEW i \in 1 .. m
        PROVE  h[i] = IF i = 1 THEN f[i] ELSE h[i - 1] \o f[i]
    <3>1. CASE i = m
      BY <2>2, <2>3, <3>1
    <3>2. CASE i < m
      <4>1. i \in 1 .. m - 1 /\ (i # 1 => i - 1 \in 1 .. m - 1 /\ i - 1 \in 1 .. m /\ i - 1 < m)
        BY <2>3, <3>2
      <4>2. g[i] = IF i = 1 THEN f[i] ELSE g[i - 1] \o f[i]
        BY <2>4, <4>1
      <4>3. h[i] = g[i] /\ (i # 1 => h[i - 1] = g[i - 1])
        BY <3>2, <4>1
      <4> HIDE DEF h
      <4> QED
        BY <4>2, <4>3
    <3> QED
      BY <3>1, <3>2
  <2>6. IsFlat(h, m)
    <3>1. h = [i \in 1 .. m |-> h[i]]
      OBVIOUS
    <3> HIDE DEF h
    <3> QED
      BY <2>5, <3>1
  <2> HIDE DEF IsFlat, h
  <2> QED
    BY <2>1, <2>6
<1>2. Len(f) \in Nat
  OBVIOUS
<1>3. \E g : IsFlat(g, Len(f))
  BY <1>1, <1>2
<1>4. FlattenSeq(f) = flatten[Len(f)]
  BY DEF FlattenSeq
<1>5. flatten = [i \in 1 .. Len(f) |-> IF i = 1 THEN f[i] ELSE flatten[i - 1] \o f[i]]
  <2>1. \E g : g = [i \in 1 .. Len(f) |-> IF i = 1 THEN f[i] ELSE g[i - 1] \o f[i]]
    BY <1>3, Zenon
  <2> HIDE <1>1, <1>2, <1>3, <1>4
  <2> QED
    BY <2>1, Zenon
<1> HIDE DEF flatten
<1> QED
  BY <1>4, <1>5, Zenon

\* Sequences that follow one another, put together, increase as they do.
LEMMA Flattened ==
  ASSUME NEW f \in Seq(Seq(Nat)),
         \A i \in 1 .. Len(f) : Increasing(f[i]),
         \A i, j \in 1 .. Len(f) : i < j => AllBefore(f[i], f[j])
  PROVE  /\ Increasing(FlattenSeq(f))
         /\ \A a \in Nat : a \in ToSet(FlattenSeq(f)) <=> \E i \in 1 .. Len(f) : a \in ToSet(f[i])
<1>1. CASE Len(f) = 0
  <2>1. FlattenSeq(f) = <<>>
    BY <1>1 DEF FlattenSeq
  <2>2. Increasing(<<>>) /\ ToSet(<<>>) = {}
    BY DEF Increasing, ToSet
  <2> QED
    BY <1>1, <2>1, <2>2
<1>2. CASE Len(f) # 0
  <2> DEFINE N == Len(f)
  <2>1. N \in Nat \ {0}
    BY <1>2
  <2>2. PICK g : /\ g = [i \in 1 .. Len(f) |-> IF i = 1 THEN f[i] ELSE g[i - 1] \o f[i]]
                 /\ FlattenSeq(f) = g[Len(f)]
    BY <1>2, FlattenDefined
  <2>3. \A i \in 1 .. N : g[i] = IF i = 1 THEN f[i] ELSE g[i - 1] \o f[i]
    BY <2>2
  <2>4. /\ \A i \in 1 .. N : Increasing(f[i])
        /\ \A i, j \in 1 .. N : i < j => AllBefore(f[i], f[j])
        /\ FlattenSeq(f) = g[N]
    BY <2>2
  <2> HIDE DEF N
  <2> DEFINE Good(n) == /\ Increasing(g[n])
                        /\ \A a \in Nat : a \in ToSet(g[n]) <=> \E i \in 1 .. n : a \in ToSet(f[i])
             Bad == {n \in 1 .. N : ~Good(n)}
  <2>5. Good(1)
    BY <2>1, <2>3, <2>4
  <2>6. ASSUME NEW n \in 1 .. N, n # 1, Good(n - 1) PROVE Good(n)
    <3>1. PICK m : m = n - 1 /\ m \in 1 .. N /\ m < n /\ m \in Nat
      BY <2>1, <2>6
    <3>2. g[n] = g[m] \o f[n] /\ Increasing(g[m]) /\ Increasing(f[n])
      BY <2>3, <2>4, <2>6, <3>1
    <3>3. \A a \in Nat : a \in ToSet(g[m]) <=> \E i \in 1 .. m : a \in ToSet(f[i])
      BY <2>6, <3>1
    <3>4. ToSet(g[m]) \subseteq Nat /\ ToSet(f[n]) \subseteq Nat
      BY <3>2, ToSetOf DEF Increasing
    <3>5. AllBefore(g[m], f[n])
      <4> SUFFICES ASSUME NEW a \in ToSet(g[m]), NEW b \in ToSet(f[n]) PROVE a < b
        BY DEF AllBefore
      <4>1. PICK i \in 1 .. m : a \in ToSet(f[i])
        BY <3>3, <3>4
      <4>2. i \in 1 .. N /\ i < n
        BY <2>1, <3>1
      <4> QED
        BY <2>4, <4>1, <4>2 DEF AllBefore
    <3>6. Increasing(g[n]) /\ ToSet(g[n]) = ToSet(g[m]) \cup ToSet(f[n])
      BY <3>2, <3>5, Joined
    <3>7. \A i \in 1 .. n : i \in 1 .. m \/ i = n
      BY <3>1
    <3>8. n \in 1 .. n /\ \A i \in 1 .. m : i \in 1 .. n
      BY <3>1
    <3>9. \A a \in Nat : a \in ToSet(g[n]) <=> \E i \in 1 .. n : a \in ToSet(f[i])
      BY <3>3, <3>6, <3>7, <3>8
    <3> QED
      BY <3>6, <3>9
  <2> HIDE DEF Good
  <2>7. Bad = {}
    <3> SUFFICES ASSUME Bad # {} PROVE FALSE
      OBVIOUS
    <3>1. Bad \in SUBSET Nat
      BY <2>1
    <3>2. PICK m \in Bad : \A n \in Bad : m <= n
      <4> HIDE DEF Bad
      <4> QED
        BY <3>1, LeastElement
    <3>3. m \in 1 .. N /\ ~Good(m) /\ m # 1
      BY <2>5
    <3>4. m - 1 \in 1 .. N /\ m - 1 < m
      BY <2>1, <3>3
    <3>5. m - 1 \notin Bad
      <4> HIDE DEF Bad
      <4> QED
        BY <3>1, <3>2, <3>4, <3>3
    <3> QED
      BY <2>6, <3>3, <3>4, <3>5
  <2>8. Good(N)
    BY <2>1, <2>7
  <2>9. \A i : i \in 1 .. N <=> i \in 1 .. Len(f)
    BY DEF N
  <2> QED
    BY <2>4, <2>8 DEF Good, N
<1> QED
  BY <1>1, <1>2

\* The elements of the sequences are those of the result.
LEMMA FlattenType ==
  ASSUME NEW A, NEW f \in Seq(Seq(A))
  PROVE  FlattenSeq(f) \in Seq(A)
<1>1. CASE Len(f) = 0
  <2>1. f = <<>>
    BY <1>1
  <2> QED
    BY <1>1, <2>1 DEF FlattenSeq
<1>2. CASE Len(f) # 0
  <2> DEFINE N == Len(f)
  <2>1. N \in Nat \ {0} /\ \A i \in 1 .. N : f[i] \in Seq(A)
    BY <1>2
  <2>2. PICK g : /\ g = [i \in 1 .. Len(f) |-> IF i = 1 THEN f[i] ELSE g[i - 1] \o f[i]]
                 /\ FlattenSeq(f) = g[Len(f)]
    BY <1>2, FlattenDefined
  <2>3. /\ \A i \in 1 .. N : g[i] = IF i = 1 THEN f[i] ELSE g[i - 1] \o f[i]
        /\ FlattenSeq(f) = g[N]
    BY <2>2
  <2> HIDE DEF N
  <2> DEFINE Bad == {n \in 1 .. N : g[n] \notin Seq(A)}
  <2>4. Bad = {}
    <3> SUFFICES ASSUME Bad # {} PROVE FALSE
      OBVIOUS
    <3>1. Bad \in SUBSET Nat
      BY <2>1
    <3>2. PICK m \in Bad : \A n \in Bad : m <= n
      <4> HIDE DEF Bad
      <4> QED
        BY <3>1, LeastElement
    <3>3. m \in 1 .. N /\ g[m] \notin Seq(A) /\ m # 1
      BY <2>1, <2>3
    <3>4. m - 1 \in 1 .. N /\ m - 1 < m
      BY <2>1, <3>3
    <3>5. m - 1 \notin Bad
      <4> HIDE DEF Bad
      <4> QED
        BY <3>1, <3>2, <3>3, <3>4
    <3>6. g[m - 1] \in Seq(A) /\ f[m] \in Seq(A) /\ g[m] = g[m - 1] \o f[m]
      BY <2>1, <2>3, <3>3, <3>4, <3>5
    <3>7. g[m - 1] \o f[m] \in Seq(A)
      BY <3>6
    <3> QED
      BY <3>3, <3>6, <3>7
  <2> QED
    BY <2>1, <2>3, <2>4
<1> QED
  BY <1>1, <1>2

------------------------------------------------------------------------------
(* Values.                                                                 *)

Ents(C)  == UNION {T.entries : T \in C}
Tombs(C) == UNION {T.tombs : T \in C}

\* A value is made of writes up to the entry's own, and nothing of a deletion.
Valued(e) == /\ Increasing(e.val)
             /\ \A i \in ToSet(e.val) : i \in 1 .. e.seq
             /\ e.type = "deletion" => e.val = <<>>

\* Of each key, every entry is made of writes after all older entries.
Stacked(E) ==
  /\ \A x \in E : EntryLike(x) /\ Valued(x)
  /\ \A x, y \in E : x.key = y.key =>
       /\ x.seq = y.seq => x = y
       /\ x.seq < y.seq => \A i \in ToSet(y.val) : x.seq < i

\* The entries of one key folded: the writes of all of them, in order.
LEMMA FoldedIs ==
  ASSUME NEW k, NEW S, Stacked(S), \A e \in S : e.key = k
  PROVE  /\ Increasing(Folded(S))
         /\ \A a \in Nat : a \in ToSet(Folded(S)) <=> \E e \in S : a \in ToSet(e.val)
<1> DEFINE f == [n \in Seqs |-> ValueAt(S, n)]
<1>1. MaxSeq \in Nat /\ Seqs = 1 .. MaxSeq /\ \A n \in Seqs : n \in Nat
  BY KeysAssumption DEF Seqs
<1>2. \A e \in S : /\ e.seq \in Seqs /\ Increasing(e.val)
                   /\ \A i \in ToSet(e.val) : i \in 1 .. e.seq
  BY DEF Stacked, EntryLike, Valued
<1>3. \A x, y \in S : /\ x.seq = y.seq => x = y
                      /\ x.seq < y.seq => \A i \in ToSet(y.val) : x.seq < i
  BY DEF Stacked
<1>4. \A e \in S : ValueAt(S, e.seq) = e.val
  <2> SUFFICES ASSUME NEW e \in S PROVE ValueAt(S, e.seq) = e.val
    OBVIOUS
  <2>1. PICK x : x = CHOOSE y \in S : y.seq = e.seq
    OBVIOUS
  <2>2. x \in S /\ x.seq = e.seq
    BY <2>1
  <2>3. ValueAt(S, e.seq) = x.val
    BY <2>1 DEF ValueAt
  <2> QED
    BY <1>3, <2>2, <2>3
<1>5. \A n \in Seqs : (\A e \in S : e.seq # n) => ValueAt(S, n) = <<>>
  BY DEF ValueAt
<1>6. Increasing(<<>>) /\ ToSet(<<>>) = {}
  BY DEF Increasing, ToSet
<1>7. \A n \in Seqs : Increasing(ValueAt(S, n)) /\ f[n] = ValueAt(S, n)
  <2>1. \A n \in Seqs : (\E e \in S : e.seq = n) => Increasing(ValueAt(S, n))
    BY <1>2, <1>4
  <2> QED
    BY <1>5, <1>6, <2>1
<1>8. f \in Seq(Seq(Nat)) /\ Len(f) = MaxSeq
  <2>1. \A n \in Seqs : f[n] \in Seq(Nat)
    BY <1>7 DEF Increasing
  <2>2. f = [n \in 1 .. MaxSeq |-> f[n]]
    BY <1>1
  <2> HIDE DEF f
  <2> QED
    BY <1>1, <2>1, <2>2
<1>9. Folded(S) = FlattenSeq(f)
  BY DEF Folded
<1> HIDE DEF f
<1>10. \A n \in Seqs : \A a \in ToSet(f[n]) :
         \E e \in S : e.seq = n /\ a \in ToSet(e.val) /\ a \in 1 .. n
  BY <1>2, <1>4, <1>5, <1>6, <1>7
<1>11. \A i, j \in 1 .. Len(f) : i < j => AllBefore(f[i], f[j])
  <2> SUFFICES ASSUME NEW i \in Seqs, NEW j \in Seqs, i < j,
                      NEW a \in ToSet(f[i]), NEW b \in ToSet(f[j])
               PROVE  a < b
    BY <1>1, <1>8 DEF AllBefore
  <2>1. PICK x \in S : x.seq = i /\ a \in 1 .. i
    BY <1>10
  <2>2. PICK y \in S : y.seq = j /\ b \in ToSet(y.val) /\ b \in 1 .. j
    BY <1>10
  <2>3. i < b
    BY <1>3, <2>1, <2>2
  <2> QED
    BY <1>1, <2>1, <2>2, <2>3
<1>12. /\ Increasing(FlattenSeq(f))
       /\ \A a \in Nat : a \in ToSet(FlattenSeq(f)) <=> \E i \in 1 .. Len(f) : a \in ToSet(f[i])
  BY <1>1, <1>7, <1>8, <1>11, Flattened
<1>13. \A a \in Nat : (\E i \in Seqs : a \in ToSet(f[i])) <=> \E e \in S : a \in ToSet(e.val)
  BY <1>2, <1>4, <1>7, <1>10
<1> QED
  BY <1>1, <1>8, <1>9, <1>12, <1>13

------------------------------------------------------------------------------
(* What a reader gets from a set of entries and a set of tombstones.       *)

\* Something newer than s, and visible at r, puts an end to what key k held.
Wiped(E, X, k, s, r) ==
  \/ \E t \in X : Covers(t, k) /\ s < t.seq /\ t.seq <= r
  \/ \E e \in E : e.key = k /\ e.type # "merge" /\ s < e.seq /\ e.seq <= r

\* Write i is part of what a reader at r gets for key k.
Gives(E, X, k, r, i) ==
  \E e \in E : /\ e.key = k /\ e.seq <= r /\ i \in ToSet(e.val)
               /\ ~Wiped(E, X, k, e.seq, r)

\* Key k has an entry, or is covered by a tombstone, numbered s.
Has(E, X, k, s) == \/ \E e \in E : e.key = k /\ e.seq = s
                   \/ \E t \in X : Covers(t, k) /\ t.seq = s

Counted(E, X) == /\ \A e \in E : e.seq \in Nat \ {0}
                 /\ \A t \in X : t.seq \in Nat \ {0}

\* What is newer is read first, and what is older only if nothing in the newer
\* wipes it.
LEMMA Layered ==
  ASSUME NEW A, NEW X, NEW B, NEW Y, Counted(A, X), Counted(B, Y), NEW k, NEW r \in Nat,
         \A s, q \in Nat : Has(A, X, k, s) /\ Has(B, Y, k, q) => q < s
  PROVE  /\ Wiped(A \cup B, X \cup Y, k, 0, r) <=> Wiped(A, X, k, 0, r) \/ Wiped(B, Y, k, 0, r)
         /\ \A i : Gives(A \cup B, X \cup Y, k, r, i) <=>
                     \/ Gives(A, X, k, r, i)
                     \/ ~Wiped(A, X, k, 0, r) /\ Gives(B, Y, k, r, i)
<1>1. \A s : Wiped(A \cup B, X \cup Y, k, s, r) <=> Wiped(A, X, k, s, r) \/ Wiped(B, Y, k, s, r)
  BY DEF Wiped
<1>2. /\ \A e \in A : e.seq \in Nat /\ (e.key = k => Has(A, X, k, e.seq))
      /\ \A t \in X : t.seq \in Nat /\ (Covers(t, k) => Has(A, X, k, t.seq))
      /\ \A e \in B : e.seq \in Nat /\ (e.key = k => Has(B, Y, k, e.seq))
      /\ \A t \in Y : t.seq \in Nat /\ (Covers(t, k) => Has(B, Y, k, t.seq))
      /\ \A e \in A : 0 < e.seq
      /\ \A t \in X : 0 < t.seq
  BY DEF Counted, Has
<1>3. \A e \in A : e.key = k => ~Wiped(B, Y, k, e.seq, r)
  BY <1>2 DEF Wiped
<1>4. \A e \in B : e.key = k => (Wiped(A, X, k, e.seq, r) <=> Wiped(A, X, k, 0, r))
  <2> SUFFICES ASSUME NEW e \in B, e.key = k
               PROVE  Wiped(A, X, k, e.seq, r) <=> Wiped(A, X, k, 0, r)
    OBVIOUS
  <2>1. /\ \A t \in X : Covers(t, k) => e.seq < t.seq /\ 0 < t.seq
        /\ \A x \in A : x.key = k => e.seq < x.seq /\ 0 < x.seq
    BY <1>2
  <2> QED
    BY <2>1 DEF Wiped
<1>5. ASSUME NEW i
      PROVE  Gives(A \cup B, X \cup Y, k, r, i) <=>
               \/ Gives(A, X, k, r, i)
               \/ ~Wiped(A, X, k, 0, r) /\ Gives(B, Y, k, r, i)
  <2>1. Gives(A \cup B, X \cup Y, k, r, i) <=>
          \/ \E e \in A : /\ e.key = k /\ e.seq <= r /\ i \in ToSet(e.val)
                          /\ ~Wiped(A \cup B, X \cup Y, k, e.seq, r)
          \/ \E e \in B : /\ e.key = k /\ e.seq <= r /\ i \in ToSet(e.val)
                          /\ ~Wiped(A \cup B, X \cup Y, k, e.seq, r)
    BY DEF Gives
  <2>2. /\ \A e \in A : e.key = k =>
             (Wiped(A \cup B, X \cup Y, k, e.seq, r) <=> Wiped(A, X, k, e.seq, r))
        /\ \A e \in B : e.key = k =>
             (Wiped(A \cup B, X \cup Y, k, e.seq, r) <=>
                Wiped(A, X, k, 0, r) \/ Wiped(B, Y, k, e.seq, r))
    BY <1>1, <1>3, <1>4
  <2> QED
    BY <2>1, <2>2 DEF Gives
<1> QED
  BY <1>1, <1>5

------------------------------------------------------------------------------
(* What a compaction makes of the entries of one key in one stripe.        *)

\* The parts of CompactStripe, by name.
Gone(G, T, b)     == {e \in G : e.type = "deletion" \/ HiddenInStripe(e, T, b)}
Settling(G, T, b) == Gone(G, T, b) \cup {e \in G : e.type = "value"}
Settler(G, T, b)  == Newest(Settling(G, T, b))
Operands(G, T, b) == {e \in G : \A s \in Settling(G, T, b) : s.seq < e.seq}
Settled(G, T, b)  ==
  IF Settler(G, T, b) \in Gone(G, T, b)
  THEN {[Settler(G, T, b) EXCEPT !.type = "deletion", !.val = <<>>]}
  ELSE {Settler(G, T, b)}

\* compact_group, case by case: settled, folded onto a settler, folded at the bottom, operands alone.
LEMMA StripeCases ==
  ASSUME NEW G, NEW T, NEW b, NEW oldest, NEW older, NEW base, NEW folds
  PROVE  CompactStripe(G, T, b, oldest, older, base, folds) =
           CASE Settling(G, T, b) # {} /\ Operands(G, T, b) = {} ->
                  IF Settler(G, T, b) \in Gone(G, T, b) /\ b = oldest /\ base
                  THEN {} ELSE Settled(G, T, b)
             [] Settling(G, T, b) # {} /\ Operands(G, T, b) # {} ->
                  {[Newest(G) EXCEPT !.type = "value",
                      !.val = Folded(Operands(G, T, b) \cup Settled(G, T, b))]}
             [] Settling(G, T, b) = {} /\ ~older /\ base ->
                  {[Newest(G) EXCEPT !.type = "value", !.val = Folded(Operands(G, T, b))]}
             [] Settling(G, T, b) = {} /\ (older \/ ~base) ->
                  IF folds /\ Cardinality(Operands(G, T, b)) > 1
                  THEN {[Newest(G) EXCEPT !.val = Folded(Operands(G, T, b))]}
                  ELSE Operands(G, T, b)
BY DEF CompactStripe, Gone, Settling, Settler, Operands, Settled

\* The newest entry of a group is there, and is the newest.
LEMMA NewestOf ==
  ASSUME NEW G, \A e \in G : EntryLike(e), G # {}
  PROVE  Newest(G) \in G /\ \A x \in G : x.seq <= Newest(G).seq
<1> DEFINE Q == {e.seq : e \in G}
<1>1. MaxSeq \in Nat /\ \A e \in G : e.seq \in Nat /\ e.seq <= MaxSeq
  BY KeysAssumption DEF EntryLike, Seqs
<1>2. Q \in SUBSET Nat /\ Q # {} /\ \A q \in Q : q <= MaxSeq
  BY <1>1
<1>3. PICK n \in Q : \A q \in Q : q <= n
  <2> HIDE DEF Q
  <2> QED
    BY <1>1, <1>2, GreatestElement
<1>4. PICK e \in G : e.seq = n
  OBVIOUS
<1>5. \A x \in G : x.seq <= e.seq
  BY <1>3, <1>4
<1> QED
  BY <1>5 DEF Newest

\* Of a stripe, a reader that sees all of it gets the operands and, unless it
\* is gone, what they settle on.
PartsOf(k, G, T, b, ops, S, z, gone) ==
  /\ ops \subseteq G /\ S \subseteq G /\ gone \subseteq S
  /\ \A e \in G : e.type # "merge" => e \in S
  /\ \A e \in S : e.type # "merge" \/ HiddenInStripe(e, T, b)
  /\ \A e \in S \ gone : e.type = "value" /\ ~HiddenInStripe(e, T, b)
  /\ S # {} => z \in S /\ \A e \in ops : z.seq < e.seq
  /\ \A e \in ops : e.type = "merge" /\ ~HiddenInStripe(e, T, b)
  /\ ops # {} => Newest(G) \in ops
  /\ S = {} => ops = G
  /\ \A i : Gives(G, T, k, b, i) <=>
              \/ \E e \in ops : i \in ToSet(e.val)
              \/ S # {} /\ z \notin gone /\ i \in ToSet(z.val)

\* What a stripe of one key is split into: operands, and what settles below them.
LEMMA StripeParts ==
  ASSUME NEW k, NEW G, G # {}, Stacked(G), \A e \in G : e.key = k,
         NEW T, \A t \in T : t.seq \in Nat, NEW b \in Nat, \A e \in G : e.seq <= b,
         NEW ops, ops = Operands(G, T, b), NEW S, S = Settling(G, T, b),
         NEW z, z = Settler(G, T, b), NEW gone, gone = Gone(G, T, b)
  PROVE  PartsOf(k, G, T, b, ops, S, z, gone)
<1>1. \A e \in G : /\ EntryLike(e) /\ e.seq \in Nat \ {0}
                   /\ e.type \in {"value", "deletion", "merge"}
                   /\ e.type = "deletion" => e.val = <<>>
  <2>1. \A n \in Seqs : n \in Nat \ {0}
    BY KeysAssumption DEF Seqs
  <2> QED
    BY <2>1 DEF Stacked, EntryLike, EntryType, Valued
<1>2. /\ gone = {e \in G : e.type = "deletion" \/ HiddenInStripe(e, T, b)}
      /\ S = gone \cup {e \in G : e.type = "value"}
      /\ ops = {e \in G : \A s \in S : s.seq < e.seq}
      /\ z = Newest(S)
  BY DEF Gone, Settling, Operands, Settler
<1>3. /\ ops \subseteq G /\ S \subseteq G /\ gone \subseteq S
      /\ \A e \in G : e.type # "merge" => e \in S
      /\ \A e \in S : e.type # "merge" \/ HiddenInStripe(e, T, b)
      /\ \A e \in S \ gone : e.type = "value" /\ ~HiddenInStripe(e, T, b)
      /\ \A e \in ops : e \notin S
  BY <1>1, <1>2
<1>4. S # {} => z \in S /\ \A e \in S : e.seq <= z.seq
  <2>1. S = {} \/ \A e \in S : EntryLike(e)
    BY <1>1, <1>3
  <2>2. z = Newest(S)
    BY <1>2
  <2> QED
    BY <2>1, <2>2, NewestOf
<1>5. Newest(G) \in G /\ \A e \in G : e.seq <= Newest(G).seq
  BY <1>1, NewestOf
<1>6. \A e \in ops : e.type = "merge" /\ ~HiddenInStripe(e, T, b)
  BY <1>1, <1>2, <1>3
<1>7. ops # {} => Newest(G) \in ops
  <2> SUFFICES ASSUME NEW e \in ops, NEW s \in S PROVE s.seq < Newest(G).seq
    BY <1>2, <1>5
  <2>1. s.seq < e.seq /\ e.seq <= Newest(G).seq /\ s \in G /\ e \in G
    BY <1>2, <1>5
  <2> QED
    BY <1>1, <1>5, <2>1
<1>8. \A x, y \in G : x.seq = y.seq => x = y
  BY DEF Stacked
<1>9. ToSet(<<>>) = {}
  BY DEF ToSet
<1>10. \A e \in G : e \in ops \/ \E s \in S : e.seq <= s.seq
  BY <1>1, <1>2, <1>3
<1>11. ASSUME NEW i, Gives(G, T, k, b, i)
       PROVE  \/ \E e \in ops : i \in ToSet(e.val)
              \/ S # {} /\ z \notin gone /\ i \in ToSet(z.val)
  <2>1. PICK e \in G : i \in ToSet(e.val) /\ ~Wiped(G, T, k, e.seq, b)
    BY <1>11 DEF Gives
  <2>2. e \notin gone
    BY <1>1, <1>2, <1>9, <2>1 DEF Wiped, HiddenInStripe
  <2>3. ASSUME e \notin ops PROVE e = z /\ S # {}
    <3>1. S # {} /\ z \in S /\ z \in G /\ e.seq <= z.seq
      BY <1>1, <1>3, <1>4, <1>10, <2>3
    <3>2. ~(e.seq < z.seq)
      <4> SUFFICES ASSUME e.seq < z.seq PROVE FALSE
        OBVIOUS
      <4>1. CASE z.type # "merge"
        BY <2>1, <3>1, <4>1 DEF Wiped
      <4>2. CASE HiddenInStripe(z, T, b)
        <5>1. PICK t \in T : Covers(t, k) /\ z.seq < t.seq /\ t.seq <= b
          BY <3>1, <4>2 DEF HiddenInStripe
        <5>2. e.seq < t.seq
          BY <1>1, <3>1, <5>1
        <5> QED
          BY <2>1, <5>1, <5>2 DEF Wiped
      <4> QED
        BY <1>3, <3>1, <4>1, <4>2
    <3>3. e.seq = z.seq
      BY <1>1, <3>1, <3>2
    <3> QED
      BY <1>8, <3>1, <3>3
  <2> QED
    BY <2>1, <2>2, <2>3
<1>12. ASSUME NEW i, NEW e \in G, i \in ToSet(e.val), ~HiddenInStripe(e, T, b),
              \A s \in G : s.type # "merge" => s.seq <= e.seq
       PROVE  Gives(G, T, k, b, i)
  <2>1. ~Wiped(G, T, k, e.seq, b)
    BY <1>1, <1>12 DEF Wiped, HiddenInStripe
  <2> QED
    BY <1>12, <2>1 DEF Gives
<1>13. ASSUME NEW i, NEW e \in ops, i \in ToSet(e.val) PROVE Gives(G, T, k, b, i)
  <2>1. \A s \in G : s.type # "merge" => s.seq <= e.seq
    BY <1>1, <1>2, <1>3
  <2> QED
    BY <1>3, <1>6, <1>12, <1>13, <2>1
<1>14. ASSUME NEW i, S # {}, z \notin gone, i \in ToSet(z.val) PROVE Gives(G, T, k, b, i)
  <2>1. \A s \in G : s.type # "merge" => s.seq <= z.seq
    BY <1>3, <1>4, <1>14
  <2>2. z \in G /\ ~HiddenInStripe(z, T, b)
    BY <1>3, <1>4, <1>14
  <2> QED
    BY <1>12, <1>14, <2>1, <2>2
<1>15. \A i : Gives(G, T, k, b, i) <=>
                     \/ \E e \in ops : i \in ToSet(e.val)
                     \/ S # {} /\ z \notin gone /\ i \in ToSet(z.val)
  BY <1>11, <1>13, <1>14
<1>16. S # {} => z \in S /\ \A e \in ops : z.seq < e.seq
  BY <1>2, <1>4
<1>17. S = {} => ops = G
  BY <1>2
<1> QED
  BY <1>3, <1>6, <1>7, <1>15, <1>16, <1>17 DEF PartsOf

\* x is e with another type and value.
Becomes(e, x, t, v) ==
  EntryLike(x) /\ x.key = e.key /\ x.seq = e.seq /\ x.type = t /\ x.val = v

\* An entry with a new type and value keeps its key and number.
LEMMA RetypedIs ==
  ASSUME NEW e, EntryLike(e), NEW t \in EntryType, NEW v
  PROVE  /\ Becomes(e, [e EXCEPT !.type = t, !.val = v], t, v)
         /\ Becomes(e, [e EXCEPT !.val = v], e.type, v)
<1>1. e \in [key : {e.key}, seq : {e.seq}, type : {e.type}, val : {e.val}]
  BY DEF EntryLike
<1>2. /\ [e EXCEPT !.type = t, !.val = v]
           \in [key : {e.key}, seq : {e.seq}, type : {t}, val : {v}]
      /\ [e EXCEPT !.val = v] \in [key : {e.key}, seq : {e.seq}, type : {e.type}, val : {v}]
  BY <1>1
<1>3. ASSUME NEW u \in EntryType,
             NEW x \in [key : {e.key}, seq : {e.seq}, type : {u}, val : {v}]
      PROVE  Becomes(e, x, u, v)
  BY DEF EntryLike, Becomes
<1>4. e.type \in EntryType
  BY DEF EntryLike
<1> QED
  BY <1>2, <1>3, <1>4

\* What a stripe settles on is one entry, numbered as the one that settles it.
SettlesAs(k, kept, gone, z, y) ==
  /\ kept = {y}
  /\ EntryLike(y) /\ Valued(y) /\ y.key = k /\ y.seq = z.seq
  /\ y.type # "merge"
  /\ z \in gone => y.val = <<>>
  /\ z \notin gone => y = z

\* The entry that stands for the settler of a stripe.
LEMMA SettledIs ==
  ASSUME NEW k, NEW G, Stacked(G), \A e \in G : e.key = k, NEW T, NEW b,
         NEW z \in G, z = Settler(G, T, b), NEW gone, gone = Gone(G, T, b),
         z \notin gone => z.type = "value"
  PROVE  \E y : SettlesAs(k, Settled(G, T, b), gone, z, y)
<1>1. EntryLike(z) /\ Valued(z) /\ z.key = k
  BY DEF Stacked
<1>2. CASE z \in gone
  <2> DEFINE y == [z EXCEPT !.type = "deletion", !.val = <<>>]
  <2>1. Settled(G, T, b) = {y}
    BY <1>2 DEF Settled
  <2>2. "deletion" \in EntryType
    BY DEF EntryType
  <2>3. EntryLike(y) /\ y.key = k /\ y.seq = z.seq /\ y.type = "deletion" /\ y.val = <<>>
    <3>1. Becomes(z, y, "deletion", <<>>)
      BY <1>1, <2>2, RetypedIs, Zenon
    <3> HIDE DEF y
    <3> QED
      BY <1>1, <3>1 DEF Becomes
  <2> HIDE DEF y
  <2>4. Valued(y)
    <3>1. Increasing(<<>>) /\ ToSet(<<>>) = {}
      BY DEF Increasing, ToSet
    <3>2. Increasing(y.val) /\ ToSet(y.val) = {}
      BY <2>3, <3>1
    <3> QED
      BY <2>3, <3>2 DEF Valued
  <2> QED
    BY <1>2, <2>1, <2>3, <2>4 DEF SettlesAs
<1>3. CASE z \notin gone
  <2>1. Settled(G, T, b) = {z}
    BY <1>3 DEF Settled
  <2> QED
    BY <1>1, <1>3, <2>1 DEF SettlesAs
<1> QED
  BY <1>2, <1>3

Foldable(k, G, ops, kept) ==
  /\ \A y \in kept : /\ EntryLike(y) /\ Valued(y) /\ y.key = k
                     /\ \A e \in ops : y.seq < e.seq
                     /\ \E x \in G : x.seq = y.seq
  /\ \A x, y \in kept : x = y

\* o is all of E folded.
FoldOf(o, E) == Valued(o) /\ \A i : i \in ToSet(o.val) <=> \E e \in E : i \in ToSet(e.val)

\* Operands, and the entry below them, fold into a value of the newest.
LEMMA FoldedStripe ==
  ASSUME NEW k, NEW G, G # {}, Stacked(G), \A e \in G : e.key = k,
         NEW ops \in SUBSET G, NEW kept, Foldable(k, G, ops, kept),
         NEW o, EntryLike(o), o.seq = Newest(G).seq, o.type # "deletion",
         o.val = Folded(ops \cup kept)
  PROVE  FoldOf(o, ops \cup kept)
<1>0. /\ \A y \in kept : EntryLike(y) /\ Valued(y) /\ y.key = k
      /\ \A y \in kept : \A e \in ops : y.seq < e.seq
      /\ \A y \in kept : \E x \in G : x.seq = y.seq
      /\ \A x, y \in kept : x = y
  BY DEF Foldable
<1>1. /\ \A e \in G : EntryLike(e) /\ Valued(e) /\ e.seq \in Nat
      /\ \A x, y \in G : /\ x.seq = y.seq => x = y
                         /\ x.seq < y.seq => \A i \in ToSet(y.val) : x.seq < i
  <2>1. \A n \in Seqs : n \in Nat
    BY KeysAssumption DEF Seqs
  <2> QED
    BY <2>1 DEF Stacked, EntryLike
<1>2. \A y \in kept : y.seq \in Nat /\ EntryLike(y) /\ Valued(y) /\ y.key = k
  <2>1. \A n \in Seqs : n \in Nat
    BY KeysAssumption DEF Seqs
  <2> QED
    BY <1>0, <2>1 DEF EntryLike
<1>3. \A x \in ops \cup kept : EntryLike(x) /\ Valued(x) /\ x.key = k /\ x.seq \in Nat
  BY <1>1, <1>2
<1>4. ASSUME NEW x \in ops \cup kept, NEW y \in ops \cup kept
      PROVE  /\ x.seq = y.seq => x = y
             /\ x.seq < y.seq => \A i \in ToSet(y.val) : x.seq < i
  <2>1. CASE x \in ops /\ y \in ops
    BY <1>1, <2>1
  <2>2. CASE x \in kept /\ y \in kept
    BY <1>0, <1>2, <2>2
  <2>3. CASE x \in kept /\ y \in ops
    <3>1. PICK w \in G : w.seq = x.seq
      BY <1>0, <2>3
    <3>2. x.seq < y.seq /\ x.seq \in Nat /\ y.seq \in Nat /\ y \in G
      BY <1>0, <1>1, <1>2, <2>3
    <3> QED
      BY <1>1, <3>1, <3>2
  <2>4. CASE x \in ops /\ y \in kept
    BY <1>0, <1>1, <1>2, <2>4
  <2> QED
    BY <2>1, <2>2, <2>3, <2>4
<1> DEFINE all == ops \cup kept
<1>5. Stacked(all) /\ \A e \in all : e.key = k
  BY <1>3, <1>4 DEF Stacked
<1>6. /\ Increasing(Folded(all))
      /\ \A a \in Nat : a \in ToSet(Folded(all)) <=> \E e \in all : a \in ToSet(e.val)
  <2> HIDE DEF all
  <2> QED
    BY <1>5, FoldedIs
<1>7. ToSet(o.val) \subseteq Nat /\ Increasing(o.val)
  BY <1>6, ToSetOf DEF Increasing
<1>8. \A e \in all : \A i \in ToSet(e.val) : i \in 1 .. e.seq
  BY <1>3 DEF Valued
<1>9. \A e \in all : e.seq \in Nat /\ e.seq <= o.seq
  <2>1. \A x \in G : x.seq <= Newest(G).seq
    BY <1>1, NewestOf
  <2>2. \A e \in all : \E x \in G : x.seq = e.seq
    <3>1. \A e \in ops : \E x \in G : x.seq = e.seq
      OBVIOUS
    <3>2. \A e \in kept : \E x \in G : x.seq = e.seq
      BY <1>0
    <3> QED
      BY <3>1, <3>2
  <2> QED
    BY <1>3, <2>1, <2>2
<1>10. o.seq \in Nat
  BY KeysAssumption DEF EntryLike, Seqs
<1>11. \A i : i \in ToSet(o.val) <=> \E e \in all : i \in ToSet(e.val)
  <2>1. \A e \in all : \A i \in ToSet(e.val) : i \in Nat
    BY <1>8, <1>9
  <2> HIDE DEF all
  <2> QED
    BY <1>6, <1>7, <2>1 DEF all
<1>12. \A i \in ToSet(o.val) : i \in 1 .. o.seq
  <2> HIDE DEF all
  <2> SUFFICES ASSUME NEW i \in ToSet(o.val) PROVE i \in 1 .. o.seq
    OBVIOUS
  <2>1. PICK e \in all : i \in ToSet(e.val)
    BY <1>11
  <2>2. i \in 1 .. e.seq
    BY <1>8, <2>1
  <2> QED
    BY <1>9, <1>10, <2>2
<1> QED
  BY <1>7, <1>11, <1>12 DEF Valued, FoldOf

\* What one stripe becomes: R gives a reader what G gave; it wipes what is older
\* when G does, unless nothing is older; and no tombstone hides it.
StripeKept(k, G, T, b, oldest, older, base, R) ==
  /\ \A o \in R : EntryLike(o) /\ Valued(o) /\ o.key = k /\ \E x \in G : x.seq = o.seq
  /\ \A o \in R : o.val # <<>> => ~HiddenInStripe(o, T, b)
  /\ \A x, y \in R : x # y => x \in G /\ y \in G /\ x.type = "merge" /\ y.type = "merge"
  /\ \A i : (\E o \in R : i \in ToSet(o.val)) <=> Gives(G, T, k, b, i)
  /\ (\E o \in R : o.type # "merge") =>
        \/ \E e \in G : e.type # "merge" \/ HiddenInStripe(e, T, b)
        \/ ~older /\ base
  /\ (\E e \in G : e.type # "merge") /\ ~(b = oldest /\ base) => \E o \in R : o.type # "merge"

\* A stripe of one key keeps what its readers get from it.
LEMMA StripeMakes ==
  ASSUME NEW k, NEW G, G # {}, Stacked(G), \A e \in G : e.key = k,
         NEW T, \A t \in T : t.seq \in Nat, NEW b \in Nat, \A e \in G : e.seq <= b,
         NEW oldest, NEW older \in BOOLEAN, NEW base \in BOOLEAN, NEW folds \in BOOLEAN,
         NEW R, R = CompactStripe(G, T, b, oldest, older, base, folds)
  PROVE  StripeKept(k, G, T, b, oldest, older, base, R)
<1>1. PICK ops : ops = Operands(G, T, b)
  OBVIOUS
<1>2. PICK S : S = Settling(G, T, b)
  OBVIOUS
<1>3. PICK z : z = Settler(G, T, b)
  OBVIOUS
<1>4. PICK gone : gone = Gone(G, T, b)
  OBVIOUS
<1>5. PICK kept : kept = Settled(G, T, b)
  OBVIOUS
<1>6. R = CASE S # {} /\ ops = {} -> IF z \in gone /\ b = oldest /\ base THEN {} ELSE kept
            [] S # {} /\ ops # {} ->
                 {[Newest(G) EXCEPT !.type = "value", !.val = Folded(ops \cup kept)]}
            [] S = {} /\ ~older /\ base ->
                 {[Newest(G) EXCEPT !.type = "value", !.val = Folded(ops)]}
            [] S = {} /\ (older \/ ~base) ->
                 IF folds /\ Cardinality(ops) > 1
                 THEN {[Newest(G) EXCEPT !.val = Folded(ops)]} ELSE ops
  BY <1>1, <1>2, <1>3, <1>4, <1>5, StripeCases, Zenon
<1>7. /\ ops \subseteq G /\ S \subseteq G /\ gone \subseteq S
      /\ \A e \in G : e.type # "merge" => e \in S
      /\ \A e \in S : e.type # "merge" \/ HiddenInStripe(e, T, b)
      /\ \A e \in S \ gone : e.type = "value" /\ ~HiddenInStripe(e, T, b)
      /\ S # {} => z \in S /\ \A e \in ops : z.seq < e.seq
      /\ \A e \in ops : e.type = "merge" /\ ~HiddenInStripe(e, T, b)
      /\ ops # {} => Newest(G) \in ops
      /\ S = {} => ops = G
      /\ \A i : Gives(G, T, k, b, i) <=>
                  \/ \E e \in ops : i \in ToSet(e.val)
                  \/ S # {} /\ z \notin gone /\ i \in ToSet(z.val)
  <2>1. PartsOf(k, G, T, b, ops, S, z, gone)
    BY <1>1, <1>2, <1>3, <1>4, StripeParts
  <2> QED
    BY <2>1 DEF PartsOf
<1>8. \A e \in G : EntryLike(e) /\ Valued(e)
  BY DEF Stacked
<1>9. Newest(G) \in G /\ EntryLike(Newest(G))
  BY <1>8, NewestIn
<1>10. ToSet(<<>>) = {}
  BY DEF ToSet
<1>11. ASSUME S # {}
       PROVE  \E y : SettlesAs(k, kept, gone, z, y)
  <2>1. z \in G /\ (z \notin gone => z.type = "value")
    BY <1>7, <1>11
  <2> QED
    BY <1>3, <1>4, <1>5, <2>1, SettledIs
<1>12. \A x, y : (x.seq = y.seq /\ x.key = y.key /\ HiddenInStripe(x, T, b)) =>
                   HiddenInStripe(y, T, b)
  BY DEF HiddenInStripe
\* An entry that all of the stripe folds into, or all above what settles it.
<1>13. ASSUME NEW o, EntryLike(o), Valued(o), o.key = k, o.seq = Newest(G).seq, ops # {}, R = {o},
              \A i : i \in ToSet(o.val) <=> Gives(G, T, k, b, i),
              o.type # "merge" => S # {} \/ (~older /\ base),
              S # {} => o.type # "merge"
       PROVE  StripeKept(k, G, T, b, oldest, older, base, R)
  <2>1. ~HiddenInStripe(o, T, b)
    BY <1>7, <1>9, <1>12, <1>13
  <2>2. (\E e \in G : e.type # "merge") => S # {}
    BY <1>7
  <2>3. S # {} => \E e \in G : e.type # "merge" \/ HiddenInStripe(e, T, b)
    BY <1>7
  <2> QED
    BY <1>9, <1>13, <2>1, <2>2, <2>3 DEF StripeKept
<1>14. CASE S # {} /\ ops = {}
  <2>1. PICK y : /\ kept = {y}
                 /\ EntryLike(y) /\ Valued(y) /\ y.key = k /\ y.seq = z.seq
                 /\ y.type # "merge"
                 /\ z \in gone => y.val = <<>>
                 /\ z \notin gone => y = z
    BY <1>11, <1>14 DEF SettlesAs
  <2>2. R = IF z \in gone /\ b = oldest /\ base THEN {} ELSE {y}
    BY <1>6, <1>14, <2>1
  <2>3. z \in S /\ z \in G
    BY <1>7, <1>14
  <2>4. \A i : (\E o \in R : i \in ToSet(o.val)) <=> Gives(G, T, k, b, i)
    BY <1>7, <1>10, <1>14, <2>1, <2>2
  <2>5. y.val # <<>> => ~HiddenInStripe(y, T, b)
    BY <1>7, <2>1, <2>3
  <2>6. \E e \in G : e.type # "merge" \/ HiddenInStripe(e, T, b)
    BY <1>7, <2>3
  <2>7. ~(b = oldest /\ base) => y \in R
    BY <2>2
  <2>8. \A o \in R : o = y
    BY <2>2
  <2> QED
    BY <2>1, <2>3, <2>4, <2>5, <2>6, <2>7, <2>8 DEF StripeKept
<1>15. CASE S # {} /\ ops # {}
  <2>1. PICK y : /\ kept = {y}
                 /\ EntryLike(y) /\ Valued(y) /\ y.key = k /\ y.seq = z.seq
                 /\ z \in gone => y.val = <<>>
                 /\ z \notin gone => y = z
    BY <1>11, <1>15 DEF SettlesAs
  <2>2. PICK o : o = [Newest(G) EXCEPT !.type = "value", !.val = Folded(ops \cup kept)]
    OBVIOUS
  <2>3. R = {o}
    BY <1>6, <1>15, <2>2
  <2>4. Becomes(Newest(G), o, "value", Folded(ops \cup kept))
    <3>1. "value" \in EntryType
      BY DEF EntryType
    <3> QED
      BY <1>9, <2>2, <3>1, RetypedIs, Zenon
  <2>5. \A x \in kept : /\ EntryLike(x) /\ Valued(x) /\ x.key = k
                        /\ \A e \in ops : x.seq < e.seq
                        /\ \E w \in G : w.seq = x.seq
    BY <1>7, <1>15, <2>1
  <2>6. \A x, w \in kept : x = w
    BY <2>1
  <2>7. EntryLike(o) /\ o.seq = Newest(G).seq /\ o.type = "value" /\ o.key = k
    BY <1>9, <2>4 DEF Becomes
  <2>8. o.val = Folded(ops \cup kept)
    BY <2>4 DEF Becomes
  <2>9. FoldOf(o, ops \cup kept)
    <3>1. ops \in SUBSET G /\ o.type # "deletion"
      BY <1>7, <2>7
    <3>2. Foldable(k, G, ops, kept)
      BY <2>5, <2>6 DEF Foldable
    <3> QED
      BY <2>7, <2>8, <3>1, <3>2, FoldedStripe
  <2>10. \A i : i \in ToSet(o.val) <=> Gives(G, T, k, b, i)
    BY <1>7, <1>10, <1>15, <2>1, <2>9 DEF FoldOf
  <2>11. Valued(o)
    BY <2>9 DEF FoldOf
  <2> QED
    BY <1>13, <1>15, <2>3, <2>7, <2>10, <2>11
<1>16. CASE S = {}
  <2>1. ops = G /\ ops # {}
    BY <1>7, <1>16
  <2>2. ASSUME NEW o, NEW u \in EntryType \ {"deletion"}, Becomes(Newest(G), o, u, Folded(ops)), R = {o},
               u # "merge" => ~older /\ base
        PROVE  StripeKept(k, G, T, b, oldest, older, base, R)
    <3>1. EntryLike(o) /\ o.seq = Newest(G).seq /\ o.type = u /\ o.key = k
      BY <1>9, <2>2 DEF Becomes
    <3>2. o.val = Folded(ops \cup {})
      BY <2>2 DEF Becomes
    <3>3. FoldOf(o, ops \cup {})
      <4>1. ops \in SUBSET G /\ o.type # "deletion" /\ Foldable(k, G, ops, {})
        BY <2>1, <3>1 DEF Foldable
      <4> QED
        BY <3>1, <3>2, <4>1, FoldedStripe
    <3>4. \A i : i \in ToSet(o.val) <=> Gives(G, T, k, b, i)
      BY <1>7, <1>16, <3>3 DEF FoldOf
    <3>5. Valued(o)
      BY <3>3 DEF FoldOf
    <3> QED
      BY <1>13, <1>16, <2>1, <2>2, <3>1, <3>4, <3>5
  <2>3. CASE ~older /\ base
    <3>1. PICK o : o = [Newest(G) EXCEPT !.type = "value", !.val = Folded(ops)]
      OBVIOUS
    <3>2. R = {o}
      BY <1>6, <1>16, <2>3, <3>1
    <3>3. Becomes(Newest(G), o, "value", Folded(ops))
      <4>1. "value" \in EntryType
        BY DEF EntryType
      <4> QED
        BY <1>9, <3>1, <4>1, RetypedIs, Zenon
    <3> QED
      BY <2>2, <2>3, <3>2, <3>3 DEF EntryType
  <2>4. CASE (older \/ ~base) /\ folds /\ Cardinality(ops) > 1
    <3>1. PICK o : o = [Newest(G) EXCEPT !.val = Folded(ops)]
      OBVIOUS
    <3>2. R = {o}
      BY <1>6, <1>16, <2>4, <3>1
    <3>3. "merge" \in EntryType /\ Newest(G).type = "merge"
      BY <1>7, <2>1 DEF EntryType
    <3>4. Becomes(Newest(G), o, "merge", Folded(ops))
      BY <1>9, <3>1, <3>3, RetypedIs, Zenon
    <3> QED
      BY <2>2, <3>2, <3>3, <3>4
  <2>5. CASE (older \/ ~base) /\ ~(folds /\ Cardinality(ops) > 1)
    <3>1. R = G
      BY <1>6, <1>16, <2>1, <2>5
    <3>2. \A e \in G : e.type = "merge" /\ ~HiddenInStripe(e, T, b)
      BY <1>7, <2>1
    <3>3. \A i : (\E o \in R : i \in ToSet(o.val)) <=> Gives(G, T, k, b, i)
      BY <1>7, <1>16, <2>1, <3>1
    <3> QED
      BY <1>8, <3>1, <3>2, <3>3 DEF StripeKept
  <2> QED
    BY <2>3, <2>4, <2>5
<1> QED
  BY <1>14, <1>15, <1>16

------------------------------------------------------------------------------
(* What a compaction makes of the entries of one key.                      *)

LEMMA StripeIs ==
  ASSUME NEW snaps \in SUBSET Nat
  PROVE  /\ Stripes(snaps) \subseteq Nat /\ OldestStripe(snaps) \in Stripes(snaps)
         /\ \A b \in Stripes(snaps) : OldestStripe(snaps) <= b
         /\ \A s \in Seqs : /\ s \in Nat \ {0} /\ StripeOf(s, snaps) \in Stripes(snaps)
                            /\ s <= StripeOf(s, snaps)
                            /\ \A b \in Stripes(snaps) : s <= b => StripeOf(s, snaps) <= b
<1>1. /\ Stripes(snaps) \in SUBSET Nat /\ KMax \in Stripes(snaps)
      /\ \A s \in Seqs : s \in Nat \ {0} /\ s <= KMax
  BY KeysAssumption DEF Stripes, KMax, Seqs
<1>2. ASSUME NEW Q \in SUBSET Nat, Q # {}
      PROVE  Min(Q) \in Q /\ \A q \in Q : Min(Q) <= q
  BY <1>2, LeastElement DEF Min
<1>3. OldestStripe(snaps) \in Stripes(snaps) /\ \A b \in Stripes(snaps) : OldestStripe(snaps) <= b
  BY <1>1, <1>2 DEF OldestStripe
<1>4. ASSUME NEW s \in Seqs
      PROVE  /\ StripeOf(s, snaps) \in Stripes(snaps) /\ s <= StripeOf(s, snaps)
             /\ \A b \in Stripes(snaps) : s <= b => StripeOf(s, snaps) <= b
  <2> DEFINE Q == {b \in Stripes(snaps) : s <= b}
  <2>1. Q \in SUBSET Nat /\ Q # {}
    BY <1>1
  <2>2. StripeOf(s, snaps) = Min(Q)
    BY DEF StripeOf
  <2>3. Min(Q) \in Q /\ \A q \in Q : Min(Q) <= q
    <3> HIDE DEF Q
    <3> QED
      BY <1>2, <2>1
  <2> QED
    BY <2>2, <2>3
<1> QED
  BY <1>1, <1>3, <1>4

InStripe(E, snaps, b) == {e \in E : StripeOf(e.seq, snaps) = b}

\* A reader sees whole stripes: it gets of each what the last reader of the
\* stripe gets, unless something newer wipes the stripe.
LEMMA ByStripe ==
  ASSUME NEW snaps \in SUBSET Nat, NEW E, \A e \in E : e.seq \in Seqs,
         NEW X, \A t \in X : t.seq \in Nat, NEW k, NEW r \in Stripes(snaps), NEW i
  PROVE  Gives(E, X, k, r, i) <=>
           \E b \in Stripes(snaps) : /\ b <= r /\ Gives(InStripe(E, snaps, b), X, k, b, i)
                                     /\ ~Wiped(E, X, k, b, r)
<1>1. /\ Stripes(snaps) \subseteq Nat
      /\ \A e \in E : /\ e.seq \in Nat /\ StripeOf(e.seq, snaps) \in Stripes(snaps)
                      /\ e.seq <= StripeOf(e.seq, snaps)
                      /\ \A b \in Stripes(snaps) : e.seq <= b => StripeOf(e.seq, snaps) <= b
  BY StripeIs
<1>2. ASSUME Gives(E, X, k, r, i)
      PROVE  \E b \in Stripes(snaps) : /\ b <= r /\ Gives(InStripe(E, snaps, b), X, k, b, i)
                                       /\ ~Wiped(E, X, k, b, r)
  <2>1. PICK e \in E : /\ e.key = k /\ e.seq <= r /\ i \in ToSet(e.val)
                       /\ ~Wiped(E, X, k, e.seq, r)
    BY <1>2 DEF Gives
  <2>2. PICK b \in Stripes(snaps) : b = StripeOf(e.seq, snaps)
    BY <1>1
  <2>3. b <= r /\ e.seq <= b /\ e \in InStripe(E, snaps, b) /\ b \in Nat /\ r \in Nat /\ e.seq \in Nat
    BY <1>1, <2>1, <2>2 DEF InStripe
  <2>4. ~Wiped(InStripe(E, snaps, b), X, k, e.seq, b)
    <3> SUFFICES ASSUME Wiped(InStripe(E, snaps, b), X, k, e.seq, b) PROVE FALSE
      OBVIOUS
    <3>1. \A n \in Nat : n <= b => n <= r
      BY <2>3
    <3>2. Wiped(E, X, k, e.seq, r)
      BY <1>1, <3>1 DEF Wiped, InStripe
    <3> QED
      BY <2>1, <3>2
  <2>5. ~Wiped(E, X, k, b, r)
    <3>1. \A n \in Nat : b < n => e.seq < n
      BY <2>3
    <3> QED
      BY <1>1, <2>1, <3>1 DEF Wiped
  <2> QED
    BY <2>1, <2>3, <2>4, <2>5 DEF Gives
<1>3. ASSUME NEW b \in Stripes(snaps), b <= r, Gives(InStripe(E, snaps, b), X, k, b, i),
             ~Wiped(E, X, k, b, r)
      PROVE  Gives(E, X, k, r, i)
  <2>1. PICK e \in InStripe(E, snaps, b) :
           /\ e.key = k /\ e.seq <= b /\ i \in ToSet(e.val)
           /\ ~Wiped(InStripe(E, snaps, b), X, k, e.seq, b)
    BY <1>3 DEF Gives
  <2>2. e \in E /\ StripeOf(e.seq, snaps) = b /\ b \in Nat /\ r \in Nat /\ e.seq <= r
    BY <1>1, <1>3, <2>1 DEF InStripe
  <2>3. ~Wiped(E, X, k, e.seq, r)
    <3>1. ASSUME NEW t \in X, Covers(t, k), e.seq < t.seq, t.seq <= r PROVE FALSE
      <4>1. CASE t.seq <= b
        BY <2>1, <3>1, <4>1 DEF Wiped
      <4>2. CASE b < t.seq
        BY <1>3, <3>1, <4>2 DEF Wiped
      <4> QED
        BY <2>2, <4>1, <4>2
    <3>2. ASSUME NEW y \in E, y.key = k, y.type # "merge", e.seq < y.seq, y.seq <= r PROVE FALSE
      <4>1. CASE y.seq <= b
        <5>1. StripeOf(y.seq, snaps) <= b /\ b <= StripeOf(y.seq, snaps)
          BY <1>1, <2>2, <3>2, <4>1
        <5>2. y \in InStripe(E, snaps, b)
          BY <1>1, <2>2, <5>1 DEF InStripe
        <5> QED
          BY <2>1, <3>2, <4>1, <5>2 DEF Wiped
      <4>2. CASE b < y.seq
        BY <1>3, <3>2, <4>2 DEF Wiped
      <4> QED
        BY <1>1, <2>2, <4>1, <4>2
    <3> QED
      BY <3>1, <3>2 DEF Wiped
  <2> QED
    BY <2>1, <2>2, <2>3 DEF Gives
<1> QED
  BY <1>2, <1>3

Older(G, snaps, b) == \E e \in G : StripeOf(e.seq, snaps) < b

KeyStripe(k, G, T, snaps, base, R, b) ==
  LET Gb == InStripe(G, snaps, b)
      Rb == InStripe(R, snaps, b)
  IN  /\ Gb = {} => Rb = {}
      /\ Gb # {} => StripeKept(k, Gb, T, b, OldestStripe(snaps), Older(G, snaps, b), base, Rb)

ByStripes(k, G, T, snaps, base, R) ==
  /\ \A b \in Stripes(snaps) : KeyStripe(k, G, T, snaps, base, R, b)
  /\ \A o \in R : \E b \in Stripes(snaps) : o \in InStripe(R, snaps, b)

\* The result for a key is made stripe by stripe.
LEMMA KeyStripes ==
  ASSUME NEW snaps \in SUBSET Nat, NEW k, NEW G, Stacked(G), \A e \in G : e.key = k,
         NEW T, \A t \in T : t.seq \in Nat, NEW base \in BOOLEAN, NEW folds \in BOOLEAN,
         NEW R, R = CompactKey(G, T, snaps, base, folds)
  PROVE  ByStripes(k, G, T, snaps, base, R)
<1> DEFINE Gs(b) == InStripe(G, snaps, b)
           Made(b) == CompactStripe(Gs(b), T, b, OldestStripe(snaps), Older(G, snaps, b), base, folds)
<1>1. /\ Stripes(snaps) \subseteq Nat
      /\ \A e \in G : /\ e.seq \in Seqs /\ e.seq <= StripeOf(e.seq, snaps)
                      /\ StripeOf(e.seq, snaps) \in Stripes(snaps)
  BY StripeIs DEF Stacked, EntryLike
<1>2. R = UNION {IF Gs(b) = {} THEN {} ELSE Made(b) : b \in Stripes(snaps)}
  BY DEF CompactKey, InStripe, Older
<1>3. ASSUME NEW b \in Stripes(snaps), Gs(b) # {}
      PROVE  StripeKept(k, Gs(b), T, b, OldestStripe(snaps), Older(G, snaps, b), base, Made(b))
  <2>1. Stacked(Gs(b)) /\ \A e \in Gs(b) : e.key = k /\ e.seq <= b
    BY <1>1 DEF Stacked, InStripe
  <2>2. b \in Nat /\ Older(G, snaps, b) \in BOOLEAN
    BY <1>1 DEF Older
  <2>3. PICK D : D = Gs(b)
    OBVIOUS
  <2>4. PICK old : old = Older(G, snaps, b)
    OBVIOUS
  <2>5. PICK M : M = Made(b)
    OBVIOUS
  <2>6. M = CompactStripe(D, T, b, OldestStripe(snaps), old, base, folds)
    BY <2>3, <2>4, <2>5
  <2>7. D # {} /\ Stacked(D) /\ (\A e \in D : e.key = k) /\ (\A e \in D : e.seq <= b) /\ old \in BOOLEAN
    BY <1>3, <2>1, <2>2, <2>3, <2>4
  <2>8. StripeKept(k, D, T, b, OldestStripe(snaps), old, base, M)
    BY <2>2, <2>6, <2>7, StripeMakes
  <2> QED
    BY <2>3, <2>4, <2>5, <2>8
<1> HIDE DEF Made
<1>4. ASSUME NEW b \in Stripes(snaps), Gs(b) # {}, NEW o \in Made(b)
      PROVE  StripeOf(o.seq, snaps) = b
  <2>1. \E x \in Gs(b) : x.seq = o.seq
    BY <1>3, <1>4 DEF StripeKept
  <2> QED
    BY <2>1 DEF InStripe
<1>5. ASSUME NEW b \in Stripes(snaps)
      PROVE  InStripe(R, snaps, b) = IF Gs(b) = {} THEN {} ELSE Made(b)
  <2> HIDE DEF Gs
  <2>1. \A o \in R : \E c \in Stripes(snaps) : Gs(c) # {} /\ o \in Made(c)
    BY <1>2
  <2>2. \A o \in InStripe(R, snaps, b) : Gs(b) # {} /\ o \in Made(b)
    BY <1>4, <2>1 DEF InStripe
  <2>3. Gs(b) # {} => \A o \in Made(b) : o \in InStripe(R, snaps, b)
    BY <1>2, <1>4 DEF InStripe
  <2> QED
    BY <2>2, <2>3
<1>6. \A b \in Stripes(snaps) : KeyStripe(k, G, T, snaps, base, R, b)
  BY <1>3, <1>5 DEF KeyStripe
<1>7. \A o \in R : \E b \in Stripes(snaps) : o \in InStripe(R, snaps, b)
  <2> HIDE DEF Gs
  <2>1. \A o \in R : \E c \in Stripes(snaps) : Gs(c) # {} /\ o \in Made(c)
    BY <1>2
  <2> QED
    BY <1>5, <2>1
<1> QED
  BY <1>6, <1>7 DEF ByStripes

\* What a key's entries G and the tombstones T become, R and K, reads the same;
\* and wipes what is older as before, unless nothing is.
KeyKept(k, G, T, snaps, base, K, R) ==
  /\ \A o \in R : o.key = k /\ \A i \in ToSet(o.val) : \E z \in G : i \in ToSet(z.val)
  /\ Stacked(R)
  /\ \A r \in Stripes(snaps) : \A i : Gives(R, K, k, r, i) <=> Gives(G, T, k, r, i)
  /\ ~base => \A r \in Stripes(snaps) : Wiped(R, K, k, 0, r) <=> Wiped(G, T, k, 0, r)

\* The tombstones K are those of T, less some that nobody needs for key k.
Needed(k, T, snaps, base, K) ==
  /\ K \subseteq T
  /\ \A t \in T \ K : Covers(t, k) => t.seq <= OldestStripe(snaps) /\ base

\* A key keeps what every reader at a stripe gets from it.
LEMMA KeyMakes ==
  ASSUME NEW snaps \in SUBSET Nat, NEW k, NEW G, Stacked(G), \A e \in G : e.key = k,
         NEW T, \A t \in T : t.seq \in Nat \ {0}, NEW base \in BOOLEAN, NEW folds \in BOOLEAN,
         NEW R, R = CompactKey(G, T, snaps, base, folds), NEW K, Needed(k, T, snaps, base, K)
  PROVE  KeyKept(k, G, T, snaps, base, K, R)
<1> DEFINE B     == Stripes(snaps)
           Gs(b) == InStripe(G, snaps, b)
           Rs(b) == InStripe(R, snaps, b)
           first == OldestStripe(snaps)
<1>1. /\ B \subseteq Nat /\ first \in B /\ \A b \in B : first <= b
      /\ \A e \in G : /\ e.seq \in Seqs /\ e.seq \in Nat \ {0} /\ e.seq <= StripeOf(e.seq, snaps)
                      /\ StripeOf(e.seq, snaps) \in B
                      /\ \A b \in B : e.seq <= b => StripeOf(e.seq, snaps) <= b
  BY StripeIs DEF Stacked, EntryLike
<1>2. /\ \A b \in B : KeyStripe(k, G, T, snaps, base, R, b)
      /\ \A o \in R : \E b \in B : o \in Rs(b)
  <2>1. \A t \in T : t.seq \in Nat
    OBVIOUS
  <2>2. ByStripes(k, G, T, snaps, base, R)
    BY <2>1, KeyStripes
  <2> QED
    BY <2>2 DEF ByStripes
<1>3. \A b \in B : \A o \in Rs(b) :
        /\ EntryLike(o) /\ Valued(o) /\ o.key = k /\ o \in R
        /\ Gs(b) # {} /\ \E x \in Gs(b) : x.seq = o.seq
  BY <1>2 DEF KeyStripe, StripeKept, InStripe
<1>4. /\ \A b \in B : \A x \in Gs(b) : x \in G /\ x.seq \in Nat /\ 0 < x.seq /\ x.seq <= b
      /\ \A b, c \in B : b < c => \A y \in Gs(c) : b < y.seq
  BY <1>1 DEF InStripe
<1>5. /\ \A b \in B : \A o \in Rs(b) : o.seq \in Nat /\ 0 < o.seq /\ o.seq <= b
      /\ \A b, c \in B : b < c => \A o \in Rs(c) : b < o.seq
  BY <1>3, <1>4
<1>6. \A b \in B : Gs(b) # {} =>
        StripeKept(k, Gs(b), T, b, first, Older(G, snaps, b), base, Rs(b))
  BY <1>2 DEF KeyStripe
<1>7. ASSUME NEW b \in B, NEW i
      PROVE  Gives(Rs(b), K, k, b, i) <=> Gives(Gs(b), T, k, b, i)
  <2> HIDE DEF B, Gs, Rs, first
  <2>1. CASE Gs(b) = {}
    <3>1. Rs(b) = {}
      BY <1>3, <2>1
    <3> QED
      BY <2>1, <3>1 DEF Gives
  <2>2. CASE Gs(b) # {}
    <3>1. StripeKept(k, Gs(b), T, b, first, Older(G, snaps, b), base, Rs(b))
      BY <1>6, <2>2
    <3>2. (\E o \in Rs(b) : i \in ToSet(o.val)) <=> Gives(Gs(b), T, k, b, i)
      BY <3>1 DEF StripeKept
    <3>3. ASSUME NEW o \in Rs(b), i \in ToSet(o.val)
          PROVE  Gives(Rs(b), K, k, b, i)
      <4>1. o.val # <<>>
        BY <3>3 DEF ToSet
      <4>2. o.key = k /\ o.seq <= b
        BY <1>3, <1>5
      <4>3. ~HiddenInStripe(o, T, b)
        BY <3>1, <4>1 DEF StripeKept
      <4>4. \A x \in Rs(b) : x # o => x.type = "merge"
        BY <3>1 DEF StripeKept
      <4>5. \A x \in Rs(b) : x.type # "merge" => ~(o.seq < x.seq)
        BY <1>5, <4>4
      <4>6. ~Wiped(Rs(b), K, k, o.seq, b)
        BY <4>2, <4>3, <4>5 DEF Wiped, HiddenInStripe, Needed
      <4> QED
        BY <3>3, <4>2, <4>6 DEF Gives
    <3> QED
      BY <3>2, <3>3 DEF Gives
  <2> QED
    BY <2>1, <2>2
\* What wipes the older than s, in either.
<1>8. ASSUME NEW s \in Nat, NEW r \in B,
             \A c \in B : s < c => /\ Older(G, snaps, c) \/ ~base
                                   /\ ~(c = first /\ base)
                                   /\ \A e \in Gs(c) : s < e.seq,
             \A t \in T : Covers(t, k) /\ s < t.seq => t \in K
      PROVE  Wiped(R, K, k, s, r) <=> Wiped(G, T, k, s, r)
  <2> HIDE DEF B, Gs, Rs, first
  <2>1. K \subseteq T
    BY DEF Needed
  <2>2. r \in Nat /\ \A c \in B : c \in Nat
    BY <1>1
  <2>3. ASSUME NEW o \in R, o.type # "merge", s < o.seq, o.seq <= r
        PROVE  Wiped(G, T, k, s, r)
    <3>1. PICK c \in B : o \in Rs(c)
      BY <1>2
    <3>2. o.seq <= c /\ o.seq \in Nat /\ Gs(c) # {}
      BY <1>3, <1>5, <3>1
    <3>3. s < c
      BY <2>2, <2>3, <3>2
    <3>4. c <= r
      <4> SUFFICES ASSUME r < c PROVE FALSE
        BY <2>2
      <4>1. r < o.seq
        BY <1>5, <3>1
      <4> QED
        BY <2>2, <2>3, <3>2, <4>1
    <3>5. PICK e \in Gs(c) : e.type # "merge" \/ HiddenInStripe(e, T, c)
      BY <1>6, <1>8, <2>3, <3>1, <3>2, <3>3 DEF StripeKept
    <3>6. e \in G /\ e.key = k /\ e.seq \in Nat /\ e.seq <= c /\ s < e.seq
      BY <1>4, <1>8, <3>3
    <3>7. CASE e.type # "merge"
      BY <2>2, <3>4, <3>6, <3>7 DEF Wiped
    <3>8. CASE HiddenInStripe(e, T, c)
      <4>1. PICK t \in T : Covers(t, k) /\ e.seq < t.seq /\ t.seq <= c
        BY <3>6, <3>8 DEF HiddenInStripe
      <4>2. s < t.seq /\ t.seq <= r
        BY <2>2, <3>4, <3>6, <4>1
      <4> QED
        BY <4>1, <4>2 DEF Wiped
    <3> QED
      BY <3>5, <3>7, <3>8
  <2>4. ASSUME NEW e \in G, e.type # "merge", s < e.seq, e.seq <= r
        PROVE  Wiped(R, K, k, s, r)
    <3>1. PICK c \in B : c = StripeOf(e.seq, snaps)
      BY <1>1
    <3>2. e \in Gs(c) /\ e.seq <= c /\ c <= r /\ e.seq \in Nat
      BY <1>1, <2>4, <3>1 DEF InStripe, Gs
    <3>3. s < c
      BY <2>2, <2>4, <3>2
    <3>4. PICK o \in Rs(c) : o.type # "merge"
      BY <1>6, <1>8, <2>4, <3>2, <3>3 DEF StripeKept
    <3>5. /\ o \in R /\ o.key = k /\ o.seq \in Nat /\ o.seq <= c
          /\ \E x \in Gs(c) : x.seq = o.seq
      BY <1>3, <1>5
    <3>6. s < o.seq /\ o.seq <= r
      BY <1>8, <2>2, <3>2, <3>3, <3>5
    <3> QED
      BY <3>4, <3>5, <3>6 DEF Wiped
  <2>5. /\ \A t \in K : Covers(t, k) /\ s < t.seq /\ t.seq <= r => Wiped(G, T, k, s, r)
        /\ \A t \in T : Covers(t, k) /\ s < t.seq /\ t.seq <= r => Wiped(R, K, k, s, r)
    BY <1>8, <2>1 DEF Wiped
  <2>6. ASSUME Wiped(R, K, k, s, r) PROVE Wiped(G, T, k, s, r)
    BY <2>3, <2>5, <2>6 DEF Wiped
  <2>7. ASSUME Wiped(G, T, k, s, r) PROVE Wiped(R, K, k, s, r)
    BY <2>4, <2>5, <2>7 DEF Wiped
  <2> QED
    BY <2>6, <2>7
<1>9. ASSUME NEW b \in B, NEW r \in B, Gs(b) # {}
      PROVE  Wiped(R, K, k, b, r) <=> Wiped(G, T, k, b, r)
  <2>1. b \in Nat /\ first <= b /\ first \in Nat
    BY <1>1
  <2>2. \A c \in B : b < c => Older(G, snaps, c)
    BY <1>9 DEF Older, InStripe
  <2>3. \A c \in B : b < c => c # first
    BY <1>1, <2>1
  <2>4. \A c \in B : b < c => \A e \in Gs(c) : b < e.seq
    BY <1>4
  <2>5. \A t \in T : Covers(t, k) /\ b < t.seq => t \in K
    BY <2>1 DEF Needed
  <2> HIDE DEF B, Gs, Rs, first
  <2> QED
    BY <1>8, <2>1, <2>2, <2>3, <2>4, <2>5
<1>10. ASSUME ~base, NEW r \in B
       PROVE  Wiped(R, K, k, 0, r) <=> Wiped(G, T, k, 0, r)
  <2>1. \A t \in T : Covers(t, k) => t \in K
    BY <1>10 DEF Needed
  <2>2. \A c \in B : \A e \in Gs(c) : 0 < e.seq
    BY <1>4
  <2> HIDE DEF B, Gs, Rs, first
  <2> QED
    BY <1>8, <1>10, <2>1, <2>2
<1>11. ASSUME NEW r \in B, NEW i
       PROVE  Gives(R, K, k, r, i) <=> Gives(G, T, k, r, i)
  <2>1. /\ \A o \in R : o.seq \in Seqs
        /\ \A e \in G : e.seq \in Seqs
        /\ \A t \in K : t.seq \in Nat
        /\ \A t \in T : t.seq \in Nat
    BY <1>1, <1>2, <1>3 DEF EntryLike, Needed
  <2>2. Gives(R, K, k, r, i) <=>
          \E b \in B : b <= r /\ Gives(Rs(b), K, k, b, i) /\ ~Wiped(R, K, k, b, r)
    BY <2>1, ByStripe
  <2>3. Gives(G, T, k, r, i) <=>
          \E b \in B : b <= r /\ Gives(Gs(b), T, k, b, i) /\ ~Wiped(G, T, k, b, r)
    BY <2>1, ByStripe
  <2>4. \A b \in B : Gives(Gs(b), T, k, b, i) => Gs(b) # {}
    BY DEF Gives
  <2> HIDE DEF B, Gs, Rs, first
  <2> QED
    BY <1>7, <1>9, <2>2, <2>3, <2>4
<1>12. ASSUME NEW b \in B, NEW o \in Rs(b), NEW i \in ToSet(o.val)
       PROVE  \E z \in Gs(b) : i \in ToSet(z.val)
  <2>1. Gives(Gs(b), T, k, b, i)
    <3>1. StripeKept(k, Gs(b), T, b, first, Older(G, snaps, b), base, Rs(b))
      BY <1>3, <1>6
    <3> QED
      BY <3>1 DEF StripeKept
  <2> QED
    BY <2>1 DEF Gives
<1>13. ASSUME NEW x \in R, NEW y \in R
       PROVE  /\ x.seq = y.seq => x = y
              /\ x.seq < y.seq => \A i \in ToSet(y.val) : x.seq < i
  <2> HIDE DEF B, Gs, Rs, first
  <2>1. PICK b \in B : x \in Rs(b)
    BY <1>2
  <2>2. PICK c \in B : y \in Rs(c)
    BY <1>2
  <2>3. /\ x.seq \in Nat /\ y.seq \in Nat /\ b \in Nat /\ c \in Nat /\ x.seq <= b /\ y.seq <= c
        /\ b < c => b < y.seq
        /\ c < b => c < x.seq
    BY <1>1, <1>5, <2>1, <2>2
  <2>4. \A v, w \in G : /\ v.seq = w.seq => v = w
                        /\ v.seq < w.seq => \A i \in ToSet(w.val) : v.seq < i
    BY DEF Stacked
  <2>5. CASE b = c
    <3>1. StripeKept(k, Gs(b), T, b, first, Older(G, snaps, b), base, Rs(b))
      BY <1>3, <1>6, <2>1
    <3>2. x # y => x \in Gs(b) /\ y \in Gs(b)
      BY <2>1, <2>2, <2>5, <3>1 DEF StripeKept
    <3>3. x # y => x \in G /\ y \in G
      BY <1>4, <3>2
    <3> QED
      BY <2>3, <2>4, <3>3
  <2>6. CASE c < b
    BY <2>3, <2>6
  <2>7. CASE b < c
    <3>1. x.seq < y.seq
      BY <2>3, <2>7
    <3>2. ASSUME NEW i \in ToSet(y.val) PROVE x.seq < i
      <4>1. PICK w \in Gs(c) : i \in ToSet(w.val)
        BY <1>12, <2>2
      <4>2. PICK v \in Gs(b) : v.seq = x.seq
        BY <1>3, <2>1
      <4>3. v \in G /\ w \in G /\ v.seq < w.seq
        BY <1>4, <2>3, <2>7, <4>2
      <4> QED
        BY <2>4, <4>1, <4>2, <4>3
    <3> QED
      BY <2>3, <3>1, <3>2
  <2> QED
    BY <2>3, <2>5, <2>6, <2>7
<1>14. Stacked(R)
  <2>1. \A o \in R : EntryLike(o) /\ Valued(o)
    BY <1>2, <1>3
  <2> QED
    BY <1>13, <2>1 DEF Stacked
<1>15. \A o \in R : o.key = k /\ \A i \in ToSet(o.val) : \E z \in G : i \in ToSet(z.val)
  <2> HIDE DEF B, Gs, Rs, first
  <2>1. \A b \in B : \A z \in Gs(b) : z \in G
    BY <1>4
  <2> QED
    BY <1>2, <1>3, <1>12, <2>1
<1> QED
  BY <1>10, <1>11, <1>14, <1>15 DEF KeyKept

Of(E, k) == {e \in E : e.key = k}

\* Only a key's own entries matter to it.
LEMMA OwnEntries ==
  ASSUME NEW E, NEW X, NEW k
  PROVE  /\ \A s, r : Wiped(Of(E, k), X, k, s, r) <=> Wiped(E, X, k, s, r)
         /\ \A r, i : Gives(Of(E, k), X, k, r, i) <=> Gives(E, X, k, r, i)
<1>1. \A e \in Of(E, k) : e \in E /\ e.key = k
  BY DEF Of
<1>2. \A e \in E : e.key = k => e \in Of(E, k)
  BY DEF Of
<1>3. \A s, r : Wiped(Of(E, k), X, k, s, r) <=> Wiped(E, X, k, s, r)
  BY <1>1, <1>2 DEF Wiped
<1>4. \A r, i : Gives(Of(E, k), X, k, r, i) <=> Gives(E, X, k, r, i)
  BY <1>1, <1>2, <1>3 DEF Gives
<1> QED
  BY <1>3, <1>4

\* The same of all keys of a compaction.
LEMMA EntriesMake ==
  ASSUME NEW snaps \in SUBSET Nat, NEW E, Stacked(E), NEW X \in SUBSET Tombstone,
         NEW deeper, Tabs(deeper), NEW folds \in BOOLEAN,
         NEW new, new = CompactEntries(E, X, snaps, deeper, folds),
         NEW kept, kept = KeptTombs(X, snaps, deeper)
  PROVE  \A k \in Keys : KeyKept(k, Of(E, k), X, snaps, BaseForKey(deeper, k), kept, Of(new, k))
<1> SUFFICES ASSUME NEW k \in Keys
             PROVE  KeyKept(k, Of(E, k), X, snaps, BaseForKey(deeper, k), kept, Of(new, k))
  OBVIOUS
<1> DEFINE R(q) == CompactKey(Of(E, q), X, snaps, BaseForKey(deeper, q), folds)
<1>1. ASSUME NEW q, NEW x \in R(q) PROVE x.key = q
  <2>1. PICK b \in Stripes(snaps) :
          LET mine == {e \in Of(E, q) : StripeOf(e.seq, snaps) = b}
              older == \E e \in Of(E, q) : StripeOf(e.seq, snaps) < b
          IN  /\ mine # {}
              /\ x \in CompactStripe(mine, X, b, OldestStripe(snaps), older, BaseForKey(deeper, q),
                                     folds)
    BY <1>1 DEF CompactKey
  <2>2. PICK mine : mine = {e \in Of(E, q) : StripeOf(e.seq, snaps) = b}
    OBVIOUS
  <2>3. PICK older : older = (\E e \in Of(E, q) : StripeOf(e.seq, snaps) < b)
    OBVIOUS
  <2>4. PICK base : base = BaseForKey(deeper, q)
    OBVIOUS
  <2>5. older \in BOOLEAN /\ base \in BOOLEAN
    BY <2>3, <2>4 DEF BaseForKey
  <2>6. mine # {} /\ x \in CompactStripe(mine, X, b, OldestStripe(snaps), older, base, folds)
    BY <2>1, <2>2, <2>3, <2>4
  <2>7. \A e \in mine : EntryLike(e) /\ e.key = q
    BY <2>2 DEF Stacked, Of
  <2>8. StandsFor(x, mine)
    BY <2>5, <2>6, <2>7, StripeStandsFor
  <2> QED
    BY <2>7, <2>8 DEF StandsFor
<1>2. Of(E, k) = {} => R(k) = {}
  BY DEF CompactKey
<1>3. new = UNION {R(q) : q \in {e.key : e \in E}}
  BY DEF CompactEntries, Of
<1>4. Of(new, k) = R(k)
  <2> HIDE DEF R
  <2>1. \A x \in Of(new, k) : x \in R(k)
    BY <1>1, <1>3 DEF Of
  <2>2. \A x \in R(k) : x.key = k /\ \E e \in E : e.key = k
    BY <1>1, <1>2 DEF Of
  <2>3. \A x \in R(k) : x \in Of(new, k)
    BY <1>3, <2>2 DEF Of
  <2> QED
    BY <2>1, <2>3
<1>5. Needed(k, X, snaps, BaseForKey(deeper, k), kept)
  <2>1. kept = {t \in X : ~(t.seq <= OldestStripe(snaps) /\ BaseForRange(deeper, t))}
    BY DEF KeptTombs
  <2>2. \A t \in X \ kept : t.seq <= OldestStripe(snaps) /\ BaseForRange(deeper, t)
    BY <2>1
  <2>3. ASSUME NEW t \in X, BaseForRange(deeper, t), Covers(t, k), NEW D \in deeper
        PROVE  ~Overlaps(D, k, k)
    <3>1. /\ Lo(D) \in Nat /\ Hi(D) \in Nat /\ ~Overlaps(D, t.begin, t.end)
      BY <2>3, TabBounds DEF BaseForRange
    <3>2. t.begin \in Nat /\ t.end \in Nat /\ k \in Nat
      BY KeysAssumption DEF Tombstone, Keys
    <3> QED
      BY <2>3, <3>1, <3>2 DEF Overlaps, Covers
  <2>4. \A t \in X \ kept : Covers(t, k) => t.seq <= OldestStripe(snaps) /\ BaseForKey(deeper, k)
    BY <2>2, <2>3 DEF BaseForKey
  <2> QED
    BY <2>1, <2>4 DEF Needed
<1>6. Stacked(Of(E, k)) /\ \A e \in Of(E, k) : e.key = k
  BY DEF Stacked, Of
<1>7. \A t \in X : t.seq \in Nat \ {0}
  BY KeysAssumption DEF Tombstone, Seqs
<1>8. PICK base : base = BaseForKey(deeper, k) /\ base \in BOOLEAN
  BY DEF BaseForKey
<1>9. PICK G : G = Of(E, k)
  OBVIOUS
<1>10. PICK S : S = Of(new, k) /\ S = CompactKey(G, X, snaps, base, folds)
  BY <1>4, <1>8, <1>9
<1>11. KeyKept(k, G, X, snaps, base, kept, S)
  BY <1>5, <1>6, <1>7, <1>8, <1>9, <1>10, KeyMakes
<1> QED
  BY <1>8, <1>9, <1>10, <1>11

------------------------------------------------------------------------------
(* The outputs of a compaction hold what it made.                          *)

\* X and Y cover key k with the same numbers.
CoverAlike(X, Y, k) == /\ \A t \in X : Covers(t, k) => \E u \in Y : Covers(u, k) /\ u.seq = t.seq
                       /\ \A t \in Y : Covers(t, k) => \E u \in X : Covers(u, k) /\ u.seq = t.seq

\* Tombstones that cover a key alike give the same answers.
LEMMA SameCover ==
  ASSUME NEW E, NEW X, NEW Y, NEW k, CoverAlike(X, Y, k)
  PROVE  /\ \A s, r : Wiped(E, X, k, s, r) <=> Wiped(E, Y, k, s, r)
         /\ \A r, i : Gives(E, X, k, r, i) <=> Gives(E, Y, k, r, i)
<1>1. \A s, r : Wiped(E, X, k, s, r) <=> Wiped(E, Y, k, s, r)
  BY DEF Wiped, CoverAlike
<1>2. \A r, i : Gives(E, X, k, r, i) <=> Gives(E, Y, k, r, i)
  BY <1>1 DEF Gives
<1> QED
  BY <1>1, <1>2

\* Every key is in some part.
LEMMA PartsCover ==
  ASSUME NEW cuts \in SUBSET Nat, NEW k \in Keys
  PROVE  \E a \in cuts \cup {0} : a <= k /\ k < PartEnd(a, cuts)
<1>1. k \in Nat /\ k < KeyEnd /\ KeyEnd \in Nat
  BY KeysAssumption DEF Keys, KeyEnd
<1> DEFINE Q == {c \in cuts \cup {0} : c <= k}
<1>2. Q \in SUBSET Nat /\ Q # {} /\ \A c \in Q : c <= k
  <2>1. 0 \in Q
    BY <1>1
  <2>2. \A c \in Q : c \in Nat /\ c <= k
    OBVIOUS
  <2> HIDE DEF Q
  <2> QED
    BY <2>1, <2>2
<1>3. PICK a \in Q : \A c \in Q : c <= a
  <2> HIDE DEF Q
  <2> QED
    BY <1>1, <1>2, GreatestElement
<1> DEFINE P == {c \in cuts : a < c} \cup {KeyEnd}
<1>4. P \in SUBSET Nat /\ P # {} /\ \A c \in P : k < c
  <2>1. a \in Nat
    BY <1>2
  <2>2. ASSUME NEW c \in cuts, a < c PROVE k < c
    <3>1. c \in Nat /\ (c <= k => c \in Q)
      OBVIOUS
    <3> HIDE DEF Q
    <3> QED
      BY <1>1, <1>3, <2>1, <2>2, <3>1
  <2> QED
    BY <1>1, <2>2
<1>5. Min(P) \in P
  <2> HIDE DEF P
  <2> QED
    BY <1>4, LeastElement DEF Min
<1>6. PartEnd(a, cuts) = Min(P)
  BY DEF PartEnd
<1>7. k < PartEnd(a, cuts)
  BY <1>4, <1>5, <1>6
<1> QED
  BY <1>3, <1>7

\* Cutting into outputs loses no entry, and a cut tombstone covers each key as before.
LEMMA OutputsKeep ==
  ASSUME NEW new, \A e \in new : e.key \in Keys, NEW kept \in SUBSET Tombstone,
         NEW cuts \in SUBSET Nat, NEW outs, outs = Outputs(new, kept, cuts)
  PROVE  Ents(outs) = new /\ \A k \in Keys : CoverAlike(Tombs(outs), kept, k)
<1> DEFINE p(a) == Part(new, kept, a, PartEnd(a, cuts))
<1>1. /\ outs = {p(a) : a \in cuts \cup {0}} \ {Empty}
      /\ \A a : /\ p(a).entries = {e \in new : a <= e.key /\ e.key < PartEnd(a, cuts)}
                /\ p(a).tombs = Clipped(kept, a, PartEnd(a, cuts))
      /\ Empty.entries = {} /\ Empty.tombs = {}
  BY DEF Outputs, Part, Empty
<1>2. \A a \in cuts \cup {0} : a \in Nat /\ PartEnd(a, cuts) \in Nat
  BY PartEnds
<1> HIDE DEF p
<1>3. \A e \in new : \E O \in outs : e \in O.entries
  <2> SUFFICES ASSUME NEW e \in new PROVE \E O \in outs : e \in O.entries
    OBVIOUS
  <2>1. PICK a \in cuts \cup {0} : a <= e.key /\ e.key < PartEnd(a, cuts)
    BY PartsCover
  <2>2. e \in p(a).entries
    BY <1>1, <2>1
  <2> QED
    BY <1>1, <2>2
<1>4. \A O \in outs : \A e \in O.entries : e \in new
  BY <1>1
<1>5. ASSUME NEW k \in Keys, NEW t \in kept, Covers(t, k)
      PROVE  \E O \in outs : \E u \in O.tombs : Covers(u, k) /\ u.seq = t.seq
  <2>1. PICK a \in cuts \cup {0} : a <= k /\ k < PartEnd(a, cuts)
    BY PartsCover
  <2>2. PICK b \in Nat : b = PartEnd(a, cuts)
    BY <1>2
  <2>3. t.begin \in Nat /\ t.end \in Nat /\ k \in Nat /\ a \in Nat
    BY <1>2, KeysAssumption DEF Tombstone, Keys
  <2>4. t.begin <= k /\ k < t.end
    BY <1>5 DEF Covers
  <2>5. PICK lo : lo = Max({t.begin, a})
    OBVIOUS
  <2>6. PICK hi : hi = Min({t.end, b})
    OBVIOUS
  <2>7. lo <= k /\ k < hi /\ lo \in Nat /\ hi \in Nat
    BY <2>1, <2>2, <2>3, <2>4, <2>5, <2>6, Pair
  <2>8. PICK u : u = [begin |-> lo, end |-> hi, seq |-> t.seq]
    OBVIOUS
  <2>9. lo < hi
    BY <2>3, <2>7
  <2>10. u \in Clipped(kept, a, b)
    BY <2>5, <2>6, <2>8, <2>9 DEF Clipped
  <2>11. Covers(u, k) /\ u.seq = t.seq
    BY <2>7, <2>8 DEF Covers
  <2>12. p(a) \in outs /\ u \in p(a).tombs
    BY <1>1, <2>2, <2>10
  <2> QED
    BY <2>11, <2>12
<1>6. ASSUME NEW k \in Keys, NEW O \in outs, NEW u \in O.tombs, Covers(u, k)
      PROVE  \E t \in kept : Covers(t, k) /\ t.seq = u.seq
  <2>1. PICK a \in cuts \cup {0} : u \in Clipped(kept, a, PartEnd(a, cuts))
    BY <1>1
  <2>2. /\ u \in Tombstone
        /\ \E t \in kept : t.begin <= u.begin /\ u.end <= t.end /\ t.seq = u.seq
    BY <1>2, <2>1, ClippedParts
  <2>3. k \in Nat /\ \A t \in Tombstone : t.begin \in Nat /\ t.end \in Nat
    BY KeysAssumption DEF Tombstone, Keys
  <2> QED
    BY <1>6, <2>2, <2>3 DEF Covers
<1>7. Ents(outs) = new
  BY <1>3, <1>4 DEF Ents
<1>8. \A k \in Keys : CoverAlike(Tombs(outs), kept, k)
  <2>1. /\ \A O \in outs : \A t \in O.tombs : t \in Tombs(outs)
        /\ \A t \in Tombs(outs) : \E O \in outs : t \in O.tombs
    BY DEF Tombs
  <2> QED
    BY <1>5, <1>6, <2>1 DEF CoverAlike
<1> QED
  BY <1>7, <1>8

------------------------------------------------------------------------------
(* A compaction's outputs can take the place of its inputs.                *)

GivenBy(C, k, r, i) == Gives(Ents(C), Tombs(C), k, r, i)
WipedBy(C, k, r)    == Wiped(Ents(C), Tombs(C), k, 0, r)

\* Nothing in the tables `deeper` is older than what C holds of key k.
NothingOlder(deeper, C, k) ==
  \A U \in deeper, T \in C : \A s, q \in Nat : Holds(T, k, s) /\ Holds(U, k, q) => s < q

\* The tables O read as C does, for the readers R, above the tables deeper.
StandsIn(C, O, deeper, R) ==
  /\ Stacked(Ents(O))
  /\ \A o \in Ents(O) : \A i \in ToSet(o.val) : \E z \in Ents(C) : z.key = o.key /\ i \in ToSet(z.val)
  /\ \A k \in Keys, r \in R :
       /\ \A i : GivenBy(O, k, r, i) <=> GivenBy(C, k, r, i)
       /\ (WipedBy(O, k, r) <=> WipedBy(C, k, r)) \/ NothingOlder(deeper, C, k)

\* DoCompactionWork: the outputs stand in for the inputs, for every reader at a stripe.
LEMMA CompactsTo ==
  ASSUME NEW C, Tabs(C), Stacked(Ents(C)), NEW deeper, Tabs(deeper), NEW snaps \in SUBSET Nat,
         NEW folds \in BOOLEAN, NEW cuts \in SUBSET Nat,
         NEW outs, outs = Outputs(CompactEntries(Ents(C), Tombs(C), snaps, deeper, folds),
                                  KeptTombs(Tombs(C), snaps, deeper), cuts)
  PROVE  StandsIn(C, outs, deeper, Stripes(snaps))
<1>1. PICK E : E = Ents(C)
  OBVIOUS
<1>2. PICK X : X = Tombs(C)
  OBVIOUS
<1>3. PICK new : new = CompactEntries(E, X, snaps, deeper, folds)
  OBVIOUS
<1>4. PICK kept : kept = KeptTombs(X, snaps, deeper)
  OBVIOUS
<1>5. X \in SUBSET Tombstone /\ kept \in SUBSET Tombstone /\ Stacked(E)
  <2>1. X \in SUBSET Tombstone
    BY <1>2 DEF Tombs, Tabs, Sound
  <2>2. kept \subseteq X
    BY <1>4 DEF KeptTombs
  <2> QED
    BY <1>1, <2>1, <2>2
<1>6. \A k \in Keys : KeyKept(k, Of(E, k), X, snaps, BaseForKey(deeper, k), kept, Of(new, k))
  BY <1>3, <1>4, <1>5, EntriesMake
<1>7. \A e \in new : e.key \in Keys
  <2>1. \A e \in E : EntryLike(e)
    BY <1>5 DEF Stacked
  <2>2. \A x \in new : StandsFor(x, E)
    BY <1>3, <2>1, EntriesStandFor
  <2> QED
    BY <2>2 DEF StandsFor, EntryLike
<1>8. Ents(outs) = new /\ \A k \in Keys : CoverAlike(Tombs(outs), kept, k)
  <2>1. outs = Outputs(new, kept, cuts)
    BY <1>1, <1>2, <1>3, <1>4
  <2> QED
    BY <1>5, <1>7, <2>1, OutputsKeep
<1>9. Stacked(new)
  <2>1. \A o \in new : o \in Of(new, o.key) /\ Stacked(Of(new, o.key))
    BY <1>6, <1>7 DEF KeyKept, Of
  <2>2. \A o \in new : EntryLike(o) /\ Valued(o)
    BY <2>1 DEF Stacked
  <2>3. ASSUME NEW x \in new, NEW y \in new, x.key = y.key
        PROVE  /\ x.seq = y.seq => x = y
               /\ x.seq < y.seq => \A i \in ToSet(y.val) : x.seq < i
    <3>1. x \in Of(new, y.key) /\ y \in Of(new, y.key) /\ Stacked(Of(new, y.key))
      <4>1. x \in Of(new, x.key) /\ y \in Of(new, y.key) /\ Stacked(Of(new, y.key))
        BY <2>1
      <4> QED
        BY <2>3, <4>1
    <3> QED
      BY <2>3, <3>1 DEF Stacked
  <2> QED
    BY <2>2, <2>3 DEF Stacked
<1>10. \A o \in new : \A i \in ToSet(o.val) : \E z \in E : z.key = o.key /\ i \in ToSet(z.val)
  <2> SUFFICES ASSUME NEW o \in new, NEW i \in ToSet(o.val)
               PROVE  \E z \in E : z.key = o.key /\ i \in ToSet(z.val)
    OBVIOUS
  <2>1. PICK k \in Keys : k = o.key
    BY <1>7
  <2>2. o \in Of(new, k)
    BY <2>1 DEF Of
  <2>3. \E z \in Of(E, k) : i \in ToSet(z.val)
    BY <1>6, <2>2 DEF KeyKept
  <2> QED
    BY <2>1, <2>3 DEF Of
<1>11. ASSUME NEW k \in Keys, NEW r \in Stripes(snaps)
       PROVE  /\ \A i : GivenBy(outs, k, r, i) <=> GivenBy(C, k, r, i)
              /\ (WipedBy(outs, k, r) <=> WipedBy(C, k, r)) \/ NothingOlder(deeper, C, k)
  <2>1. /\ \A i : GivenBy(outs, k, r, i) <=> Gives(Of(new, k), kept, k, r, i)
        /\ WipedBy(outs, k, r) <=> Wiped(Of(new, k), kept, k, 0, r)
    BY <1>8, SameCover, OwnEntries DEF GivenBy, WipedBy
  <2>2. /\ \A i : GivenBy(C, k, r, i) <=> Gives(Of(E, k), X, k, r, i)
        /\ WipedBy(C, k, r) <=> Wiped(Of(E, k), X, k, 0, r)
    BY <1>1, <1>2, OwnEntries DEF GivenBy, WipedBy
  <2>3. /\ \A i : Gives(Of(new, k), kept, k, r, i) <=> Gives(Of(E, k), X, k, r, i)
        /\ ~BaseForKey(deeper, k) =>
             (Wiped(Of(new, k), kept, k, 0, r) <=> Wiped(Of(E, k), X, k, 0, r))
    BY <1>6 DEF KeyKept
  <2>4. ASSUME BaseForKey(deeper, k) PROVE NothingOlder(deeper, C, k)
    <3>1. ASSUME NEW U \in deeper, NEW q, Holds(U, k, q) PROVE FALSE
      <4>1. k \in Nat
        BY KeysAssumption DEF Keys
      <4>2. Lo(U) <= k /\ k <= Hi(U)
        BY <3>1, <4>1, HeldInBounds DEF Tabs
      <4> QED
        BY <2>4, <4>2 DEF BaseForKey, Overlaps
    <3> QED
      BY <3>1 DEF NothingOlder
  <2> QED
    BY <2>1, <2>2, <2>3, <2>4
<1> QED
  BY <1>1, <1>8, <1>9, <1>10, <1>11 DEF StandsIn

------------------------------------------------------------------------------
(* The invariant.                                                          *)

\* All that the family holds (Empty among it, so that an empty memtable that
\* comes or goes makes no difference).
Everything == {Empty, mem, imm} \cup UNION {TablesAt(l) : l \in Levs}

\* Write i counts for key k and a reader at r.
Expected(k, r, i) ==
  /\ i \in 1 .. LastSeq /\ i <= r
  /\ written[i].begin = k /\ written[i].type \in {"value", "merge"}
  /\ \A j \in 1 .. LastSeq : i < j /\ j <= r => ~Wipes(j, k)

\* Read through, what the family holds gives what was written.
Content ==
  /\ Stacked(Ents(Everything))
  /\ \A k \in Keys, r \in Stripes(snapshots) : \A i :
       GivenBy(Everything, k, r, i) <=> Expected(k, r, i)

\* The outputs of the compaction in progress can take the place of its inputs,
\* for the snapshots that are still live and for new ones.
Faithful ==
  comp.busy => StandsIn(comp.in0 \cup comp.in1, comp.outs, Below(comp.level), Stripes(snapshots))

Exact == snapshots \subseteq 1 .. LastSeq /\ Content /\ Faithful

\* Part of a stack is a stack.
LEMMA SubStacked ==
  ASSUME NEW E, NEW F \in SUBSET E, Stacked(E)
  PROVE  Stacked(F)
BY DEF Stacked

\* The stripes end at the snapshots and at the latest reader.
LEMMA SnapshotsAre ==
  ASSUME Shape, snapshots \subseteq 1 .. LastSeq
  PROVE  /\ snapshots \in SUBSET Nat /\ LastSeq \in Nat /\ MaxSeq \in Nat /\ KMax \in Nat
         /\ LastSeq <= MaxSeq /\ LastSeq < KMax
         /\ Stripes(snapshots) \subseteq Nat
         /\ \A r \in Stripes(snapshots) : r \in snapshots \/ r = KMax
BY KeysAssumption DEF Shape, LastSeq, KMax, Stripes

\* The numbers of what some tables hold.
LEMMA DatedCounted ==
  ASSUME NEW C, \A T \in C : Sound(T) /\ Dated(T)
  PROVE  /\ \A e \in Ents(C) : e.seq \in Nat \ {0} /\ e.seq <= LastSeq
         /\ \A t \in Tombs(C) : t.seq \in Nat \ {0} /\ t.seq <= LastSeq
<1>2. \A n \in Seqs : n \in Nat \ {0}
  BY KeysAssumption DEF Seqs
<1>3. \A k \in Keys : k \in Nat
  BY KeysAssumption DEF Keys
<1>4. ASSUME NEW T \in C, NEW e \in T.entries
      PROVE  e.seq \in Nat \ {0} /\ e.seq <= LastSeq
  <2>1. e.seq \in Seqs /\ e.key \in Keys
    BY DEF Sound, EntryLike
  <2>2. Holds(T, e.key, e.seq)
    BY DEF Holds
  <2> QED
    BY <1>2, <1>3, <2>1, <2>2 DEF Dated
<1>5. ASSUME NEW T \in C, NEW t \in T.tombs
      PROVE  t.seq \in Nat \ {0} /\ t.seq <= LastSeq
  <2>1. t.seq \in Seqs /\ t.begin \in Keys /\ t.begin < t.end
    BY DEF Sound, Tombstone
  <2>2. Covers(t, t.begin)
    BY <1>3, <2>1 DEF Covers
  <2>3. Holds(T, t.begin, t.seq)
    BY <2>2 DEF Holds
  <2> QED
    BY <1>2, <1>3, <2>1, <2>3 DEF Dated
<1> QED
  BY <1>4, <1>5 DEF Ents, Tombs

\* The numbers of what the family holds.
LEMMA EverythingCounted ==
  ASSUME Shape, Aged
  PROVE  /\ \A T \in Everything : Sound(T)
         /\ Counted(Ents(Everything), Tombs(Everything))
         /\ \A e \in Ents(Everything) : e.seq <= LastSeq
         /\ \A t \in Tombs(Everything) : t.seq <= LastSeq
<1>1. \A T \in Everything : Sound(T) /\ Dated(T)
  <2>1. Sound(Empty) /\ Dated(Empty)
    BY EmptyIsSound DEF Dated
  <2>2. \A l \in Levs : \A T \in TablesAt(l) : Sound(T) /\ Dated(T)
    BY DEF Shape, Tabs, Aged
  <2>3. Sound(mem) /\ Sound(imm) /\ Dated(mem) /\ Dated(imm)
    BY DEF Shape, Aged
  <2> QED
    BY <2>1, <2>2, <2>3 DEF Everything
<1> QED
  BY <1>1, DatedCounted DEF Counted

\* What the family holds stays the same, read by no new reader.
LEMMA SameContent ==
  ASSUME Content, Everything' = Everything, written' = written,
         Stripes(snapshots)' \subseteq Stripes(snapshots)
  PROVE  Content'
<1>1. LastSeq' = LastSeq /\ \A j, k : Wipes(j, k)' <=> Wipes(j, k)
  BY DEF LastSeq, Wipes
<1>2. \A k, r, i : Expected(k, r, i)' <=> Expected(k, r, i)
  BY <1>1 DEF Expected
<1>3. Stacked(Ents(Everything))' /\ \A k, r, i : GivenBy(Everything, k, r, i)' <=> GivenBy(Everything, k, r, i)
  BY DEF Content, GivenBy
<1> QED
  BY <1>2, <1>3 DEF Content

\* What stands in for more readers stands in for fewer.
LEMMA FewerReaders ==
  ASSUME NEW C, NEW O, NEW deeper, NEW R, NEW Q \in SUBSET R, StandsIn(C, O, deeper, R)
  PROVE  StandsIn(C, O, deeper, Q)
BY DEF StandsIn

\* The compaction at work stays faithful when a snapshot is released.
LEMMA SameFaithful ==
  ASSUME Faithful, comp' = comp, levels' = levels, Stripes(snapshots)' \subseteq Stripes(snapshots)
  PROVE  Faithful'
<1> SUFFICES ASSUME comp.busy
             PROVE  StandsIn(comp.in0 \cup comp.in1, comp.outs, Below(comp.level)', Stripes(snapshots)')
  BY DEF Faithful
<1>1. Below(comp.level)' = Below(comp.level)
  BY DEF Below
<1>2. StandsIn(comp.in0 \cup comp.in1, comp.outs, Below(comp.level), Stripes(snapshots))
  BY DEF Faithful
<1> QED
  BY <1>1, <1>2, FewerReaders

\* To whoever sees all, it does not matter how far beyond he could see.
LEMMA SeesAll ==
  ASSUME NEW E, NEW X, NEW m \in Nat, \A e \in E : e.seq \in Nat /\ e.seq <= m,
         \A t \in X : t.seq \in Nat /\ t.seq <= m, NEW r \in Nat, m <= r, NEW k
  PROVE  /\ \A s : Wiped(E, X, k, s, m) <=> Wiped(E, X, k, s, r)
         /\ \A i : Gives(E, X, k, m, i) <=> Gives(E, X, k, r, i)
<1>1. /\ \A e \in E : e.seq <= m /\ e.seq <= r
      /\ \A t \in X : t.seq <= m /\ t.seq <= r
  OBVIOUS
<1>2. \A s : Wiped(E, X, k, s, m) <=> Wiped(E, X, k, s, r)
  BY <1>1 DEF Wiped
<1>3. \A i : Gives(E, X, k, m, i) <=> Gives(E, X, k, r, i)
  BY <1>1, <1>2 DEF Gives
<1> QED
  BY <1>2, <1>3

\* Every table at work is among what the family holds, or made of it.
LEMMA WorkDated ==
  ASSUME Shape, Aged, Working, comp.busy
  PROVE  /\ Tabs(comp.in0 \cup comp.in1) /\ Tabs(comp.outs)
         /\ comp.in0 \cup comp.in1 \subseteq Everything
         /\ \A T \in comp.in0 \cup comp.in1 \cup comp.outs : Dated(T)
<1> DEFINE l == comp.level
           C == comp.in0 \cup comp.in1
<1>1. l \in 0 .. NumLevels - 2 /\ Tabs(comp.outs)
  BY DEF Shape
<1>2. l \in Levs /\ l + 1 \in Levs
  BY <1>1, Levels0
<1>3. /\ comp.in0 \subseteq TablesAt(l) /\ comp.in1 \subseteq TablesAt(l + 1)
      /\ \A O \in comp.outs : MadeOf(O, C)
  BY DEF Working, Replaceable, Replaces
<1>4. C \subseteq Everything
  BY <1>2, <1>3 DEF Everything
<1>5. Tabs(C)
  BY <1>2, <1>3 DEF Shape, Tabs
<1>6. \A T \in C : Dated(T)
  BY <1>2, <1>3 DEF Aged
<1> HIDE DEF C, l
<1>7. \A O \in comp.outs : Dated(O)
  <2> SUFFICES ASSUME NEW O \in comp.outs PROVE Dated(O)
    OBVIOUS
  <2>1. Sound(O) /\ MadeOf(O, C)
    BY <1>1, <1>3 DEF Tabs
  <2> QED
    BY <1>5, <1>6, <2>1, MadeAge
<1> QED
  BY <1>1, <1>4, <1>5, <1>6, <1>7 DEF C

\* A new snapshot reads what the newest reader reads.
LEMMA SnapshotExact ==
  ASSUME Shape, Aged, Working, Exact, GetSnapshot
  PROVE  Exact'
<1>1. /\ snapshots' = snapshots \cup {LastSeq} /\ LastSeq > 0
      /\ UNCHANGED <<written, mem, imm, hasImm, level0, levels, comp, call, calls>>
  BY DEF GetSnapshot
<1>2. /\ snapshots \subseteq 1 .. LastSeq /\ snapshots \in SUBSET Nat
      /\ LastSeq \in Nat /\ KMax \in Nat /\ LastSeq < KMax /\ LastSeq <= KMax
  BY SnapshotsAre DEF Exact
<1>3. Stripes(snapshots') = Stripes(snapshots) \cup {LastSeq} /\ KMax \in Stripes(snapshots)
  BY <1>1 DEF Stripes
<1>4. LastSeq' = LastSeq /\ Everything' = Everything /\ \A j, k : Wipes(j, k)' <=> Wipes(j, k)
  BY <1>1 DEF LastSeq, Everything, TablesAt, Wipes
<1>5. \A k, r, i : Expected(k, r, i)' <=> Expected(k, r, i)
  BY <1>1, <1>4 DEF Expected
<1>6. \A k, i : Expected(k, LastSeq, i) <=> Expected(k, KMax, i)
  BY <1>2 DEF Expected
<1>7. ASSUME NEW C, \A T \in C : Sound(T) /\ Dated(T)
      PROVE  \A k : /\ WipedBy(C, k, LastSeq) <=> WipedBy(C, k, KMax)
                    /\ \A i : GivenBy(C, k, LastSeq, i) <=> GivenBy(C, k, KMax, i)
  <2>1. PICK m \in Nat : m = LastSeq
    BY <1>2
  <2>2. /\ \A e \in Ents(C) : e.seq \in Nat /\ e.seq <= m
        /\ \A t \in Tombs(C) : t.seq \in Nat /\ t.seq <= m
    BY <1>7, <2>1, DatedCounted
  <2>3. PICK r \in Nat : r = KMax /\ m <= r
    BY <1>2, <2>1
  <2> SUFFICES ASSUME NEW k
               PROVE  /\ WipedBy(C, k, m) <=> WipedBy(C, k, r)
                      /\ \A i : GivenBy(C, k, m, i) <=> GivenBy(C, k, r, i)
    BY <2>1, <2>3
  <2> QED
    BY <2>2, <2>3, SeesAll DEF WipedBy, GivenBy
<1>8. Content'
  <2>1. \A T \in Everything : Sound(T) /\ Dated(T)
    <3>1. Sound(Empty) /\ Dated(Empty)
      BY EmptyIsSound DEF Dated
    <3>2. \A l \in Levs : \A T \in TablesAt(l) : Sound(T) /\ Dated(T)
      BY DEF Shape, Tabs, Aged
    <3>3. Sound(mem) /\ Sound(imm) /\ Dated(mem) /\ Dated(imm)
      BY DEF Shape, Aged
    <3> QED
      BY <3>1, <3>2, <3>3 DEF Everything
  <2>2. \A k, i : GivenBy(Everything, k, LastSeq, i) <=> GivenBy(Everything, k, KMax, i)
    BY <1>7, <2>1
  <2>3. \A k \in Keys : \A i : GivenBy(Everything, k, LastSeq, i) <=> Expected(k, LastSeq, i)
    BY <1>3, <1>6, <2>2 DEF Exact, Content
  <2>4. \A k \in Keys, r \in Stripes(snapshots') : \A i :
          GivenBy(Everything, k, r, i) <=> Expected(k, r, i)
    BY <1>3, <2>3 DEF Exact, Content
  <2> QED
    BY <1>1, <1>4, <1>5, <2>4 DEF Exact, Content
<1>9. Faithful'
  <2> SUFFICES ASSUME comp.busy
               PROVE  StandsIn(comp.in0 \cup comp.in1, comp.outs, Below(comp.level), Stripes(snapshots'))
    BY <1>1 DEF Faithful, Below
  <2> DEFINE C == comp.in0 \cup comp.in1
             O == comp.outs
             D == Below(comp.level)
  <2>1. StandsIn(C, O, D, Stripes(snapshots))
    BY DEF Exact, Faithful
  <2>2. /\ \A T \in C : Sound(T) /\ Dated(T)
        /\ \A T \in O : Sound(T) /\ Dated(T)
    BY WorkDated DEF Tabs
  <2> HIDE DEF C, O, D
  <2>3. \A k \in Keys :
          /\ \A i : GivenBy(O, k, KMax, i) <=> GivenBy(C, k, KMax, i)
          /\ (WipedBy(O, k, KMax) <=> WipedBy(C, k, KMax)) \/ NothingOlder(D, C, k)
    BY <1>3, <2>1 DEF StandsIn
  <2>4. \A k \in Keys :
          /\ \A i : GivenBy(O, k, LastSeq, i) <=> GivenBy(C, k, LastSeq, i)
          /\ (WipedBy(O, k, LastSeq) <=> WipedBy(C, k, LastSeq)) \/ NothingOlder(D, C, k)
    BY <1>7, <2>2, <2>3
  <2>5. StandsIn(C, O, D, Stripes(snapshots'))
    BY <1>3, <2>1, <2>4 DEF StandsIn
  <2> QED
    BY <2>5 DEF C, O, D
<1>10. (snapshots \subseteq 1 .. LastSeq)'
  BY <1>1, <1>2, <1>4
<1> QED
  BY <1>8, <1>9, <1>10 DEF Exact

\* The memtable set aside is still read.
LEMMA SwitchSame ==
  ASSUME Shape, Switch, UNCHANGED <<level0, levels>>
  PROVE  Everything' = Everything
<1>1. imm = Empty /\ imm' = mem /\ mem' = Empty
  BY DEF Shape, Switch
<1>2. \A l : TablesAt(l)' = TablesAt(l)
  BY DEF TablesAt
<1>3. {Empty, mem', imm'} = {Empty, mem, imm}
  BY <1>1
<1> QED
  BY <1>2, <1>3 DEF Everything

\* What a write adds to the memtable.
EntryOf(w, n) ==
  IF w.type = "range" THEN {}
  ELSE {[key |-> w.begin, seq |-> n, type |-> w.type,
         val |-> IF w.type = "deletion" THEN <<>> ELSE <<n>>]}
TombOf(w, n) ==
  IF w.type = "range" /\ w.begin < w.end
  THEN {[begin |-> w.begin, end |-> w.end, seq |-> n]} ELSE {}

\* What an added write leaves in a memtable.
LEMMA AddsTo ==
  ASSUME NEW M, M = [entries |-> M.entries, tombs |-> M.tombs], NEW w, NEW n
  PROVE  /\ AddTo(M, w, n).entries = M.entries \cup EntryOf(w, n)
         /\ AddTo(M, w, n).tombs = M.tombs \cup TombOf(w, n)
<1>1. PICK E : E = M.entries
  OBVIOUS
<1>2. PICK X : X = M.tombs
  OBVIOUS
<1>3. M = [entries |-> E, tombs |-> X]
  BY <1>1, <1>2
<1>4. CASE w.type = "range"
  <2>1. PICK Y : Y = X \cup (IF w.begin < w.end
                             THEN {[begin |-> w.begin, end |-> w.end, seq |-> n]} ELSE {})
    OBVIOUS
  <2>2. AddTo(M, w, n) = [M EXCEPT !.tombs = Y]
    BY <1>2, <1>4, <2>1 DEF AddTo
  <2>3. [M EXCEPT !.tombs = Y] = [entries |-> E, tombs |-> Y]
    BY <1>3
  <2>4. EntryOf(w, n) = {} /\ Y = X \cup TombOf(w, n)
    BY <1>4, <2>1 DEF EntryOf, TombOf
  <2> QED
    BY <1>1, <1>2, <2>2, <2>3, <2>4
<1>5. CASE w.type # "range"
  <2>1. PICK Y : Y = E \cup EntryOf(w, n)
    OBVIOUS
  <2>2. AddTo(M, w, n) = [M EXCEPT !.entries = Y]
    BY <1>1, <1>5, <2>1 DEF AddTo, EntryOf
  <2>3. [M EXCEPT !.entries = Y] = [entries |-> Y, tombs |-> X]
    BY <1>3
  <2>4. TombOf(w, n) = {}
    BY <1>5 DEF TombOf
  <2> QED
    BY <1>1, <1>2, <2>1, <2>2, <2>3, <2>4
<1> QED
  BY <1>4, <1>5

\* A write by itself gives itself, or wipes what there was.
LEMMA WriteGives ==
  ASSUME NEW w \in Write, NEW n \in Nat \ {0}, NEW k, NEW r \in Nat, n <= r
  PROVE  /\ \A i : Gives(EntryOf(w, n), TombOf(w, n), k, r, i) <=>
                     i = n /\ w.begin = k /\ w.type \in {"value", "merge"}
         /\ k \in Keys => (Wiped(EntryOf(w, n), TombOf(w, n), k, 0, r) <=>
                             IF w.type = "range" THEN w.begin <= k /\ k < w.end
                             ELSE w.type # "merge" /\ w.begin = k)
<1>1. w.type \in {"value", "deletion", "merge", "range"} /\ 0 < n /\ ~(n < n)
  BY DEF Write, EntryType
<1>2. ToSet(<<n>>) = {n} /\ ToSet(<<>>) = {}
  <2>1. <<n>> \in Seq({n}) /\ <<n>>[1] = n /\ Len(<<n>>) = 1
    OBVIOUS
  <2>2. ToSet(<<n>>) = {<<n>>[i] : i \in 1 .. 1}
    BY <2>1, ToSetOf
  <2> QED
    BY <2>1, <2>2 DEF ToSet
<1>3. CASE w.type = "range"
  <2>1. EntryOf(w, n) = {}
    BY <1>3 DEF EntryOf
  <2>2. /\ \A t \in TombOf(w, n) : t.begin = w.begin /\ t.end = w.end /\ t.seq = n
        /\ w.begin < w.end => \E t \in TombOf(w, n) : t.begin = w.begin /\ t.end = w.end /\ t.seq = n
        /\ TombOf(w, n) # {} => w.begin < w.end
    <3>1. PICK t : t = [begin |-> w.begin, end |-> w.end, seq |-> n]
      OBVIOUS
    <3>2. t.begin = w.begin /\ t.end = w.end /\ t.seq = n
      BY <3>1
    <3>3. TombOf(w, n) = IF w.begin < w.end THEN {t} ELSE {}
      BY <1>3, <3>1 DEF TombOf
    <3> QED
      BY <3>2, <3>3
  <2>3. w.begin \in Nat /\ w.end \in Nat /\ \A q \in Keys : q \in Nat
    BY KeysAssumption DEF Write, Keys
  <2>4. k \in Keys => (Wiped({}, TombOf(w, n), k, 0, r) <=> w.begin <= k /\ k < w.end)
    BY <1>1, <2>2, <2>3 DEF Wiped, Covers
  <2>5. \A i : ~Gives({}, TombOf(w, n), k, r, i)
    BY DEF Gives
  <2> QED
    BY <1>3, <2>1, <2>4, <2>5
<1>4. CASE w.type # "range"
  <2>1. PICK v : v = IF w.type = "deletion" THEN <<>> ELSE <<n>>
    OBVIOUS
  <2>2. PICK e : e = [key |-> w.begin, seq |-> n, type |-> w.type, val |-> v]
    OBVIOUS
  <2>3. EntryOf(w, n) = {e} /\ TombOf(w, n) = {}
    BY <1>4, <2>1, <2>2 DEF EntryOf, TombOf
  <2>4. e.key = w.begin /\ e.seq = n /\ e.type = w.type /\ e.val = v
    BY <2>2
  <2>5. \A i : i \in ToSet(v) <=> i = n /\ w.type # "deletion"
    BY <1>2, <2>1
  <2>6. ~Wiped({e}, {}, k, e.seq, r)
    BY <1>1, <2>4 DEF Wiped
  <2>7. \A i : Gives({e}, {}, k, r, i) <=> i = n /\ w.begin = k /\ w.type # "deletion"
    BY <2>4, <2>5, <2>6 DEF Gives
  <2>8. Wiped({e}, {}, k, 0, r) <=> w.type # "merge" /\ w.begin = k
    BY <1>1, <2>4 DEF Wiped
  <2> QED
    BY <1>1, <1>4, <2>3, <2>7, <2>8
<1> QED
  BY <1>3, <1>4

\* A write: the contents grow by it and by nothing else.
LEMMA WriteExact ==
  ASSUME Shape, Aged, Exact, NEW w \in Writes, WriteOne(w)
  PROVE  Exact'
<1>1. PICK n : n = LastSeq + 1
  OBVIOUS
<1>2. /\ written \in Seq(Writes) /\ w \in Write /\ Writes \subseteq Write
      /\ LastSeq \in Nat /\ LastSeq < MaxSeq /\ MaxSeq \in Nat
  BY WritesAssumption, KeysAssumption DEF WriteOne, Shape, LastSeq
<1>3. n \in Seqs /\ n \in Nat \ {0} /\ n <= KMax /\ LastSeq < n
  BY <1>1, <1>2 DEF Seqs, KMax
<1>4. /\ written' = Append(written, w) /\ mem' = AddTo(mem, w, n)
      /\ UNCHANGED <<imm, hasImm, level0, levels, snapshots, comp, call, calls>>
  BY <1>1 DEF WriteOne
<1>5. LastSeq' = n /\ written'[n] = w /\ \A j \in 1 .. LastSeq : written'[j] = written[j]
  BY <1>1, <1>2, <1>4 DEF LastSeq
<1>6. /\ snapshots \subseteq 1 .. LastSeq /\ Stripes(snapshots) \subseteq Nat
      /\ \A r \in Stripes(snapshots) : r \in snapshots \/ r = KMax
  BY SnapshotsAre DEF Exact
<1>7. PICK dE : dE = EntryOf(w, n)
  OBVIOUS
<1>8. PICK dX : dX = TombOf(w, n)
  OBVIOUS
<1>9. PICK E : E = Ents(Everything)
  OBVIOUS
<1>10. PICK X : X = Tombs(Everything)
  OBVIOUS
<1>11. Ents(Everything)' = dE \cup E /\ Tombs(Everything)' = dX \cup X
  <2>1. mem'.entries = mem.entries \cup dE /\ mem'.tombs = mem.tombs \cup dX
    <3>1. mem = [entries |-> mem.entries, tombs |-> mem.tombs]
      BY DEF Shape, Sound
    <3> QED
      BY <1>4, <1>7, <1>8, <3>1, AddsTo
  <2>2. PICK O : O = {Empty, imm} \cup UNION {TablesAt(l) : l \in Levs}
    OBVIOUS
  <2>3. UNION {TablesAt(l)' : l \in Levs} = UNION {TablesAt(l) : l \in Levs}
    BY <1>4 DEF TablesAt
  <2>4. Everything = O \cup {mem} /\ Everything' = O \cup {mem'}
    <3>1. Everything' = {Empty, mem', imm'} \cup UNION {TablesAt(l)' : l \in Levs}
      BY DEF Everything
    <3> QED
      BY <1>4, <2>2, <2>3, <3>1 DEF Everything
  <2>5. Ents(Everything)' = Ents(Everything') /\ Tombs(Everything)' = Tombs(Everything')
    BY DEF Ents, Tombs
  <2>6. /\ Ents(O \cup {mem'}) = dE \cup Ents(O \cup {mem})
        /\ Tombs(O \cup {mem'}) = dX \cup Tombs(O \cup {mem})
    BY <2>1 DEF Ents, Tombs
  <2> QED
    BY <1>9, <1>10, <2>4, <2>5, <2>6
<1>12. /\ Counted(E, X) /\ Stacked(E)
       /\ \A e \in E : e.seq \in Nat /\ e.seq <= LastSeq
       /\ \A t \in X : t.seq \in Nat /\ t.seq <= LastSeq
  BY <1>9, <1>10, EverythingCounted DEF Counted, Exact, Content
<1>13. /\ \A e \in dE : /\ e.seq = n /\ EntryLike(e) /\ Valued(e)
                        /\ \A i \in ToSet(e.val) : i = n
       /\ \A e, f \in dE : e = f
       /\ \A t \in dX : t.seq = n
  <2>1. \A t \in dX : t.seq = n
    BY <1>8 DEF TombOf
  <2>2. CASE dE = {}
    BY <2>1, <2>2
  <2>3. CASE dE # {}
    <3>1. w.type # "range" /\ w.type \in EntryType /\ w.begin \in Keys
      BY <1>2, <1>7, <2>3 DEF EntryOf, Write
    <3>2. PICK v : v = IF w.type = "deletion" THEN <<>> ELSE <<n>>
      OBVIOUS
    <3>3. PICK e : e = [key |-> w.begin, seq |-> n, type |-> w.type, val |-> v]
      OBVIOUS
    <3>4. dE = {e}
      BY <1>7, <3>1, <3>2, <3>3 DEF EntryOf
    <3>5. e.key = w.begin /\ e.seq = n /\ e.type = w.type /\ e.val = v
      BY <3>3
    <3>6. EntryLike(e)
      BY <1>3, <3>1, <3>3, <3>5 DEF EntryLike
    <3>7. Increasing(v) /\ \A i \in ToSet(v) : i = n
      <4>1. CASE v = <<>>
        BY <4>1 DEF Increasing, ToSet
      <4>2. CASE v = <<n>>
        <5>1. v \in Seq(Nat) /\ Len(v) = 1 /\ v[1] = n
          BY <1>3, <4>2
        <5>2. ToSet(v) = {v[i] : i \in 1 .. 1}
          BY <5>1, ToSetOf
        <5> QED
          BY <5>1, <5>2 DEF Increasing
      <4> QED
        BY <3>2, <4>1, <4>2
    <3>8. Valued(e)
      <4>1. n \in 1 .. n /\ (e.type = "deletion" => e.val = <<>>)
        BY <1>3, <3>2, <3>5
      <4>2. Increasing(e.val) /\ \A i \in ToSet(e.val) : i \in 1 .. e.seq
        BY <3>5, <3>7, <4>1
      <4> QED
        BY <4>1, <4>2 DEF Valued
    <3> QED
      BY <2>1, <3>4, <3>5, <3>6, <3>7, <3>8
  <2> QED
    BY <2>2, <2>3
<1>14. Stacked(dE \cup E)
  <2>1. \A x \in dE \cup E : EntryLike(x) /\ Valued(x)
    BY <1>12, <1>13 DEF Stacked
  <2>2. ASSUME NEW x \in dE \cup E, NEW y \in dE \cup E, x.key = y.key
        PROVE  /\ x.seq = y.seq => x = y
               /\ x.seq < y.seq => \A i \in ToSet(y.val) : x.seq < i
    <3>1. CASE x \in E /\ y \in E
      BY <1>12, <2>2, <3>1 DEF Stacked
    <3>2. CASE x \in dE /\ y \in dE
      BY <1>3, <1>13, <3>2
    <3>3. CASE x \in E /\ y \in dE
      <4>1. x.seq < n /\ x.seq # n
        BY <1>2, <1>3, <1>12, <3>3
      <4>2. y.seq = n /\ \A i \in ToSet(y.val) : i = n
        BY <1>13, <3>3
      <4> QED
        BY <4>1, <4>2
    <3>4. CASE x \in dE /\ y \in E
      BY <1>2, <1>3, <1>12, <1>13, <3>4
    <3> QED
      BY <3>1, <3>2, <3>3, <3>4
  <2> QED
    BY <2>1, <2>2 DEF Stacked
<1>15. Counted(dE, dX)
  BY <1>3, <1>13 DEF Counted
<1>16. ASSUME NEW k \in Keys, NEW r \in Nat, NEW i
       PROVE  Gives(dE \cup E, dX \cup X, k, r, i) <=>
                \/ Gives(dE, dX, k, r, i)
                \/ ~Wiped(dE, dX, k, 0, r) /\ Gives(E, X, k, r, i)
  <2>1. \A s : Has(dE, dX, k, s) => s = n
    BY <1>13 DEF Has
  <2>2. \A q : Has(E, X, k, q) => q \in Nat /\ q <= LastSeq
    BY <1>12 DEF Has
  <2>3. \A s, q \in Nat : Has(dE, dX, k, s) /\ Has(E, X, k, q) => q < s
    BY <1>2, <1>3, <2>1, <2>2
  <2> QED
    BY <1>12, <1>15, <2>3, Layered
<1>17. /\ \A j \in 1 .. LastSeq : \A k : Wipes(j, k)' <=> Wipes(j, k)
       /\ \A k : Wipes(n, k)' <=> IF w.type = "range" THEN w.begin <= k /\ k < w.end
                                  ELSE w.type # "merge" /\ w.begin = k
  BY <1>5 DEF Wipes
<1>18. \A j : j \in 1 .. n <=> j \in 1 .. LastSeq \/ j = n
  BY <1>1, <1>2, <1>3
<1>19. ASSUME NEW k \in Keys, NEW r \in snapshots, NEW i
       PROVE  Gives(dE \cup E, dX \cup X, k, r, i) <=> Expected(k, r, i)'
  <2>1. r \in Nat /\ r <= LastSeq /\ r < n /\ r \in Stripes(snapshots)
    BY <1>1, <1>2, <1>6 DEF Stripes
  <2>2. ~Gives(dE, dX, k, r, i) /\ ~Wiped(dE, dX, k, 0, r)
    BY <1>3, <1>13, <2>1 DEF Gives, Wiped
  <2>3. Gives(E, X, k, r, i) <=> Expected(k, r, i)
    BY <1>9, <1>10, <2>1 DEF Exact, Content, GivenBy
  <2>4. \A j : j \in 1 .. n /\ j <= r <=> j \in 1 .. LastSeq /\ j <= r
    BY <1>2, <1>3, <1>18, <2>1
  <2>5. Expected(k, r, i)' <=>
          /\ i \in 1 .. n /\ i <= r
          /\ written'[i].begin = k /\ written'[i].type \in {"value", "merge"}
          /\ \A j \in 1 .. n : i < j /\ j <= r => ~Wipes(j, k)'
    BY <1>5 DEF Expected
  <2>6. Expected(k, r, i)' <=> Expected(k, r, i)
    BY <1>5, <1>17, <2>4, <2>5 DEF Expected
  <2> QED
    BY <1>16, <2>1, <2>2, <2>3, <2>6
<1>20. ASSUME NEW k \in Keys, NEW i
       PROVE  Gives(dE \cup E, dX \cup X, k, KMax, i) <=> Expected(k, KMax, i)'
  <2>1. KMax \in Nat /\ KMax \in Stripes(snapshots)
    BY <1>2 DEF KMax, Stripes
  <2>2. /\ Gives(dE, dX, k, KMax, i) <=> i = n /\ w.begin = k /\ w.type \in {"value", "merge"}
        /\ Wiped(dE, dX, k, 0, KMax) <=> Wipes(n, k)'
    BY <1>2, <1>3, <1>7, <1>8, <1>17, <2>1, WriteGives
  <2>3. Gives(E, X, k, KMax, i) <=> Expected(k, KMax, i)
    BY <1>9, <1>10, <2>1 DEF Exact, Content, GivenBy
  <2>4. /\ \A j : j \in 1 .. n => j <= KMax
        /\ \A j : j \in 1 .. LastSeq => j \in Nat /\ j < n /\ j <= KMax
        /\ n \in 1 .. n /\ n \notin 1 .. LastSeq
    BY <1>2, <1>3, <1>18, <2>1
  <2>5. Expected(k, KMax, i)' <=>
          /\ i \in 1 .. n
          /\ written'[i].begin = k /\ written'[i].type \in {"value", "merge"}
          /\ \A j \in 1 .. n : i < j => ~Wipes(j, k)'
    BY <1>5, <2>4 DEF Expected
  <2>6. Expected(k, KMax, i) <=>
          /\ i \in 1 .. LastSeq
          /\ written[i].begin = k /\ written[i].type \in {"value", "merge"}
          /\ \A j \in 1 .. LastSeq : i < j => ~Wipes(j, k)
    BY <2>4 DEF Expected
  <2>7. CASE i = n
    <3>1. \A j \in 1 .. n : ~(n < j)
      BY <1>3
    <3> QED
      BY <1>5, <1>16, <2>1, <2>2, <2>3, <2>4, <2>5, <2>6, <2>7, <3>1
  <2>8. CASE i # n
    <3>1. Expected(k, KMax, i)' <=> Expected(k, KMax, i) /\ ~Wipes(n, k)'
      BY <1>5, <1>17, <1>18, <2>4, <2>5, <2>6, <2>8
    <3> QED
      BY <1>16, <2>1, <2>2, <2>3, <2>8, <3>1
  <2> QED
    BY <2>7, <2>8
<1>21. Content'
  <2>1. \A k, r, i : GivenBy(Everything, k, r, i)' <=> Gives(dE \cup E, dX \cup X, k, r, i)
    BY <1>11 DEF GivenBy
  <2>2. Stacked(Ents(Everything))'
    BY <1>11, <1>14
  <2>3. \A k \in Keys, r \in Stripes(snapshots) : \A i :
          GivenBy(Everything, k, r, i)' <=> Expected(k, r, i)'
    BY <1>6, <1>19, <1>20, <2>1
  <2> QED
    BY <1>4, <2>2, <2>3 DEF Content
<1>22. Faithful'
  BY <1>4, SameFaithful DEF Exact
<1>23. (snapshots \subseteq 1 .. LastSeq)'
  BY <1>4, <1>5, <1>6, <1>18
<1> QED
  BY <1>21, <1>22, <1>23 DEF Exact

\* Writes, snapshots and the start of a call.
LEMMA UserExact ==
  ASSUME Shape, Aged, Working, Exact, User
  PROVE  Exact'
<1>1. CASE \E w \in Writes : WriteOne(w)
  BY <1>1, WriteExact
<1>2. CASE GetSnapshot
  BY <1>2, SnapshotExact
<1>3. CASE ReleaseSnapshot
  <2>1. /\ snapshots' \subseteq snapshots
        /\ UNCHANGED <<written, mem, imm, hasImm, level0, levels, comp, call, calls>>
    BY <1>3 DEF ReleaseSnapshot
  <2>2. Stripes(snapshots)' \subseteq Stripes(snapshots)
    BY <2>1 DEF Stripes
  <2>3. Everything' = Everything /\ LastSeq' = LastSeq
    BY <2>1 DEF Everything, TablesAt, LastSeq
  <2> QED
    BY <2>1, <2>2, <2>3, SameContent, SameFaithful DEF Exact
<1>4. CASE SwitchMemTable
  <2>1. Switch /\ UNCHANGED <<written, level0, levels, snapshots, comp, call, calls>>
    BY <1>4 DEF SwitchMemTable
  <2>2. Stripes(snapshots)' = Stripes(snapshots) /\ LastSeq' = LastSeq
    BY <2>1 DEF LastSeq
  <2>3. Everything' = Everything
    BY <2>1, SwitchSame
  <2> QED
    BY <2>1, <2>2, <2>3, SameContent, SameFaithful DEF Exact
<1> QED
  BY <1>1, <1>2, <1>3, <1>4 DEF User

\* The levels below the outputs, by their tables.
LEMMA BelowIs ==
  ASSUME NEW l \in Nat
  PROVE  /\ Below(l) = UNION {TablesAt(m) : m \in {j \in Levs : j >= l + 2}}
         /\ Below(l)' = UNION {TablesAt(m)' : m \in {j \in Levs : j >= l + 2}}
<1>1. {j \in Deeper : j >= l + 2} = {j \in Levs : j >= l + 2}
  BY LevelsAssumption DEF Deeper, Levs
<1>2. PICK H : H = {j \in Levs : j >= l + 2}
  OBVIOUS
<1>3. \A m \in H : m # 0
  BY <1>2 DEF Levs
<1>4. \A m \in H : TablesAt(m) = levels[m] /\ TablesAt(m)' = levels'[m]
  BY <1>3 DEF TablesAt
<1>5. Below(l) = UNION {levels[m] : m \in H} /\ Below(l)' = UNION {levels'[m] : m \in H}
  BY <1>1, <1>2 DEF Below
<1>6. /\ UNION {levels[m] : m \in H} = UNION {TablesAt(m) : m \in H}
      /\ UNION {levels'[m] : m \in H} = UNION {TablesAt(m)' : m \in H}
  BY <1>4
<1> QED
  BY <1>2, <1>5, <1>6

\* The memtable's table holds what the memtable held; wherever it goes, nothing
\* in it is older than what a compaction works on.
LEMMA FlushExact ==
  ASSUME Shape, Aged, Working, Exact, Flush
  PROVE  Exact'
<1>1. UNCHANGED <<written, mem, snapshots, comp, call, calls>> /\ imm' = Empty
  BY DEF Flush
<1>2. \/ imm = Empty /\ \A l \in Levs : TablesAt(l)' = TablesAt(l)
      \/ \E f \in Levs : \A l \in Levs : TablesAt(l)' = IF l = f THEN TablesAt(l) \cup {imm}
                                                                ELSE TablesAt(l)
  <2>1. CASE imm = Empty /\ UNCHANGED <<level0, levels>>
    BY <2>1 DEF TablesAt
  <2> QED
    BY <2>1, FlushTree
<1>3. Everything' = Everything
  <2>1. PICK U : U = UNION {TablesAt(l) : l \in Levs}
    OBVIOUS
  <2>2. PICK V : V = UNION {TablesAt(l)' : l \in Levs}
    OBVIOUS
  <2>3. (imm = Empty /\ V = U) \/ V = U \cup {imm}
    BY <1>2, <2>1, <2>2
  <2>4. Everything = {Empty, mem, imm} \cup U /\ Everything' = {Empty, mem, Empty} \cup V
    <3>1. Everything' = {Empty, mem', imm'} \cup UNION {TablesAt(l)' : l \in Levs}
      BY DEF Everything
    <3> QED
      BY <1>1, <2>1, <2>2, <3>1 DEF Everything
  <2> QED
    BY <2>3, <2>4
<1>4. Content'
  BY <1>1, <1>3, SameContent DEF Exact
<1>5. Faithful'
  <2> SUFFICES ASSUME comp.busy
               PROVE  StandsIn(comp.in0 \cup comp.in1, comp.outs, Below(comp.level)', Stripes(snapshots))
    BY <1>1 DEF Faithful
  <2> DEFINE C == comp.in0 \cup comp.in1
             O == comp.outs
             D == Below(comp.level)
             P == Below(comp.level)'
             S == Stripes(snapshots)
  <2>1. StandsIn(C, O, D, S)
    BY DEF Exact, Faithful
  <2>2. \A U \in P : U \in D \/ U = imm
    <3>1. comp.level \in Nat
      BY DEF Shape
    <3>2. PICK l \in Nat : l = comp.level
      BY <3>1
    <3>3. \A m \in Levs : \A U \in TablesAt(m)' : U \in TablesAt(m) \/ U = imm
      BY <1>2
    <3>4. /\ D = UNION {TablesAt(m) : m \in {j \in Levs : j >= l + 2}}
          /\ P = UNION {TablesAt(m)' : m \in {j \in Levs : j >= l + 2}}
      BY <1>1, <3>2, BelowIs
    <3> HIDE DEF D, P
    <3> QED
      BY <3>3, <3>4
  <2>3. \A T \in C : Newer(imm, T)
    <3>1. /\ comp.in0 \subseteq TablesAt(comp.level) /\ comp.in1 \subseteq TablesAt(comp.level + 1)
          /\ comp.level \in Levs /\ comp.level + 1 \in Levs
      BY Levels0 DEF Working, Replaceable, Shape
    <3> QED
      BY <3>1 DEF Aged
  <2> HIDE DEF C, O, D, P, S
  <2>4. ASSUME NEW k \in Keys, NothingOlder(D, C, k) PROVE NothingOlder(P, C, k)
    <3> SUFFICES ASSUME NEW U \in P, NEW T \in C, NEW s \in Nat, NEW q \in Nat,
                        Holds(T, k, s), Holds(U, k, q)
                 PROVE  s < q
      BY DEF NothingOlder
    <3>1. k \in Nat
      BY KeysAssumption DEF Keys
    <3>2. CASE U \in D
      BY <2>4, <3>2 DEF NothingOlder
    <3>3. CASE U = imm
      BY <2>3, <3>1, <3>3 DEF Newer
    <3> QED
      BY <2>2, <3>2, <3>3
  <2>5. StandsIn(C, O, P, S)
    BY <2>1, <2>4 DEF StandsIn
  <2> QED
    BY <2>5 DEF C, O, P, S
<1>6. (snapshots \subseteq 1 .. LastSeq)'
  BY <1>1 DEF Exact, LastSeq
<1> QED
  BY <1>4, <1>5, <1>6 DEF Exact

------------------------------------------------------------------------------
(* A compaction's outputs take the place of its inputs.                    *)

\* Of each key, all that is in N is newer than all that is in C, and that than
\* all that is in D.
NewerAll(N, C) == \A T \in N, U \in C : Newer(T, U)
Layers(N, C, D) == /\ \A T \in N \cup C \cup D : Sound(T)
                   /\ NewerAll(N, C) /\ NewerAll(N, D) /\ NewerAll(C, D)

\* What some tables have is what one of them holds.
LEMMA HasHolds ==
  ASSUME NEW C, NEW k, NEW s
  PROVE  Has(Ents(C), Tombs(C), k, s) <=> \E T \in C : Holds(T, k, s)
BY DEF Has, Ents, Tombs, Holds

\* Entries and tombstones of sound tables have numbers.
LEMMA SoundCounted ==
  ASSUME NEW C, \A T \in C : Sound(T)
  PROVE  Counted(Ents(C), Tombs(C))
BY KeysAssumption DEF Counted, Ents, Tombs, Sound, EntryLike, Tombstone, Seqs

\* Get's stop at the first layer that settles the answer, for two layers.
LEMMA Above ==
  ASSUME NEW N, NEW C, \A T \in N \cup C : Sound(T), NewerAll(N, C), NEW k \in Keys, NEW r \in Nat
  PROVE  /\ WipedBy(N \cup C, k, r) <=> WipedBy(N, k, r) \/ WipedBy(C, k, r)
         /\ \A i : GivenBy(N \cup C, k, r, i) <=>
                     GivenBy(N, k, r, i) \/ (~WipedBy(N, k, r) /\ GivenBy(C, k, r, i))
<1>1. PICK A : A = Ents(N)
  OBVIOUS
<1>2. PICK X : X = Tombs(N)
  OBVIOUS
<1>3. PICK B : B = Ents(C)
  OBVIOUS
<1>4. PICK Y : Y = Tombs(C)
  OBVIOUS
<1>5. Ents(N \cup C) = A \cup B /\ Tombs(N \cup C) = X \cup Y
  BY <1>1, <1>2, <1>3, <1>4 DEF Ents, Tombs
<1>6. Counted(A, X) /\ Counted(B, Y)
  BY <1>1, <1>2, <1>3, <1>4, SoundCounted
<1>7. k \in Nat
  BY KeysAssumption DEF Keys
<1>8. \A s, q \in Nat : Has(A, X, k, s) /\ Has(B, Y, k, q) => q < s
  <2> SUFFICES ASSUME NEW s \in Nat, NEW q \in Nat, Has(A, X, k, s), Has(B, Y, k, q)
               PROVE  q < s
    OBVIOUS
  <2>1. (\E T \in N : Holds(T, k, s)) /\ \E U \in C : Holds(U, k, q)
    BY <1>1, <1>2, <1>3, <1>4, HasHolds
  <2> QED
    BY <1>7, <2>1 DEF NewerAll, Newer
<1>9. /\ Wiped(A \cup B, X \cup Y, k, 0, r) <=> Wiped(A, X, k, 0, r) \/ Wiped(B, Y, k, 0, r)
      /\ \A i : Gives(A \cup B, X \cup Y, k, r, i) <=>
                  \/ Gives(A, X, k, r, i)
                  \/ ~Wiped(A, X, k, 0, r) /\ Gives(B, Y, k, r, i)
  BY <1>6, <1>8, Layered
<1> QED
  BY <1>1, <1>2, <1>3, <1>4, <1>5, <1>9 DEF WipedBy, GivenBy

\* What wipes or gives something is held.
LEMMA GivenHeld ==
  ASSUME NEW C, \A T \in C : Sound(T), NEW k, NEW r
  PROVE  /\ WipedBy(C, k, r) => \E T \in C : \E s \in Nat : Holds(T, k, s)
         /\ \A i : GivenBy(C, k, r, i) => \E T \in C : \E s \in Nat : Holds(T, k, s)
<1>1. /\ \A e \in Ents(C) : e.seq \in Nat
      /\ \A t \in Tombs(C) : t.seq \in Nat
  BY SoundCounted DEF Counted
<1>2. \A s : Has(Ents(C), Tombs(C), k, s) => \E T \in C : Holds(T, k, s)
  BY HasHolds
<1>3. WipedBy(C, k, r) => \E s \in Nat : Has(Ents(C), Tombs(C), k, s)
  BY <1>1 DEF WipedBy, Wiped, Has
<1>4. \A i : GivenBy(C, k, r, i) => \E s \in Nat : Has(Ents(C), Tombs(C), k, s)
  BY <1>1 DEF GivenBy, Gives, Has
<1> QED
  BY <1>2, <1>3, <1>4

\* What is read through the layers stays the same ...
LEMMA SwapGives ==
  ASSUME NEW N, NEW C, NEW O, NEW D, Layers(N, C, D), Layers(N, O, D), NEW R \in SUBSET Nat,
         StandsIn(C, O, D, R), \A T \in O : MadeOf(T, C), NEW k \in Keys, NEW r \in R, NEW i
  PROVE  GivenBy((N \cup O) \cup D, k, r, i) <=> GivenBy((N \cup C) \cup D, k, r, i)
<1>1. k \in Nat /\ r \in Nat
  BY KeysAssumption DEF Keys
<1>2. /\ \A T \in N \cup C : Sound(T)
      /\ \A T \in N \cup O : Sound(T)
      /\ \A T \in (N \cup C) \cup D : Sound(T)
      /\ \A T \in (N \cup O) \cup D : Sound(T)
      /\ NewerAll(N, C) /\ NewerAll(N, O) /\ NewerAll(N \cup C, D) /\ NewerAll(N \cup O, D)
  BY DEF Layers, NewerAll
<1>3. /\ WipedBy(N \cup C, k, r) <=> WipedBy(N, k, r) \/ WipedBy(C, k, r)
      /\ GivenBy(N \cup C, k, r, i) <=>
           GivenBy(N, k, r, i) \/ (~WipedBy(N, k, r) /\ GivenBy(C, k, r, i))
  BY <1>1, <1>2, Above
<1>4. /\ WipedBy(N \cup O, k, r) <=> WipedBy(N, k, r) \/ WipedBy(O, k, r)
      /\ GivenBy(N \cup O, k, r, i) <=>
           GivenBy(N, k, r, i) \/ (~WipedBy(N, k, r) /\ GivenBy(O, k, r, i))
  BY <1>1, <1>2, Above
<1>5. GivenBy((N \cup C) \cup D, k, r, i) <=>
        GivenBy(N \cup C, k, r, i) \/ (~WipedBy(N \cup C, k, r) /\ GivenBy(D, k, r, i))
  BY <1>1, <1>2, Above
<1>6. GivenBy((N \cup O) \cup D, k, r, i) <=>
        GivenBy(N \cup O, k, r, i) \/ (~WipedBy(N \cup O, k, r) /\ GivenBy(D, k, r, i))
  BY <1>1, <1>2, Above
<1>7. /\ GivenBy(O, k, r, i) <=> GivenBy(C, k, r, i)
      /\ (WipedBy(O, k, r) <=> WipedBy(C, k, r)) \/ NothingOlder(D, C, k)
  BY DEF StandsIn
<1>8. ASSUME NothingOlder(D, C, k), GivenBy(D, k, r, i), WipedBy(O, k, r) \/ WipedBy(C, k, r)
      PROVE  FALSE
  <2>1. PICK U \in D, q \in Nat : Holds(U, k, q)
    <3>1. \A T \in D : Sound(T)
      BY DEF Layers
    <3> QED
      BY <1>8, <3>1, GivenHeld
  <2>2. \E T \in C : \E s \in Nat : Holds(T, k, s)
    <3>1. CASE WipedBy(C, k, r)
      <4>1. \A T \in C : Sound(T)
        BY DEF Layers
      <4> QED
        BY <3>1, <4>1, GivenHeld
    <3>2. CASE WipedBy(O, k, r)
      <4>1. \A T \in O : Sound(T)
        BY DEF Layers
      <4>2. PICK T \in O, s \in Nat : Holds(T, k, s)
        BY <3>2, <4>1, GivenHeld
      <4>3. Sound(T) /\ MadeOf(T, C) /\ \A V \in C : Sound(V)
        BY DEF Layers
      <4> QED
        BY <1>1, <4>2, <4>3, MadeHolds
    <3> QED
      BY <1>8, <3>1, <3>2
  <2>3. PICK T \in C, s \in Nat : Holds(T, k, s)
    BY <2>2
  <2>4. s < q
    BY <1>8, <2>1, <2>3 DEF NothingOlder
  <2>5. q < s
    BY <1>1, <2>1, <2>3 DEF Layers, NewerAll, Newer
  <2> QED
    BY <2>1, <2>3, <2>4, <2>5
<1> QED
  BY <1>3, <1>4, <1>5, <1>6, <1>7, <1>8

\* ... and so does the order of what the entries are made of.
LEMMA SwapStacked ==
  ASSUME NEW N, NEW C, NEW O, NEW D, Layers(N, C, D), Layers(N, O, D), NEW R,
         StandsIn(C, O, D, R), \A T \in O : MadeOf(T, C), Stacked(Ents((N \cup C) \cup D))
  PROVE  Stacked(Ents((N \cup O) \cup D))
<1>1. PICK F : F = Ents(N \cup D)
  OBVIOUS
<1>2. PICK G : G = Ents(O)
  OBVIOUS
<1>3. PICK H : H = Ents(C)
  OBVIOUS
<1>4. Ents((N \cup C) \cup D) = F \cup H /\ Ents((N \cup O) \cup D) = F \cup G
  BY <1>1, <1>2, <1>3 DEF Ents
<1>5. Stacked(F \cup H) /\ Stacked(G)
  BY <1>2, <1>4 DEF StandsIn
<1>6. \A o \in G : /\ \E x \in H : x.key = o.key /\ x.seq = o.seq
                   /\ \A i \in ToSet(o.val) : \E z \in H : z.key = o.key /\ i \in ToSet(z.val)
  <2>1. \A o \in G : \E x \in H : x.key = o.key /\ x.seq = o.seq
    BY <1>2, <1>3 DEF Ents, MadeOf
  <2>2. \A o \in G : \A i \in ToSet(o.val) : \E z \in H : z.key = o.key /\ i \in ToSet(z.val)
    BY <1>2, <1>3 DEF StandsIn
  <2> QED
    BY <2>1, <2>2
<1>7. \A e \in F \cup G \cup H : e.seq \in Nat /\ e.key \in Nat
  <2>1. \A n \in Seqs : n \in Nat
    BY KeysAssumption DEF Seqs
  <2>2. \A n \in Keys : n \in Nat
    BY KeysAssumption DEF Keys
  <2> QED
    BY <1>5, <2>1, <2>2 DEF Stacked, EntryLike
<1>8. /\ \A X \in N : \A T \in O : Newer(X, T)
      /\ \A U \in D : (\A T \in O : Newer(T, U)) /\ \A T \in C : Newer(T, U)
  BY DEF Layers, NewerAll
<1>9. \A T, U : Newer(T, U) =>
        \A x \in T.entries, y \in U.entries :
          x.key = y.key /\ x.key \in Nat /\ x.seq \in Nat /\ y.seq \in Nat => y.seq < x.seq
  BY DEF Newer, Holds
<1>10. \A y \in F : \/ \A o \in G : o.key = y.key => o.seq < y.seq
                    \/ /\ \A o \in G : o.key = y.key => y.seq < o.seq
                       /\ \A z \in H : z.key = y.key => y.seq < z.seq
  <2> SUFFICES ASSUME NEW y \in F
               PROVE  \/ \A o \in G : o.key = y.key => o.seq < y.seq
                      \/ /\ \A o \in G : o.key = y.key => y.seq < o.seq
                         /\ \A z \in H : z.key = y.key => y.seq < z.seq
    OBVIOUS
  <2>1. PICK X \in N \cup D : y \in X.entries
    BY <1>1 DEF Ents
  <2>2. CASE X \in N
    <3>1. ASSUME NEW o \in G, o.key = y.key PROVE o.seq < y.seq
      <4>1. PICK T \in O : o \in T.entries
        BY <1>2 DEF Ents
      <4>2. Newer(X, T)
        BY <1>8, <2>2
      <4> QED
        BY <1>7, <1>9, <2>1, <3>1, <4>1, <4>2
    <3> QED
      BY <3>1
  <2>3. CASE X \in D
    <3>1. ASSUME NEW o \in G, o.key = y.key PROVE y.seq < o.seq
      <4>1. PICK T \in O : o \in T.entries
        BY <1>2 DEF Ents
      <4>2. Newer(T, X)
        BY <1>8, <2>3
      <4> QED
        BY <1>7, <1>9, <2>1, <3>1, <4>1, <4>2
    <3>2. ASSUME NEW z \in H, z.key = y.key PROVE y.seq < z.seq
      <4>1. PICK T \in C : z \in T.entries
        BY <1>3 DEF Ents
      <4>2. Newer(T, X)
        BY <1>8, <2>3
      <4> QED
        BY <1>7, <1>9, <2>1, <3>2, <4>1, <4>2
    <3> QED
      BY <3>1, <3>2
  <2> QED
    BY <2>1, <2>2, <2>3
<1>11. \A x, y \in F \cup H : x.key = y.key /\ x.seq < y.seq =>
         \A i \in ToSet(y.val) : x.seq < i
  BY <1>5 DEF Stacked
<1>12. ASSUME NEW o \in G, NEW y \in F, o.key = y.key
       PROVE  /\ o.seq # y.seq
              /\ o.seq < y.seq => \A i \in ToSet(y.val) : o.seq < i
              /\ y.seq < o.seq => \A i \in ToSet(o.val) : y.seq < i
  <2>1. o.seq \in Nat /\ y.seq \in Nat
    BY <1>7
  <2>2. o.seq # y.seq
    BY <1>10, <1>12, <2>1
  <2>3. o.seq < y.seq => \A i \in ToSet(y.val) : o.seq < i
    <3>1. PICK x \in H : x.key = o.key /\ x.seq = o.seq
      BY <1>6
    <3> QED
      BY <1>11, <1>12, <3>1
  <2>4. ASSUME y.seq < o.seq, NEW i \in ToSet(o.val) PROVE y.seq < i
    <3>1. PICK z \in H : z.key = o.key /\ i \in ToSet(z.val)
      BY <1>6
    <3>2. y.seq < z.seq
      BY <1>10, <1>12, <2>1, <2>4, <3>1
    <3> QED
      BY <1>11, <1>12, <3>1, <3>2
  <2> QED
    BY <2>2, <2>3, <2>4
<1>13. /\ \A x \in F \cup G : EntryLike(x) /\ Valued(x)
       /\ \A x, y \in F : x.key = y.key =>
            /\ x.seq = y.seq => x = y
            /\ x.seq < y.seq => \A i \in ToSet(y.val) : x.seq < i
       /\ \A x, y \in G : x.key = y.key =>
            /\ x.seq = y.seq => x = y
            /\ x.seq < y.seq => \A i \in ToSet(y.val) : x.seq < i
  BY <1>5 DEF Stacked
<1>14. ASSUME NEW x \in F \cup G, NEW y \in F \cup G, x.key = y.key
       PROVE  /\ x.seq = y.seq => x = y
              /\ x.seq < y.seq => \A i \in ToSet(y.val) : x.seq < i
  <2>1. CASE x \in F /\ y \in F
    BY <1>13, <1>14, <2>1
  <2>2. CASE x \in G /\ y \in G
    BY <1>13, <1>14, <2>2
  <2>3. CASE x \in G /\ y \in F
    BY <1>12, <1>14, <2>3
  <2>4. CASE x \in F /\ y \in G
    BY <1>12, <1>14, <2>4
  <2> QED
    BY <2>1, <2>2, <2>3, <2>4
<1> QED
  BY <1>4, <1>13, <1>14 DEF Stacked

\* The layers above the inputs of a compaction of level l, with what stays
\* beside them.
Over(l, C0, C1) ==
  {Empty, mem, imm} \cup (TablesAt(l) \ C0) \cup (TablesAt(l + 1) \ C1)
    \cup UNION {TablesAt(m) : m \in {j \in Levs : j < l}}

\* Everything, before and after a compaction is installed.
LEMMA Divided ==
  ASSUME NEW l \in 0 .. NumLevels - 2, NEW C0, NEW C1, NEW O,
         C0 \subseteq TablesAt(l), C1 \subseteq TablesAt(l + 1), Replaced(l, C0, C1, O),
         mem' = mem, imm' = imm
  PROVE  /\ Everything = (Over(l, C0, C1) \cup (C0 \cup C1)) \cup Below(l)
         /\ Everything' = (Over(l, C0, C1) \cup O) \cup Below(l)
<1>1. l \in Nat /\ l \in Levs /\ l + 1 \in Levs /\ Levs \subseteq Nat
  BY Levels0
<1>2. PICK a : a = UNION {TablesAt(m) : m \in {j \in Levs : j < l}}
  OBVIOUS
<1>3. PICK d : d = Below(l)
  OBVIOUS
<1>4. d = UNION {TablesAt(m) : m \in {j \in Levs : j >= l + 2}}
  BY <1>1, <1>3, BelowIs
<1>5. \A m \in Levs : m < l \/ m = l \/ m = l + 1 \/ m >= l + 2
  BY <1>1
<1>6. PICK U : U = UNION {TablesAt(m) : m \in Levs}
  OBVIOUS
<1>7. PICK V : V = UNION {TablesAt(m)' : m \in Levs}
  OBVIOUS
<1>8. \A T : T \in U <=> T \in a \/ T \in TablesAt(l) \/ T \in TablesAt(l + 1) \/ T \in d
  BY <1>1, <1>2, <1>4, <1>5, <1>6
<1>9. /\ \A m \in Levs : m < l \/ m >= l + 2 => TablesAt(m)' = TablesAt(m)
      /\ TablesAt(l)' = TablesAt(l) \ C0
      /\ TablesAt(l + 1)' = (TablesAt(l + 1) \ C1) \cup O
  <2>1. \A m \in Levs : TablesAt(m)' = IF m = l THEN TablesAt(m) \ C0
                                       ELSE IF m = l + 1 THEN (TablesAt(m) \ C1) \cup O
                                       ELSE TablesAt(m)
    BY DEF Replaced
  <2>2. \A m \in Levs : m < l \/ m >= l + 2 => m # l /\ m # l + 1
    BY <1>1
  <2>3. \A m \in Levs : m < l \/ m >= l + 2 => TablesAt(m)' = TablesAt(m)
    BY <2>1, <2>2
  <2>4. l + 1 # l
    BY <1>1
  <2>5. TablesAt(l + 1)' = (TablesAt(l + 1) \ C1) \cup O
    BY <1>1, <2>1, <2>4
  <2> QED
    BY <1>1, <2>1, <2>3, <2>5
<1>10. \A T : T \in V <=> T \in a \/ T \in TablesAt(l) \ C0 \/ T \in (TablesAt(l + 1) \ C1) \cup O
                            \/ T \in d
  <2>1. \A T : T \in V <=> \E m \in Levs : T \in TablesAt(m)'
    BY <1>7
  <2>2. \A T : T \in a <=> \E m \in Levs : m < l /\ T \in TablesAt(m)'
    BY <1>2, <1>9
  <2>3. \A T : T \in d <=> \E m \in Levs : m >= l + 2 /\ T \in TablesAt(m)'
    BY <1>4, <1>9
  <2> QED
    BY <1>1, <1>5, <1>9, <2>1, <2>2, <2>3
<1>11. Everything = {Empty, mem, imm} \cup U /\ Everything' = {Empty, mem, imm} \cup V
  BY <1>6, <1>7 DEF Everything
<1>12. PICK N : N = Over(l, C0, C1)
  OBVIOUS
<1>13. \A T : T \in N <=> \/ T \in {Empty, mem, imm} \/ T \in a
                          \/ T \in TablesAt(l) \ C0 \/ T \in TablesAt(l + 1) \ C1
  <2>1. N = {Empty, mem, imm} \cup (TablesAt(l) \ C0) \cup (TablesAt(l + 1) \ C1) \cup a
    BY <1>2, <1>12 DEF Over
  <2>2. PICK z : z = {Empty, mem, imm}
    OBVIOUS
  <2>3. N = z \cup (TablesAt(l) \ C0) \cup (TablesAt(l + 1) \ C1) \cup a
    BY <2>1, <2>2
  <2> QED
    BY <2>2, <2>3
<1>14. Everything = (N \cup (C0 \cup C1)) \cup d
  BY <1>8, <1>11, <1>13
<1>15. Everything' = (N \cup O) \cup d
  BY <1>10, <1>11, <1>13
<1> QED
  BY <1>3, <1>12, <1>14, <1>15

\* They are in order, the inputs being as compactions take them.
LEMMA OverLayers ==
  ASSUME Shape, Aged, LevelsDisjoint, NEW l \in 0 .. NumLevels - 2, NEW C0, NEW C1,
         Replaceable(l, C0, C1), NEW O, Tabs(O), \A T \in O : MadeOf(T, C0 \cup C1)
  PROVE  Layers(Over(l, C0, C1), C0 \cup C1, Below(l)) /\ Layers(Over(l, C0, C1), O, Below(l))
<1>1. l \in Nat /\ l \in Levs /\ l + 1 \in Levs /\ Levs \subseteq Nat /\ l + 1 \in Deeper
  BY Levels0
<1>2. /\ C0 \subseteq TablesAt(l) /\ C1 \subseteq TablesAt(l + 1)
      /\ \A X \in TablesAt(l) \ C0, T \in C0 : Newer(X, T)
      /\ \A V \in TablesAt(l + 1) \ C1 : Beside(V, C0 \cup C1)
  BY DEF Replaceable
<1>3. /\ \A m \in Levs : \A T \in TablesAt(m) : Sound(T) /\ T # Empty /\ Newer(mem, T) /\ Newer(imm, T)
      /\ \A j, m \in Levs : j < m => \A T \in TablesAt(j), U \in TablesAt(m) : Newer(T, U)
  BY DEF Shape, Tabs, Aged
<1>4. Sound(Empty) /\ Sound(mem) /\ Sound(imm) /\ \A T : Newer(Empty, T)
  BY EmptyIsSound DEF Shape, Newer
<1>5. PICK N : N = Over(l, C0, C1)
  OBVIOUS
<1>6. PICK D : D = Below(l)
  OBVIOUS
<1>7. \A T \in N : \/ T \in {Empty, mem, imm}
                   \/ \E m \in Levs : m < l /\ T \in TablesAt(m)
                   \/ T \in TablesAt(l) \ C0 \/ T \in TablesAt(l + 1) \ C1
  <2>1. PICK a : a = UNION {TablesAt(m) : m \in {j \in Levs : j < l}}
    OBVIOUS
  <2>2. PICK z : z = {Empty, mem, imm}
    OBVIOUS
  <2>3. N = z \cup (TablesAt(l) \ C0) \cup (TablesAt(l + 1) \ C1) \cup a
    BY <1>5, <2>1, <2>2 DEF Over
  <2>4. \A T \in a : \E m \in Levs : m < l /\ T \in TablesAt(m)
    BY <2>1
  <2> QED
    BY <2>2, <2>3, <2>4
<1>8. \A U \in D : \E m \in Levs : m >= l + 2 /\ U \in TablesAt(m)
  <2>1. D = UNION {TablesAt(m) : m \in {j \in Levs : j >= l + 2}}
    BY <1>1, <1>6, BelowIs
  <2> QED
    BY <2>1
<1>9. \A V \in TablesAt(l + 1) \ C1, T \in C0 \cup C1 : Newer(V, T)
  <2> SUFFICES ASSUME NEW V \in TablesAt(l + 1) \ C1, NEW T \in C0 \cup C1 PROVE Newer(V, T)
    OBVIOUS
  <2>1. Precedes(V, T) \/ Precedes(T, V)
    BY <1>2 DEF Beside
  <2>2. Sound(V) /\ V # Empty /\ Sound(T) /\ T # Empty
    BY <1>1, <1>2, <1>3
  <2> QED
    BY <2>1, <2>2, ApartNewer
<1>10. NewerAll(N, C0 \cup C1)
  <2> SUFFICES ASSUME NEW X \in N, NEW T \in C0 \cup C1 PROVE Newer(X, T)
    BY DEF NewerAll
  <2>1. T \in TablesAt(l) \/ T \in TablesAt(l + 1)
    BY <1>2
  <2>2. CASE X \in {Empty, mem, imm}
    BY <1>1, <1>3, <1>4, <2>1, <2>2
  <2>3. CASE \E m \in Levs : m < l /\ X \in TablesAt(m)
    <3>1. PICK m \in Levs : m < l /\ X \in TablesAt(m)
      BY <2>3
    <3>2. m < l + 1
      BY <1>1, <3>1
    <3> QED
      BY <1>1, <1>3, <2>1, <3>1, <3>2
  <2>4. CASE X \in TablesAt(l) \ C0
    <3>1. l < l + 1
      BY <1>1
    <3> QED
      BY <1>1, <1>2, <1>3, <2>4, <3>1
  <2>5. CASE X \in TablesAt(l + 1) \ C1
    BY <1>9, <2>5
  <2> QED
    BY <1>7, <2>2, <2>3, <2>4, <2>5
<1>11. NewerAll(N, D)
  <2> SUFFICES ASSUME NEW X \in N, NEW U \in D PROVE Newer(X, U)
    BY DEF NewerAll
  <2>1. PICK j \in Levs : j >= l + 2 /\ U \in TablesAt(j)
    BY <1>8
  <2>2. CASE X \in {Empty, mem, imm}
    BY <1>3, <1>4, <2>1, <2>2
  <2>3. CASE \E m \in Levs : m <= l + 1 /\ X \in TablesAt(m)
    <3>1. PICK m \in Levs : m <= l + 1 /\ X \in TablesAt(m)
      BY <2>3
    <3>2. m < j
      BY <1>1, <2>1, <3>1
    <3> QED
      BY <1>3, <2>1, <3>1, <3>2
  <2>4. X \in {Empty, mem, imm} \/ \E m \in Levs : m <= l + 1 /\ X \in TablesAt(m)
    <3>1. \A m \in Levs : m < l => m <= l + 1
      BY <1>1
    <3>2. l <= l + 1 /\ l + 1 <= l + 1
      BY <1>1
    <3> QED
      BY <1>1, <1>7, <3>1, <3>2
  <2> QED
    BY <2>2, <2>3, <2>4
<1>12. NewerAll(C0 \cup C1, D)
  <2> SUFFICES ASSUME NEW X \in C0 \cup C1, NEW U \in D PROVE Newer(X, U)
    BY DEF NewerAll
  <2>1. PICK j \in Levs : j >= l + 2 /\ U \in TablesAt(j)
    BY <1>8
  <2>2. l < j /\ l + 1 < j
    BY <1>1, <2>1
  <2> QED
    BY <1>1, <1>2, <1>3, <2>1, <2>2
<1>13. /\ \A T \in N : Sound(T)
       /\ \A T \in D : Sound(T)
       /\ Tabs(C0 \cup C1)
  BY <1>1, <1>2, <1>3, <1>4, <1>7, <1>8 DEF Tabs
<1>14. NewerAll(N, O) /\ NewerAll(O, D)
  <2>1. ASSUME NEW T \in O PROVE /\ \A X : (\A U \in C0 \cup C1 : Newer(X, U)) => Newer(X, T)
                                 /\ \A X : (\A U \in C0 \cup C1 : Newer(U, X)) => Newer(T, X)
    <3>1. Sound(T) /\ MadeOf(T, C0 \cup C1)
      BY DEF Tabs
    <3> QED
      BY <1>13, <3>1, MadeAge
  <2> QED
    BY <1>10, <1>12, <2>1 DEF NewerAll
<1>15. \A T \in (C0 \cup C1) \cup O : Sound(T)
  BY <1>13 DEF Tabs
<1> QED
  BY <1>5, <1>6, <1>10, <1>11, <1>12, <1>13, <1>14, <1>15 DEF Layers

\* Installing the outputs changes nothing of what is read.
LEMMA InstallExact ==
  ASSUME Shape, Aged, LevelsDisjoint, Working, Exact, InstallCompaction
  PROVE  Exact'
<1>1. comp.busy /\ comp' = Idle /\ UNCHANGED <<written, mem, imm, hasImm, snapshots, calls>>
  BY DEF InstallCompaction
<1>2. PICK l \in 0 .. NumLevels - 2 : l = comp.level
  BY <1>1 DEF Shape
<1>3. PICK C0 : C0 = comp.in0
  OBVIOUS
<1>4. PICK C1 : C1 = comp.in1
  OBVIOUS
<1>5. PICK O : O = comp.outs
  OBVIOUS
<1>6. PICK D : D = Below(l)
  OBVIOUS
<1>7. PICK N : N = Over(l, C0, C1)
  OBVIOUS
<1>8. PICK C : C = C0 \cup C1
  OBVIOUS
<1>9. Replaced(l, C0, C1, O)
  BY <1>2, <1>3, <1>4, <1>5, InstallShape
<1>10. Replaceable(l, C0, C1) /\ Tabs(O) /\ \A T \in O : MadeOf(T, C)
  BY <1>1, <1>2, <1>3, <1>4, <1>5, <1>8 DEF Working, Replaces, Shape
<1>11. Everything = (N \cup C) \cup D /\ Everything' = (N \cup O) \cup D
  <2>1. C0 \subseteq TablesAt(l) /\ C1 \subseteq TablesAt(l + 1)
    BY <1>10 DEF Replaceable
  <2> QED
    BY <1>1, <1>6, <1>7, <1>8, <1>9, <2>1, Divided
<1>12. Layers(N, C, D) /\ Layers(N, O, D)
  BY <1>6, <1>7, <1>8, <1>10, OverLayers
<1>13. PICK R : R = Stripes(snapshots)
  OBVIOUS
<1>14. R \in SUBSET Nat /\ R' = R
  BY <1>1, <1>13, SnapshotsAre DEF Exact
<1>15. StandsIn(C, O, D, R)
  BY <1>1, <1>2, <1>3, <1>4, <1>5, <1>6, <1>8, <1>13 DEF Exact, Faithful
<1>16. Stacked(Ents((N \cup C) \cup D)) /\ \A k \in Keys, r \in R : \A i :
          GivenBy((N \cup C) \cup D, k, r, i) <=> Expected(k, r, i)
  BY <1>11, <1>13 DEF Exact, Content
<1>17. Stacked(Ents((N \cup O) \cup D))
  BY <1>10, <1>12, <1>15, <1>16, SwapStacked
<1>18. \A k \in Keys, r \in R : \A i : GivenBy((N \cup O) \cup D, k, r, i) <=> Expected(k, r, i)
  <2>1. \A k \in Keys, r \in R : \A i :
          GivenBy((N \cup O) \cup D, k, r, i) <=> GivenBy((N \cup C) \cup D, k, r, i)
    BY <1>10, <1>12, <1>14, <1>15, SwapGives
  <2> QED
    BY <1>16, <2>1
<1>19. PICK new : new = (N \cup O) \cup D
  OBVIOUS
<1>20. LastSeq' = LastSeq /\ \A k, r, i : Expected(k, r, i)' <=> Expected(k, r, i)
  BY <1>1 DEF LastSeq, Expected, Wipes
<1>21. Content'
  <2>1. Everything' = new /\ Stacked(Ents(new))
        /\ \A k \in Keys, r \in R : \A i : GivenBy(new, k, r, i) <=> Expected(k, r, i)
    BY <1>11, <1>17, <1>18, <1>19
  <2>2. Stacked(Ents(Everything))'
    BY <2>1
  <2>3. Stripes(snapshots)' = R
    BY <1>1, <1>13
  <2>4. \A k \in Keys, r \in R : \A i : GivenBy(Everything, k, r, i)' <=> Expected(k, r, i)'
    <3>1. \A k, r, i : GivenBy(Everything, k, r, i)' <=> GivenBy(new, k, r, i)
      BY <2>1 DEF GivenBy
    <3> QED
      BY <1>20, <2>1, <3>1
  <2> QED
    BY <2>2, <2>3, <2>4 DEF Content
<1>22. Faithful'
  BY <1>1 DEF Faithful, Idle
<1> QED
  BY <1>1, <1>20, <1>21, <1>22 DEF Exact

\* What a compaction makes reads as its inputs do.
LEMMA BeginExact ==
  ASSUME Shape, Aged, Exact, NEW l \in 0 .. NumLevels - 2, NEW in0, NEW in1,
         in0 \subseteq TablesAt(l), in1 \subseteq TablesAt(l + 1), BeginCompaction(l, in0, in1),
         UNCHANGED <<written, mem, imm, level0, levels, snapshots>>
  PROVE  Exact'
<1>1. l \in Nat /\ l \in Levs /\ l + 1 \in Levs /\ Levs \subseteq Nat
  BY Levels0
<1>2. PICK C : C = in0 \cup in1
  OBVIOUS
<1>3. PICK D : D = Below(l)
  OBVIOUS
<1>4. Tabs(C) /\ Tabs(D) /\ C \subseteq Everything
  <2>1. \A m \in Levs : Tabs(TablesAt(m))
    BY DEF Shape
  <2>2. D = UNION {TablesAt(m) : m \in {j \in Levs : j >= l + 2}}
    BY <1>1, <1>3, BelowIs
  <2>3. Tabs(D)
    BY <2>1, <2>2 DEF Tabs
  <2>4. \A T \in C : T \in TablesAt(l) \/ T \in TablesAt(l + 1)
    BY <1>2
  <2>5. Tabs(C)
    BY <1>1, <2>1, <2>4 DEF Tabs
  <2>6. C \subseteq UNION {TablesAt(m) : m \in Levs}
    BY <1>1, <2>4
  <2> QED
    BY <2>3, <2>5, <2>6 DEF Everything
<1>5. Stacked(Ents(C))
  <2>1. Ents(C) \subseteq Ents(Everything)
    BY <1>4 DEF Ents
  <2>2. Stacked(Ents(Everything))
    BY DEF Exact, Content
  <2> QED
    BY <2>1, <2>2, SubStacked
<1>6. Stripes(snapshots)' = Stripes(snapshots) /\ LastSeq' = LastSeq /\ Everything' = Everything
  BY DEF LastSeq, Everything, TablesAt
<1>7. PICK folds \in BOOLEAN, cuts \in SUBSET {e.key : e \in Ents(C)} :
        comp' = [level |-> l, in0 |-> in0, in1 |-> in1,
                 outs |-> Outputs(CompactEntries(Ents(C), Tombs(C), snapshots, D, folds),
                                  KeptTombs(Tombs(C), snapshots, D), cuts), busy |-> TRUE]
  BY <1>2, <1>3 DEF BeginCompaction, CutsFor, Ents, Tombs
<1>8. PICK outs : outs = Outputs(CompactEntries(Ents(C), Tombs(C), snapshots, D, folds),
                                 KeptTombs(Tombs(C), snapshots, D), cuts)
  OBVIOUS
<1>9. comp' = [level |-> l, in0 |-> in0, in1 |-> in1, outs |-> outs, busy |-> TRUE]
  BY <1>7, <1>8
<1>10. cuts \in SUBSET Nat
  <2>1. \A e \in Ents(C) : e.key \in Nat
    BY <1>5, KeysAssumption DEF Stacked, EntryLike, Keys
  <2> QED
    BY <2>1
<1>11. snapshots \in SUBSET Nat
  BY SnapshotsAre DEF Exact
<1>12. StandsIn(C, outs, D, Stripes(snapshots))
  BY <1>4, <1>5, <1>8, <1>10, <1>11, CompactsTo
<1>13. Faithful'
  <2>1. /\ comp'.in0 \cup comp'.in1 = C /\ comp'.outs = outs /\ comp'.level = l
        /\ Stripes(snapshots)' = Stripes(snapshots)
    BY <1>2, <1>6, <1>9
  <2>2. Below(l)' = D
    BY <1>3 DEF Below
  <2>3. StandsIn(C, outs, D, Stripes(snapshots))
    BY <1>12
  <2>4. (StandsIn(comp.in0 \cup comp.in1, comp.outs, Below(comp.level), Stripes(snapshots)))'
    BY <2>1, <2>2, <2>3
  <2> QED
    BY <2>4 DEF Faithful
<1>14. Content'
  BY <1>6, SameContent DEF Exact
<1>15. (snapshots \subseteq 1 .. LastSeq)'
  BY <1>6 DEF Exact
<1> QED
  BY <1>13, <1>14, <1>15 DEF Exact

\* A table that is moved is still read.
LEMMA MoveSame ==
  ASSUME Shape, NEW l \in 0 .. NumLevels - 2, NEW N, N \subseteq TablesAt(l), Replaced(l, N, {}, N),
         UNCHANGED <<mem, imm>>
  PROVE  Everything' = Everything
<1>1. l \in Nat /\ l \in Levs /\ l + 1 \in Levs /\ l + 1 # l
  BY Levels0
<1>2. \A m \in Levs : TablesAt(m)' = IF m = l THEN TablesAt(m) \ N
                                     ELSE IF m = l + 1 THEN (TablesAt(m) \ {}) \cup N
                                     ELSE TablesAt(m)
  BY DEF Replaced
<1>3. PICK U : U = UNION {TablesAt(m) : m \in Levs}
  OBVIOUS
<1>4. PICK V : V = UNION {TablesAt(m)' : m \in Levs}
  OBVIOUS
<1>5. \A T : T \in U => T \in V
  <2> SUFFICES ASSUME NEW m \in Levs, NEW T \in TablesAt(m) PROVE T \in V
    BY <1>3
  <2>1. CASE m = l /\ T \in N
    <3>1. T \in TablesAt(l + 1)'
      BY <1>1, <1>2, <2>1
    <3> QED
      BY <1>1, <1>4, <3>1
  <2>2. CASE ~(m = l /\ T \in N)
    <3>1. T \in TablesAt(m)'
      BY <1>2, <2>2
    <3> QED
      BY <1>4, <3>1
  <2> QED
    BY <2>1, <2>2
<1>6. \A T : T \in V => T \in U
  <2> SUFFICES ASSUME NEW m \in Levs, NEW T \in TablesAt(m)' PROVE T \in U
    BY <1>4
  <2>1. T \in TablesAt(m) \/ T \in TablesAt(l)
    BY <1>2
  <2> QED
    BY <1>1, <1>3, <2>1
<1>7. Everything = {Empty, mem, imm} \cup U /\ Everything' = {Empty, mem, imm} \cup V
  BY <1>3, <1>4 DEF Everything
<1> QED
  BY <1>5, <1>6, <1>7

\* The inputs of an automatic compaction are tables of its two levels.
LEMMA PickedInputs ==
  ASSUME Shape, NEW l \in 0 .. NumLevels - 2, NEW f \in TablesAt(l),
         NEW in \in Inputs(TablesAt(l), l, levels[l + 1], Picked(l, f))
  PROVE  in[1] \subseteq TablesAt(l) /\ in[2] \subseteq TablesAt(l + 1)
<1>1. /\ f \in Picked(l, f) /\ Picked(l, f) \subseteq TablesAt(l)
      /\ l = 0 => Isolated(TablesAt(l), Picked(l, f))
  BY PickedFits
<1>2. PICK picked : picked = Picked(l, f)
  OBVIOUS
<1>3. /\ picked \in SUBSET TablesAt(l) /\ picked # {} /\ (l = 0 => Isolated(TablesAt(l), picked))
      /\ in \in Inputs(TablesAt(l), l, levels[l + 1], picked)
  BY <1>1, <1>2
<1> QED
  BY <1>3, InputsFit

\* A move or the start of an automatic compaction.
LEMMA AutoExact ==
  ASSUME Shape, Aged, Exact, AutoCompaction
  PROVE  Exact'
<1>1. PICK l \in 0 .. NumLevels - 2 : \E f \in TablesAt(l) :
        \E in \in Inputs(TablesAt(l), l, levels[l + 1], Picked(l, f)) :
           \/ /\ Cardinality(in[1]) = 1 /\ in[2] = {}
              /\ Replace(l, in[1], {}, in[1]) /\ comp' = comp
           \/ BeginCompaction(l, in[1], in[2]) /\ UNCHANGED <<level0, levels>>
  BY AutoTakes
<1>2. PICK f \in TablesAt(l) :
        \E in \in Inputs(TablesAt(l), l, levels[l + 1], Picked(l, f)) :
           \/ /\ Cardinality(in[1]) = 1 /\ in[2] = {}
              /\ Replace(l, in[1], {}, in[1]) /\ comp' = comp
           \/ BeginCompaction(l, in[1], in[2]) /\ UNCHANGED <<level0, levels>>
  BY <1>1
<1>3. PICK in \in Inputs(TablesAt(l), l, levels[l + 1], Picked(l, f)) :
           \/ /\ Cardinality(in[1]) = 1 /\ in[2] = {}
              /\ Replace(l, in[1], {}, in[1]) /\ comp' = comp
           \/ BeginCompaction(l, in[1], in[2]) /\ UNCHANGED <<level0, levels>>
  BY <1>2
<1>4. in[1] \subseteq TablesAt(l) /\ in[2] \subseteq TablesAt(l + 1)
  BY PickedInputs
<1>5. UNCHANGED <<written, mem, imm, snapshots>> /\ ~comp.busy
  BY DEF AutoCompaction
<1>6. CASE Replace(l, in[1], {}, in[1]) /\ comp' = comp
  <2>1. Replaced(l, in[1], {}, in[1])
    BY <1>6, ReplaceTree
  <2>2. Everything' = Everything
    BY <1>4, <1>5, <2>1, MoveSame
  <2>3. Faithful'
    BY <1>5, <1>6 DEF Faithful
  <2>4. LastSeq' = LastSeq
    BY <1>5 DEF LastSeq
  <2>5. Stripes(snapshots)' = Stripes(snapshots)
    BY <1>5
  <2> QED
    BY <1>5, <2>2, <2>3, <2>4, <2>5, SameContent DEF Exact
<1>7. CASE BeginCompaction(l, in[1], in[2]) /\ UNCHANGED <<level0, levels>>
  BY <1>4, <1>5, <1>7, BeginExact
<1> QED
  BY <1>3, <1>6, <1>7

\* A request of CompactRange.
LEMMA ManualExact ==
  ASSUME Shape, Aged, Exact, ManualCompaction
  PROVE  Exact'
<1> DEFINE l == call.level
<1>1. call.stage = "armed" /\ ManualTables # {}
  BY DEF ManualCompaction
<1>2. PICK picked \in FirstOf(ManualTables) :
        \E in \in Inputs(TablesAt(l), l, levels[l + 1], picked) : BeginCompaction(l, in[1], in[2])
  BY Zenon DEF ManualCompaction
<1>3. PICK in \in Inputs(TablesAt(l), l, levels[l + 1], picked) : BeginCompaction(l, in[1], in[2])
  BY <1>2, Zenon
<1>4. l \in 0 .. NumLevels - 2 /\ in[1] \subseteq TablesAt(l) /\ in[2] \subseteq TablesAt(l + 1)
  BY <1>1, ManualFits, InputsFit
<1>5. UNCHANGED <<written, mem, imm, level0, levels, snapshots>>
  BY DEF ManualCompaction
<1> QED
  BY <1>3, <1>4, <1>5, BeginExact

\* The call itself writes nothing.
LEMMA CallerExact ==
  ASSUME Shape, Exact, CallBegin \/ Caller \/ ManualDone
  PROVE  Exact'
<1>1. UNCHANGED <<written, level0, levels, snapshots, comp>>
  BY DEF CallBegin, Caller, CallForce, CallFlushed, CallArm, ManualDone
<1>2. Switch \/ UNCHANGED <<mem, imm>>
  BY DEF CallBegin, Caller, CallForce, CallFlushed, CallArm, ManualDone
<1>3. Everything' = Everything
  <2>1. CASE Switch
    BY <1>1, <2>1, SwitchSame
  <2>2. CASE UNCHANGED <<mem, imm>>
    BY <1>1, <2>2 DEF Everything, TablesAt
  <2> QED
    BY <1>2, <2>1, <2>2
<1>4. LastSeq' = LastSeq /\ Stripes(snapshots)' = Stripes(snapshots)
  BY <1>1 DEF LastSeq
<1> QED
  BY <1>1, <1>3, <1>4, SameContent, SameFaithful DEF Exact

\* Every step keeps the contents exact.
LEMMA NextExact ==
  ASSUME Shape, Ordered, Exact, [Next]_vars
  PROVE  Exact'
<1>1. Aged /\ LevelsDisjoint /\ Working
  BY DEF Ordered
<1>2. CASE User
  BY <1>1, <1>2, UserExact
<1>3. CASE CallBegin \/ Caller \/ ManualDone
  BY <1>3, CallerExact
<1>4. CASE Flush
  BY <1>1, <1>4, FlushExact
<1>5. CASE AutoCompaction
  BY <1>1, <1>5, AutoExact
<1>6. CASE InstallCompaction
  BY <1>1, <1>6, InstallExact
<1>7. CASE ManualCompaction
  BY <1>1, <1>7, ManualExact
<1>8. CASE UNCHANGED vars
  <2>1. UNCHANGED <<written, mem, imm, level0, levels, snapshots, comp>>
    BY <1>8 DEF vars
  <2>2. Everything' = Everything /\ LastSeq' = LastSeq /\ Stripes(snapshots)' = Stripes(snapshots)
    BY <2>1 DEF Everything, TablesAt, LastSeq
  <2> QED
    BY <2>1, <2>2, SameContent, SameFaithful DEF Exact
<1> QED
  BY <1>2, <1>3, <1>4, <1>5, <1>6, <1>7, <1>8 DEF Next, Background

\* An empty family is exact.
LEMMA InitExact ==
  ASSUME Init
  PROVE  Exact
<1>1. /\ written = <<>> /\ mem = Empty /\ imm = Empty /\ level0 = <<>>
      /\ levels = [l \in Deeper |-> {}] /\ snapshots = {} /\ comp = Idle
  BY DEF Init
<1>2. LastSeq = 0
  BY <1>1 DEF LastSeq
<1>3. \A l \in Levs : TablesAt(l) = {}
  <2>1. ToSet(level0) = {}
    BY <1>1 DEF ToSet
  <2>2. \A l \in Levs : l # 0 => l \in Deeper
    BY Levels0
  <2> QED
    BY <1>1, <2>1, <2>2 DEF TablesAt
<1>4. Everything = {Empty}
  BY <1>1, <1>3 DEF Everything
<1>5. Ents(Everything) = {}
  BY <1>4 DEF Ents, Empty
<1>6. Stacked(Ents(Everything))
  BY <1>5 DEF Stacked
<1>7. \A k, r, i : ~GivenBy(Everything, k, r, i)
  BY <1>5 DEF GivenBy, Gives
<1>8. \A k, r, i : ~Expected(k, r, i)
  BY <1>2 DEF Expected
<1>9. Content
  BY <1>6, <1>7, <1>8 DEF Content
<1>10. Faithful
  BY <1>1 DEF Faithful, Idle
<1> QED
  BY <1>1, <1>9, <1>10 DEF Exact

\* Whatever was flushed, moved and compacted, and whatever a compaction at work is
\* about to install, a read through all that the family holds gives each reader
\* the writes that count for him (BackgroundCompaction, DoCompactionWork).
THEOREM ExactAlways ==
  ASSUME ~WritesDuringCall
  PROVE  Spec => []Exact
<1>1. Init => Exact
  BY InitExact
<1>2. Shape /\ Ordered /\ Exact /\ [Next]_vars => Exact'
  BY NextExact
<1>3. Spec => []Shape
  BY ShapeAlways
<1>4. Spec => []Ordered
  BY OrderAlways
<1> QED
  BY <1>1, <1>2, <1>3, <1>4, PTL DEF Spec

------------------------------------------------------------------------------
(* What Get reads.                                                         *)

\* The one table of a level that is looked at has all that the level has of the
\* key.
LEMMA FindFileAll ==
  ASSUME NEW S, Tabs(S), \A T, U \in S : T # U => Precedes(T, U) \/ Precedes(U, T),
         NEW k \in Keys, NEW T \in S, NEW e \in T.entries, e.key = k
  PROVE  T \in FindFile(S, k)
<1> DEFINE reach == {U \in S : k < Hi(U) \/ (k = Hi(U) /\ ~Open(U))}
<1>1. k \in Nat
  BY KeysAssumption DEF Keys
<1>2. \A U \in S : Lo(U) \in Nat /\ Hi(U) \in Nat /\ Lo(U) <= Hi(U)
  BY TabBounds
<1>3. Lo(T) <= k /\ k <= Hi(T) /\ (Open(T) => k < Hi(T))
  <2>1. Holds(T, k, e.seq) /\ Sound(T)
    BY DEF Holds, Tabs
  <2> QED
    BY <1>1, <2>1, HeldInBounds
<1>4. T \in reach
  BY <1>1, <1>2, <1>3
<1>5. ASSUME NEW U \in reach PROVE Lo(T) <= Lo(U)
  <2>1. U = T \/ Precedes(T, U) \/ Precedes(U, T)
    OBVIOUS
  <2>2. ~Precedes(U, T)
    BY <1>1, <1>2, <1>3 DEF Precedes
  <2>3. Precedes(T, U) => Lo(T) <= Lo(U)
    BY <1>2 DEF Precedes
  <2> QED
    BY <1>2, <2>1, <2>2, <2>3
<1> HIDE DEF reach
<1>6. FindFile(S, k) = {X \in reach : \A U \in reach : Lo(X) <= Lo(U)}
  BY DEF FindFile, reach
<1> QED
  BY <1>4, <1>5, <1>6

\* The layers are the memtables and the tables, and no other.
LEMMA LayersAre ==
  ASSUME Shape
  PROVE  /\ LayerCount \in Nat
         /\ \A i \in 1 .. LayerCount : \A T \in LayerTables(i) : T \in Everything
         /\ \A T \in Everything : T = Empty \/ \E i \in 1 .. LayerCount : T \in LayerTables(i)
         /\ \A i \in 1 .. LayerCount : i <= 2 + Len(level0)
                                       \/ \E l \in Deeper : LayerTables(i) = levels[l]
<1> DEFINE n == Len(level0)
<1>1. n \in Nat /\ TablesAt(0) = {level0[i] : i \in 1 .. n}
  <2>1. level0 \in Seq(ToSet(level0))
    BY DEF Shape
  <2>2. n \in Nat /\ ToSet(level0) = {level0[i] : i \in 1 .. n}
    BY <2>1, SeqOfItsRange
  <2> QED
    BY <2>2, Levels0
<1>2. /\ LayerCount = 2 + n + NumLevels - 1
      /\ \A i : LayerTables(i) = IF i = 1 THEN {mem} ELSE IF i = 2 THEN {imm}
                                 ELSE IF i <= 2 + n THEN {level0[i - 2]}
                                 ELSE levels[i - 2 - n]
  BY DEF LayerCount, LayerTables, LevelOf
<1>3. Len(level0) = n
  OBVIOUS
<1> HIDE DEF n
<1>4. NumLevels \in Nat /\ NumLevels >= 2 /\ LayerCount \in Nat
  BY <1>1, <1>2, LevelsAssumption
<1>5. \A T : T \in Everything <=> T \in {Empty, mem, imm} \/ \E l \in Levs : T \in TablesAt(l)
  BY DEF Everything
<1>6. ASSUME NEW i \in 1 .. LayerCount, i > 2 + n
      PROVE  i - 2 - n \in Deeper /\ LayerTables(i) = levels[i - 2 - n]
  <2>1. i - 2 - n \in Deeper /\ i # 1 /\ i # 2 /\ ~(i <= 2 + n)
    BY <1>1, <1>2, <1>4, <1>6 DEF Deeper
  <2> QED
    BY <1>2, <2>1
<1>7. ASSUME NEW i \in 1 .. LayerCount, i > 2, i <= 2 + n
      PROVE  i - 2 \in 1 .. n /\ LayerTables(i) = {level0[i - 2]}
  <2>1. i - 2 \in 1 .. n /\ i # 1 /\ i # 2
    BY <1>1, <1>4, <1>7
  <2> QED
    BY <1>2, <1>7, <2>1
<1>8. ASSUME NEW i \in 1 .. LayerCount, NEW T \in LayerTables(i)
      PROVE  T \in Everything
  <2>1. i \in Nat /\ (i = 1 \/ i = 2 \/ (i > 2 /\ i <= 2 + n) \/ i > 2 + n)
    BY <1>1, <1>4
  <2>2. CASE i = 1 \/ i = 2
    BY <1>2, <1>5, <2>2
  <2>3. CASE i > 2 /\ i <= 2 + n
    BY <1>1, <1>5, <1>7, <2>3, Levels0
  <2>4. CASE i > 2 + n
    BY <1>5, <1>6, <2>4, Levels0
  <2> QED
    BY <2>1, <2>2, <2>3, <2>4
<1>9. ASSUME NEW T \in Everything, T # Empty
      PROVE  \E i \in 1 .. LayerCount : T \in LayerTables(i)
  <2>1. T = mem \/ T = imm \/ \E l \in Levs : T \in TablesAt(l)
    BY <1>5, <1>9
  <2>2. CASE T = mem \/ T = imm
    <3>1. 1 \in 1 .. LayerCount /\ 2 \in 1 .. LayerCount
      BY <1>1, <1>2, <1>4
    <3> QED
      BY <1>2, <2>2, <3>1
  <2>3. CASE T \in TablesAt(0)
    <3>1. PICK j \in 1 .. n : T = level0[j]
      BY <1>1, <2>3
    <3>2. j + 2 \in 1 .. LayerCount /\ j + 2 > 2 /\ j + 2 <= 2 + n /\ (j + 2) - 2 = j
      BY <1>1, <1>2, <1>4
    <3> QED
      BY <1>7, <3>1, <3>2
  <2>4. CASE \E l \in Deeper : T \in levels[l]
    <3>1. PICK l \in Deeper : T \in levels[l]
      BY <2>4
    <3>2. l + 2 + n \in 1 .. LayerCount /\ l + 2 + n > 2 + n /\ (l + 2 + n) - 2 - n = l
      BY <1>1, <1>2, <1>4 DEF Deeper
    <3> QED
      BY <1>6, <3>1, <3>2
  <2> QED
    BY <2>1, <2>2, <2>3, <2>4, Levels0
<1>10. \A i \in 1 .. LayerCount : i <= 2 + n \/ \E l \in Deeper : LayerTables(i) = levels[l]
  <2>1. \A i \in 1 .. LayerCount : i <= 2 + n \/ i > 2 + n
    BY <1>1, <1>4
  <2> QED
    BY <1>6, <2>1
<1> QED
  BY <1>3, <1>4, <1>8, <1>9, <1>10

\* The layers of key k, newest first, hold all that there is of it.
InLayers(k) ==
  /\ LayerCount \in Nat
  /\ \A e : e \in Ents(Everything) /\ e.key = k <=> \E i \in 1 .. LayerCount : e \in LayerEntries(i, k)
  /\ \A t : t \in Tombs(Everything) <=> \E i \in 1 .. LayerCount : t \in LayerTombs(i)
  /\ \A i, j \in 1 .. LayerCount : i < j =>
       /\ \A e \in LayerEntries(i, k), x \in LayerEntries(j, k) : x.seq < e.seq
       /\ \A t \in LayerTombs(i), x \in LayerEntries(j, k) : Covers(t, k) => x.seq < t.seq
       /\ \A e \in LayerEntries(i, k), t \in LayerTombs(j) : Covers(t, k) => t.seq < e.seq

\* What lookups rely on, from the order and the disjointness of levels.
LEMMA LayersHold ==
  ASSUME Shape, LevelsDisjoint, LayerOrder, NEW k \in Keys
  PROVE  InLayers(k)
<1>1. /\ LayerCount \in Nat
      /\ \A i \in 1 .. LayerCount : \A T \in LayerTables(i) : T \in Everything
      /\ \A T \in Everything : T = Empty \/ \E i \in 1 .. LayerCount : T \in LayerTables(i)
      /\ \A i \in 1 .. LayerCount : i <= 2 + Len(level0)
                                    \/ \E l \in Deeper : LayerTables(i) = levels[l]
  BY LayersAre
<1>2. \A i : LayerTombs(i) = UNION {T.tombs : T \in LayerTables(i)}
  BY DEF LayerTombs
<1>3. ASSUME NEW i \in 1 .. LayerCount
      PROVE  \A e : e \in LayerEntries(i, k) <=>
                      e.key = k /\ \E T \in LayerTables(i) : e \in T.entries
  <2>1. PICK S : S = LayerTables(i)
    OBVIOUS
  <2>2. CASE i <= 2 + Len(level0)
    BY <2>1, <2>2 DEF LayerEntries
  <2>3. CASE ~(i <= 2 + Len(level0))
    <3>1. LayerEntries(i, k) = {e \in UNION {T.entries : T \in FindFile(S, k)} : e.key = k}
      BY <2>1, <2>3 DEF LayerEntries
    <3>2. PICK l \in Deeper : S = levels[l]
      BY <1>1, <2>1, <2>3
    <3>3. Tabs(S) /\ \A T, U \in S : T # U => Precedes(T, U) \/ Precedes(U, T)
      BY <3>2, Levels0 DEF Shape, LevelsDisjoint
    <3>4. FindFile(S, k) \subseteq S
      BY DEF FindFile
    <3>5. \A T \in S : \A e \in T.entries : e.key = k => T \in FindFile(S, k)
      BY <3>3, FindFileAll
    <3> QED
      BY <2>1, <3>1, <3>4, <3>5
  <2> QED
    BY <2>2, <2>3
<1>4. \A i \in 1 .. LayerCount :
        /\ \A e \in LayerEntries(i, k) : e.seq \in LayerSeqs(i, k)
        /\ \A t \in LayerTombs(i) : Covers(t, k) => t.seq \in LayerSeqs(i, k)
  BY <1>2, <1>3 DEF LayerSeqs
<1>5. \A i, j \in 1 .. LayerCount : i < j =>
        \A s \in LayerSeqs(i, k), q \in LayerSeqs(j, k) : q < s
  BY DEF LayerOrder
<1>6. Empty.entries = {} /\ Empty.tombs = {}
  BY DEF Empty
<1>7. \A e : e \in Ents(Everything) /\ e.key = k <=> \E i \in 1 .. LayerCount : e \in LayerEntries(i, k)
  <2>1. \A e : e \in Ents(Everything) <=> \E T \in Everything : e \in T.entries
    BY DEF Ents
  <2> QED
    BY <1>1, <1>3, <1>6, <2>1
<1>8. \A t : t \in Tombs(Everything) <=> \E i \in 1 .. LayerCount : t \in LayerTombs(i)
  <2>1. \A t : t \in Tombs(Everything) <=> \E T \in Everything : t \in T.tombs
    BY DEF Tombs
  <2> QED
    BY <1>1, <1>2, <1>6, <2>1
<1>9. \A i, j \in 1 .. LayerCount : i < j =>
        /\ \A e \in LayerEntries(i, k), x \in LayerEntries(j, k) : x.seq < e.seq
        /\ \A t \in LayerTombs(i), x \in LayerEntries(j, k) : Covers(t, k) => x.seq < t.seq
        /\ \A e \in LayerEntries(i, k), t \in LayerTombs(j) : Covers(t, k) => t.seq < e.seq
  BY <1>4, <1>5
<1> QED
  BY <1>1, <1>7, <1>8, <1>9 DEF InLayers

\* Of what a layer holds, what is found there is what nothing visible wipes:
\* stopping early and passing over hidden layers loses nothing.
LEMMA FoundIs ==
  ASSUME NEW k, InLayers(k), NEW r \in Nat, Counted(Ents(Everything), Tombs(Everything)),
         NEW i \in 1 .. LayerCount
  PROVE  \A e : e \in Found(i, k, r) <=>
                  /\ e \in LayerEntries(i, k) /\ e.seq <= r /\ e.type # "deletion"
                  /\ ~Wiped(Ents(Everything), Tombs(Everything), k, e.seq, r)
<1>1. PICK E : E = Ents(Everything)
  OBVIOUS
<1>2. PICK X : X = Tombs(Everything)
  OBVIOUS
<1>3. PICK N : N = LayerCount
  OBVIOUS
<1>4. /\ N \in Nat /\ i \in 1 .. N
      /\ \A e : e \in E /\ e.key = k <=> \E j \in 1 .. N : e \in LayerEntries(j, k)
      /\ \A t : t \in X <=> \E j \in 1 .. N : t \in LayerTombs(j)
  BY <1>1, <1>2, <1>3 DEF InLayers
<1>5. \A j, m \in 1 .. N : j < m =>
        /\ \A e \in LayerEntries(j, k), x \in LayerEntries(m, k) : x.seq < e.seq
        /\ \A t \in LayerTombs(j), x \in LayerEntries(m, k) : Covers(t, k) => x.seq < t.seq
  BY <1>3 DEF InLayers
<1>6. (\A e \in E : e.seq \in Nat) /\ \A t \in X : t.seq \in Nat
  BY <1>1, <1>2 DEF Counted
<1>7. \A j \in 1 .. N : \A e \in LayerEntries(j, k) : e.key = k /\ e \in E /\ e.seq \in Nat
  BY <1>4, <1>6
<1>8. \A j \in 1 .. N : \A t \in LayerTombs(j) : t \in X /\ t.seq \in Nat
  BY <1>4, <1>6
<1>9. \A e : e.key = k => (TakenDeleted(e, r) <=>
        e.type = "deletion" \/ \E t \in X : Covers(t, k) /\ e.seq < t.seq /\ t.seq <= r)
  <2>1. \A e : TakenDeleted(e, r) <=>
          e.type = "deletion" \/ \E j \in 1 .. N : \E t \in LayerTombs(j) :
                                   Covers(t, e.key) /\ e.seq < t.seq /\ t.seq <= r
    BY <1>3 DEF TakenDeleted
  <2> QED
    BY <1>4, <2>1
<1>10. \A j \in 1 .. N : HiddenBelow(j, k, r) <=>
         \E m \in 1 .. N : m < j /\ \E t \in LayerTombs(m) : Covers(t, k) /\ t.seq <= r
  <2>1. \A j, m \in 1 .. N : m \in 1 .. j - 1 <=> m < j
    BY <1>4
  <2>2. \A j \in 1 .. N : \A m \in 1 .. j - 1 : m \in 1 .. N
    BY <1>4
  <2> QED
    BY <2>1, <2>2 DEF HiddenBelow
<1>11. \A j \in 1 .. N : \A e : e \in Met(j, k, r) <=>
         ~HiddenBelow(j, k, r) /\ e \in LayerEntries(j, k) /\ e.seq <= r
  BY DEF Met
<1>12. \A e : e \in Found(i, k, r) <=>
         /\ e \in Met(i, k, r) /\ ~TakenDeleted(e, r)
         /\ \A j \in 1 .. i : \A y \in Met(j, k, r) :
              y.type # "merge" \/ TakenDeleted(y, r) => j = i /\ y.seq <= e.seq
  BY DEF Found
<1>13. \A j \in 1 .. i : j \in 1 .. N /\ (j = i \/ j < i)
  BY <1>4
<1>14. ASSUME NEW e \in Found(i, k, r)
       PROVE  /\ e \in LayerEntries(i, k) /\ e.seq <= r /\ e.type # "deletion"
              /\ ~Wiped(E, X, k, e.seq, r)
  <2>1. e \in Met(i, k, r) /\ ~TakenDeleted(e, r)
    BY <1>12
  <2>2. e \in LayerEntries(i, k) /\ e.seq <= r /\ e.key = k /\ e.seq \in Nat
    BY <1>4, <1>7, <1>11, <2>1
  <2>3. e.type # "deletion" /\ ~\E t \in X : Covers(t, k) /\ e.seq < t.seq /\ t.seq <= r
    BY <1>9, <2>1, <2>2
  <2>4. ASSUME NEW y \in E, y.key = k, y.type # "merge", e.seq < y.seq, y.seq <= r PROVE FALSE
    <3>1. PICK j \in 1 .. N : y \in LayerEntries(j, k)
      BY <1>4, <2>4
    <3>2. y.seq \in Nat /\ j \in Nat /\ i \in Nat
      BY <1>4, <1>6
    <3>3. ~(i < j)
      BY <1>4, <1>5, <2>2, <2>4, <3>1, <3>2
    <3>4. j \in 1 .. i
      BY <1>4, <3>2, <3>3
    <3>5. CASE HiddenBelow(j, k, r)
      <4>1. PICK m \in 1 .. N : m < j /\ \E t \in LayerTombs(m) : Covers(t, k) /\ t.seq <= r
        BY <1>10, <3>5
      <4>2. PICK t \in LayerTombs(m) : Covers(t, k) /\ t.seq <= r
        BY <4>1
      <4>3. m < i
        BY <3>2, <3>3, <4>1
      <4>4. e.seq < t.seq /\ t \in X
        BY <1>4, <1>5, <1>8, <2>2, <4>2, <4>3
      <4> QED
        BY <2>3, <4>2, <4>4
    <3>6. CASE ~HiddenBelow(j, k, r)
      <4>1. y \in Met(j, k, r)
        BY <1>11, <2>4, <3>1, <3>6
      <4>2. y.seq <= e.seq
        BY <1>12, <2>4, <3>4, <4>1
      <4> QED
        BY <2>2, <2>4, <3>2, <4>2
    <3> QED
      BY <3>5, <3>6
  <2>5. ~Wiped(E, X, k, e.seq, r)
    BY <2>3, <2>4 DEF Wiped
  <2> QED
    BY <2>2, <2>3, <2>5
<1>15. ASSUME NEW e \in LayerEntries(i, k), e.seq <= r, e.type # "deletion", ~Wiped(E, X, k, e.seq, r)
       PROVE  e \in Found(i, k, r)
  <2>1. e.key = k /\ e \in E /\ e.seq \in Nat
    BY <1>4, <1>7
  <2>2. /\ ~\E t \in X : Covers(t, k) /\ e.seq < t.seq /\ t.seq <= r
        /\ ~\E y \in E : y.key = k /\ y.type # "merge" /\ e.seq < y.seq /\ y.seq <= r
    BY <1>15 DEF Wiped
  <2>3. ~HiddenBelow(i, k, r)
    <3> SUFFICES ASSUME HiddenBelow(i, k, r) PROVE FALSE
      OBVIOUS
    <3>1. PICK m \in 1 .. N : m < i /\ \E t \in LayerTombs(m) : Covers(t, k) /\ t.seq <= r
      BY <1>4, <1>10
    <3>2. PICK t \in LayerTombs(m) : Covers(t, k) /\ t.seq <= r
      BY <3>1
    <3>3. e.seq < t.seq /\ t \in X
      BY <1>4, <1>5, <1>8, <3>1, <3>2
    <3> QED
      BY <2>2, <3>2, <3>3
  <2>4. e \in Met(i, k, r)
    BY <1>4, <1>11, <1>15, <2>3
  <2>5. ~TakenDeleted(e, r)
    BY <1>9, <1>15, <2>1, <2>2
  <2>6. ASSUME NEW j \in 1 .. i, NEW y \in Met(j, k, r), y.type # "merge" \/ TakenDeleted(y, r)
        PROVE  j = i /\ y.seq <= e.seq
    <3>1. j \in 1 .. N /\ (j = i \/ j < i)
      BY <1>13
    <3>2. y \in LayerEntries(j, k) /\ y.seq <= r /\ y.key = k /\ y \in E /\ y.seq \in Nat
      BY <1>7, <1>11, <3>1
    <3>3. y.seq <= e.seq
      <4>1. CASE y.type # "merge"
        BY <2>1, <2>2, <3>2, <4>1
      <4>2. CASE y.type = "merge" /\ TakenDeleted(y, r)
        <5>1. PICK t \in X : Covers(t, k) /\ y.seq < t.seq /\ t.seq <= r
          BY <1>9, <3>2, <4>2
        <5>2. t.seq \in Nat /\ ~(e.seq < t.seq)
          BY <1>6, <2>2, <5>1
        <5> QED
          BY <2>1, <3>2, <5>1, <5>2
      <4> QED
        BY <2>6, <4>1, <4>2
    <3>4. j < i => e.seq < y.seq
      BY <1>4, <1>5, <3>1, <3>2
    <3> QED
      BY <2>1, <3>1, <3>2, <3>3, <3>4
  <2> QED
    BY <1>12, <2>4, <2>5, <2>6
<1> QED
  BY <1>1, <1>2, <1>14, <1>15

\* What Get returns is the value that all the family holds gives, in order.
LEMMA GetIs ==
  ASSUME NEW k \in Keys, InLayers(k), NEW r \in Nat, Stacked(Ents(Everything)),
         Counted(Ents(Everything), Tombs(Everything))
  PROVE  /\ Increasing(Get(k, r))
         /\ \A a \in Nat : a \in ToSet(Get(k, r)) <=> GivenBy(Everything, k, r, a)
<1>1. PICK E : E = Ents(Everything)
  OBVIOUS
<1>2. PICK X : X = Tombs(Everything)
  OBVIOUS
<1>3. PICK N \in Nat : N = LayerCount
  BY DEF InLayers
<1>4. /\ \A e : e \in E /\ e.key = k <=> \E i \in 1 .. N : e \in LayerEntries(i, k)
      /\ \A i, j \in 1 .. N : i < j =>
           \A e \in LayerEntries(i, k), x \in LayerEntries(j, k) : x.seq < e.seq
  BY <1>1, <1>3 DEF InLayers
<1>5. \A i \in 1 .. N : \A e : e \in Found(i, k, r) <=>
        /\ e \in LayerEntries(i, k) /\ e.seq <= r /\ e.type # "deletion"
        /\ ~Wiped(E, X, k, e.seq, r)
  BY <1>1, <1>2, <1>3, FoundIs
<1>6. /\ \A e \in E : Valued(e) /\ EntryLike(e) /\ e.seq \in Nat
      /\ \A x, y \in E : x.key = y.key /\ x.seq < y.seq => \A i \in ToSet(y.val) : x.seq < i
  <2>1. \A e \in E : e.seq \in Nat
    BY <1>1 DEF Counted
  <2> QED
    BY <1>1, <2>1 DEF Stacked
<1>7. \A i \in 1 .. N : \A e \in Found(i, k, r) : e \in E /\ e.key = k
  BY <1>4, <1>5
<1>8. ASSUME NEW i \in 1 .. N
      PROVE  /\ Increasing(Folded(Found(i, k, r)))
             /\ \A a \in Nat : a \in ToSet(Folded(Found(i, k, r))) <=>
                                 \E e \in Found(i, k, r) : a \in ToSet(e.val)
  <2>1. PICK S : S = Found(i, k, r)
    OBVIOUS
  <2>2. S \in SUBSET E /\ \A e \in S : e.key = k
    BY <1>7, <2>1
  <2>3. Stacked(S)
    BY <1>1, <2>2, SubStacked
  <2>4. /\ Increasing(Folded(S))
        /\ \A a \in Nat : a \in ToSet(Folded(S)) <=> \E e \in S : a \in ToSet(e.val)
    BY <2>2, <2>3, FoldedIs
  <2> QED
    BY <2>1, <2>4
<1> DEFINE f == [n \in 1 .. N |-> Folded(Found(N + 1 - n, k, r))]
<1>9. \A n \in 1 .. N : N + 1 - n \in 1 .. N /\ f[n] = Folded(Found(N + 1 - n, k, r))
  OBVIOUS
<1>10. Get(k, r) = FlattenSeq(f)
  BY <1>3 DEF Get
<1>11. f \in Seq(Seq(Nat)) /\ Len(f) = N
  <2>1. \A n \in 1 .. N : f[n] \in Seq(Nat)
    BY <1>8, <1>9 DEF Increasing
  <2>2. f = [n \in 1 .. N |-> f[n]]
    OBVIOUS
  <2> HIDE DEF f
  <2> QED
    BY <2>1, <2>2
<1> HIDE DEF f
<1>12. \A n \in 1 .. N : Increasing(f[n])
  BY <1>8, <1>9
<1>13. \A n \in 1 .. N : \A a \in Nat : a \in ToSet(f[n]) <=>
         \E e \in Found(N + 1 - n, k, r) : a \in ToSet(e.val)
  BY <1>8, <1>9
<1>14. \A n \in 1 .. N : ToSet(f[n]) \subseteq Nat
  BY <1>12, ToSetOf DEF Increasing
<1>15. ASSUME NEW m \in 1 .. N, NEW n \in 1 .. N, m < n
       PROVE  AllBefore(f[m], f[n])
  <2> SUFFICES ASSUME NEW a \in ToSet(f[m]), NEW b \in ToSet(f[n]) PROVE a < b
    BY DEF AllBefore
  <2>1. a \in Nat /\ b \in Nat
    BY <1>14
  <2>2. PICK x \in Found(N + 1 - m, k, r) : a \in ToSet(x.val)
    BY <1>13, <2>1
  <2>3. PICK y \in Found(N + 1 - n, k, r) : b \in ToSet(y.val)
    BY <1>13, <2>1
  <2>4. N + 1 - m \in 1 .. N /\ N + 1 - n \in 1 .. N /\ N + 1 - n < N + 1 - m
    BY <1>15
  <2>5. x \in E /\ x.key = k /\ y \in E /\ y.key = k
    BY <1>7, <2>4
  <2>6. x.seq < y.seq
    BY <1>4, <1>5, <2>4
  <2>7. x.seq < b
    BY <1>6, <2>3, <2>5, <2>6
  <2>8. a <= x.seq /\ x.seq \in Nat
    BY <1>6, <2>1, <2>2, <2>5 DEF Valued
  <2> QED
    BY <2>1, <2>7, <2>8
<1>16. /\ Increasing(FlattenSeq(f))
       /\ \A a \in Nat : a \in ToSet(FlattenSeq(f)) <=> \E n \in 1 .. Len(f) : a \in ToSet(f[n])
  BY <1>11, <1>12, <1>15, Flattened
<1>17. ASSUME NEW a \in Nat
       PROVE  (\E n \in 1 .. N : a \in ToSet(f[n])) <=> Gives(E, X, k, r, a)
  <2>1. ASSUME NEW n \in 1 .. N, a \in ToSet(f[n]) PROVE Gives(E, X, k, r, a)
    <3>1. PICK e \in Found(N + 1 - n, k, r) : a \in ToSet(e.val)
      BY <1>13, <2>1
    <3>2. N + 1 - n \in 1 .. N
      BY <1>9
    <3>3. e \in E /\ e.key = k /\ e.seq <= r /\ ~Wiped(E, X, k, e.seq, r)
      BY <1>5, <1>7, <3>2
    <3> QED
      BY <3>1, <3>3 DEF Gives
  <2>2. ASSUME Gives(E, X, k, r, a) PROVE \E n \in 1 .. N : a \in ToSet(f[n])
    <3>1. PICK e \in E : e.key = k /\ e.seq <= r /\ a \in ToSet(e.val) /\ ~Wiped(E, X, k, e.seq, r)
      BY <2>2 DEF Gives
    <3>2. e.type # "deletion"
      <4>1. ToSet(<<>>) = {}
        BY DEF ToSet
      <4> QED
        BY <1>6, <3>1, <4>1 DEF Valued
    <3>3. PICK i \in 1 .. N : e \in LayerEntries(i, k)
      BY <1>4, <3>1
    <3>4. e \in Found(i, k, r)
      BY <1>5, <3>1, <3>2, <3>3
    <3>5. N + 1 - i \in 1 .. N /\ N + 1 - (N + 1 - i) = i
      OBVIOUS
    <3>6. a \in ToSet(f[N + 1 - i])
      BY <1>13, <3>1, <3>4, <3>5
    <3> QED
      BY <3>5, <3>6
  <2> QED
    BY <2>1, <2>2
<1> QED
  BY <1>1, <1>2, <1>10, <1>11, <1>16, <1>17 DEF GivenBy

\* The value by the rule of the specification, in order.
LEMMA ReferenceIs ==
  ASSUME NEW k \in Keys, NEW r \in Nat
  PROVE  /\ Increasing(Reference(k, r))
         /\ \A a \in Nat : a \in ToSet(Reference(k, r)) <=> a \in 1 .. r /\ Counts(a, k, r)
<1> DEFINE f == [i \in 1 .. r |-> IF Counts(i, k, r) THEN <<i>> ELSE <<>>]
<1>1. Reference(k, r) = FlattenSeq(f)
  BY DEF Reference
<1>2. \A i \in 1 .. r : f[i] = IF Counts(i, k, r) THEN <<i>> ELSE <<>>
  OBVIOUS
<1>3. f = [i \in 1 .. r |-> f[i]]
  OBVIOUS
<1> HIDE DEF f
<1>4. Increasing(<<>>) /\ ToSet(<<>>) = {}
  BY DEF Increasing, ToSet
<1>5. \A i \in Nat : Increasing(<<i>>) /\ ToSet(<<i>>) = {i}
  BY DEF Increasing, ToSet
<1>6. \A i \in 1 .. r : /\ Increasing(f[i])
                        /\ \A a : a \in ToSet(f[i]) <=> a = i /\ Counts(i, k, r)
  <2> SUFFICES ASSUME NEW i \in 1 .. r
               PROVE  /\ Increasing(f[i])
                      /\ \A a : a \in ToSet(f[i]) <=> a = i /\ Counts(i, k, r)
    OBVIOUS
  <2>1. i \in Nat
    OBVIOUS
  <2>2. CASE Counts(i, k, r)
    BY <1>2, <1>5, <2>1, <2>2
  <2>3. CASE ~Counts(i, k, r)
    BY <1>2, <1>4, <2>3
  <2> QED
    BY <2>2, <2>3
<1>7. f \in Seq(Seq(Nat)) /\ Len(f) = r
  <2>1. \A i \in 1 .. r : f[i] \in Seq(Nat)
    BY <1>6 DEF Increasing
  <2> QED
    BY <1>3, <2>1
<1>8. \A i, j \in 1 .. Len(f) : i < j => AllBefore(f[i], f[j])
  BY <1>6, <1>7 DEF AllBefore
<1>9. /\ Increasing(FlattenSeq(f))
      /\ \A a \in Nat : a \in ToSet(FlattenSeq(f)) <=> \E i \in 1 .. Len(f) : a \in ToSet(f[i])
  BY <1>6, <1>7, <1>8, Flattened
<1> QED
  BY <1>1, <1>6, <1>7, <1>9

\* A reader at r gets what was written up to r.
LEMMA ReaderExact ==
  ASSUME Shape, Aged, LevelsDisjoint, LayerOrder, Exact, NEW k \in Keys,
         NEW r \in snapshots \cup {LastSeq}
  PROVE  Get(k, r) = Reference(k, r)
<1>1. /\ snapshots \subseteq 1 .. LastSeq /\ LastSeq \in Nat /\ KMax \in Nat /\ LastSeq < KMax
      /\ r \in Nat /\ r <= LastSeq /\ LastSeq <= KMax
  BY SnapshotsAre DEF Exact
<1>2. /\ Counted(Ents(Everything), Tombs(Everything))
      /\ \A e \in Ents(Everything) : e.seq \in Nat /\ e.seq <= LastSeq
      /\ \A t \in Tombs(Everything) : t.seq \in Nat /\ t.seq <= LastSeq
  <2>1. /\ Counted(Ents(Everything), Tombs(Everything))
        /\ \A e \in Ents(Everything) : e.seq <= LastSeq
        /\ \A t \in Tombs(Everything) : t.seq <= LastSeq
    BY EverythingCounted
  <2> QED
    BY <2>1 DEF Counted
<1>3. \A a \in Nat : GivenBy(Everything, k, r, a) <=> Expected(k, r, a)
  <2>1. CASE r \in snapshots
    <3>1. r \in Stripes(snapshots)
      BY <2>1 DEF Stripes
    <3> QED
      BY <3>1 DEF Exact, Content
  <2>2. CASE r = LastSeq
    <3>1. KMax \in Stripes(snapshots)
      BY DEF Stripes
    <3>2. \A a : GivenBy(Everything, k, KMax, a) <=> Expected(k, KMax, a)
      BY <3>1 DEF Exact, Content
    <3>3. \A a : GivenBy(Everything, k, LastSeq, a) <=> GivenBy(Everything, k, KMax, a)
      BY <1>1, <1>2, SeesAll DEF GivenBy
    <3>4. \A a : Expected(k, LastSeq, a) <=> Expected(k, KMax, a)
      BY <1>1 DEF Expected
    <3> QED
      BY <2>2, <3>2, <3>3, <3>4
  <2> QED
    BY <2>1, <2>2
<1>4. \A a \in Nat : Expected(k, r, a) <=> a \in 1 .. r /\ Counts(a, k, r)
  <2> SUFFICES ASSUME NEW a \in Nat PROVE Expected(k, r, a) <=> a \in 1 .. r /\ Counts(a, k, r)
    OBVIOUS
  <2>1. \A j : j \in a + 1 .. r <=> j \in 1 .. LastSeq /\ a < j /\ j <= r
    BY <1>1
  <2>2. a \in 1 .. r <=> a \in 1 .. LastSeq /\ a <= r
    BY <1>1
  <2> QED
    BY <2>1, <2>2 DEF Expected, Counts
<1>5. /\ Increasing(Get(k, r))
      /\ \A a \in Nat : a \in ToSet(Get(k, r)) <=> GivenBy(Everything, k, r, a)
  <2>1. InLayers(k) /\ Stacked(Ents(Everything))
    BY LayersHold DEF Exact, Content
  <2> QED
    BY <1>1, <1>2, <2>1, GetIs
<1>6. /\ Increasing(Reference(k, r))
      /\ \A a \in Nat : a \in ToSet(Reference(k, r)) <=> a \in 1 .. r /\ Counts(a, k, r)
  BY <1>1, ReferenceIs
<1>7. ToSet(Get(k, r)) \subseteq Nat /\ ToSet(Reference(k, r)) \subseteq Nat
  BY <1>5, <1>6, ToSetOf DEF Increasing
<1>8. ToSet(Get(k, r)) = ToSet(Reference(k, r))
  BY <1>3, <1>4, <1>5, <1>6, <1>7
<1> QED
  BY <1>5, <1>6, <1>8, SameSequence

\* ReadsExact: every reader, at every live snapshot or at the latest sequence number,
\* gets exactly what was written before it, whatever was flushed, moved and
\* compacted since and wherever tombstones and operands ended up (DBImpl::Get,
\* LookupState::Add, DoCompactionWork, compact_group), while nobody writes
\* during a call of CompactRange.
THEOREM ReadsAreExact ==
  ASSUME ~WritesDuringCall
  PROVE  Spec => []ReadsExact
<1>1. Shape /\ Ordered /\ LayerOrder /\ Exact => ReadsExact
  <2> SUFFICES ASSUME Shape, Ordered, LayerOrder, Exact,
                      NEW r \in snapshots \cup {LastSeq}, NEW k \in Keys
               PROVE  Get(k, r) = Reference(k, r)
    BY DEF ReadsExact
  <2> QED
    BY ReaderExact DEF Ordered
<1>2. Spec => []Shape
  BY ShapeAlways
<1>3. Spec => []Ordered
  BY OrderAlways
<1>4. Spec => []LayerOrder
  BY LayersInOrder
<1>5. Spec => []Exact
  BY ExactAlways
<1> QED
  BY <1>1, <1>2, <1>3, <1>4, <1>5, PTL

------------------------------------------------------------------------------
(* Types.                                                                  *)

LEMMA FoldedType ==
  ASSUME NEW S, \A e \in S : e.val \in Seq(Seqs)
  PROVE  Folded(S) \in Seq(Seqs)
<1> DEFINE f == [n \in Seqs |-> ValueAt(S, n)]
<1>1. MaxSeq \in Nat /\ Seqs = 1 .. MaxSeq
  BY KeysAssumption DEF Seqs
<1>2. \A n \in Seqs : f[n] \in Seq(Seqs)
  <2> SUFFICES ASSUME NEW n \in Seqs PROVE ValueAt(S, n) \in Seq(Seqs)
    OBVIOUS
  <2>1. CASE \E e \in S : e.seq = n
    <3>1. PICK x : x = CHOOSE e \in S : e.seq = n
      OBVIOUS
    <3>2. x \in S /\ ValueAt(S, n) = x.val
      BY <2>1, <3>1 DEF ValueAt
    <3> QED
      BY <3>2
  <2>2. CASE ~\E e \in S : e.seq = n
    BY <2>2 DEF ValueAt
  <2> QED
    BY <2>1, <2>2
<1>3. f = [n \in 1 .. MaxSeq |-> f[n]] /\ Folded(S) = FlattenSeq(f)
  BY <1>1 DEF Folded
<1> HIDE DEF f
<1>4. f \in Seq(Seq(Seqs))
  BY <1>1, <1>2, <1>3
<1> QED
  BY <1>3, <1>4, FlattenType

\* The values that compact_group writes are made of writes.
LEMMA StripeValues ==
  ASSUME NEW G, \A e \in G : EntryLike(e) /\ e.val \in Seq(Seqs), G # {}, NEW T, NEW b, NEW oldest,
         NEW older \in BOOLEAN, NEW base \in BOOLEAN, NEW folds \in BOOLEAN
  PROVE  \A x \in CompactStripe(G, T, b, oldest, older, base, folds) : x.val \in Seq(Seqs)
<1> DEFINE gone    == {e \in G : e.type = "deletion" \/ HiddenInStripe(e, T, b)}
           settles == gone \cup {e \in G : e.type = "value"}
           settle  == Newest(settles)
           ops     == {e \in G : \A s \in settles : s.seq < e.seq}
           kept    == IF settle \in gone
                      THEN {[settle EXCEPT !.type = "deletion", !.val = <<>>]}
                      ELSE {settle}
           R == CompactStripe(G, T, b, oldest, older, base, folds)
<1>1. R = CASE settles # {} /\ ops = {} ->
                  IF settle \in gone /\ b = oldest /\ base THEN {} ELSE kept
            [] settles # {} /\ ops # {} ->
                  {[Newest(G) EXCEPT !.type = "value", !.val = Folded(ops \cup kept)]}
            [] settles = {} /\ ~older /\ base ->
                  {[Newest(G) EXCEPT !.type = "value", !.val = Folded(ops)]}
            [] settles = {} /\ (older \/ ~base) ->
                  IF folds /\ Cardinality(ops) > 1
                  THEN {[Newest(G) EXCEPT !.val = Folded(ops)]}
                  ELSE ops
  BY DEF CompactStripe
<1>2. /\ ops \subseteq G /\ settles \subseteq G
      /\ "value" \in EntryType /\ "deletion" \in EntryType /\ <<>> \in Seq(Seqs)
  BY DEF EntryType
<1>3. Newest(G) \in G /\ EntryLike(Newest(G))
  BY NewestIn
<1>4. settles # {} => settle \in G /\ EntryLike(settle)
  <2> HIDE DEF settles
  <2> QED
    BY <1>2, NewestIn
<1> HIDE DEF R, ops, settles, gone, settle
<1>5. settles # {} => \A x \in kept : x.val \in Seq(Seqs)
  <2> SUFFICES ASSUME settles # {} PROVE \A x \in kept : x.val \in Seq(Seqs)
    OBVIOUS
  <2>1. settle \in G /\ EntryLike(settle) /\ "deletion" \in EntryType
    BY <1>2, <1>4
  <2>2. Becomes(settle, [settle EXCEPT !.type = "deletion", !.val = <<>>], "deletion", <<>>)
    BY <2>1, RetypedIs, Zenon
  <2>3. [settle EXCEPT !.type = "deletion", !.val = <<>>].val \in Seq(Seqs)
    BY <1>2, <2>2 DEF Becomes
  <2> QED
    BY <2>1, <2>3
<1>6. (\A x \in ops : x.val \in Seq(Seqs)) /\ Folded(ops) \in Seq(Seqs)
  BY <1>2, FoldedType
<1> HIDE DEF kept
<1>7. settles # {} => Folded(ops \cup kept) \in Seq(Seqs)
  BY <1>5, <1>6, FoldedType
<1>8. \A v : /\ [Newest(G) EXCEPT !.type = "value", !.val = v].val = v
             /\ [Newest(G) EXCEPT !.val = v].val = v
  <2> SUFFICES ASSUME NEW v
               PROVE  /\ [Newest(G) EXCEPT !.type = "value", !.val = v].val = v
                      /\ [Newest(G) EXCEPT !.val = v].val = v
    OBVIOUS
  <2>1. EntryLike(Newest(G)) /\ "value" \in EntryType
    BY <1>2, <1>3
  <2>2. /\ Becomes(Newest(G), [Newest(G) EXCEPT !.type = "value", !.val = v], "value", v)
        /\ Becomes(Newest(G), [Newest(G) EXCEPT !.val = v], Newest(G).type, v)
    BY <2>1, RetypedIs, Zenon
  <2> QED
    BY <2>2 DEF Becomes
<1>9. CASE settles # {} /\ ops = {}
  <2>1. R = IF settle \in gone /\ b = oldest /\ base THEN {} ELSE kept
    BY <1>1, <1>9
  <2> QED
    BY <1>5, <1>9, <2>1 DEF R
<1>10. CASE settles # {} /\ ops # {}
  <2>1. R = {[Newest(G) EXCEPT !.type = "value", !.val = Folded(ops \cup kept)]}
    BY <1>1, <1>10
  <2> QED
    BY <1>7, <1>8, <1>10, <2>1 DEF R
<1>11. CASE settles = {} /\ ~older /\ base
  <2>1. R = {[Newest(G) EXCEPT !.type = "value", !.val = Folded(ops)]}
    BY <1>1, <1>11
  <2> QED
    BY <1>6, <1>8, <2>1 DEF R
<1>12. CASE settles = {} /\ (older \/ ~base)
  <2>1. R = IF folds /\ Cardinality(ops) > 1
            THEN {[Newest(G) EXCEPT !.val = Folded(ops)]}
            ELSE ops
    BY <1>1, <1>12
  <2>2. R = {[Newest(G) EXCEPT !.val = Folded(ops)]} \/ R = ops
    BY <2>1, Zenon
  <2>3. [Newest(G) EXCEPT !.val = Folded(ops)].val \in Seq(Seqs)
    BY <1>6, <1>8
  <2>4. \A x \in R : x.val \in Seq(Seqs)
    BY <1>6, <2>2, <2>3, Zenon
  <2> QED
    BY <2>4 DEF R
<1> QED
  BY <1>9, <1>10, <1>11, <1>12

\* The entries that a compaction makes have such values.
LEMMA EntriesValues ==
  ASSUME NEW E, \A e \in E : EntryLike(e) /\ e.val \in Seq(Seqs), NEW T, NEW snaps, NEW deeper,
         NEW folds \in BOOLEAN
  PROVE  \A x \in CompactEntries(E, T, snaps, deeper, folds) : x.val \in Seq(Seqs)
<1> SUFFICES ASSUME NEW x \in CompactEntries(E, T, snaps, deeper, folds)
             PROVE  x.val \in Seq(Seqs)
  OBVIOUS
<1>1. PICK k \in {e.key : e \in E} :
        x \in CompactKey({e \in E : e.key = k}, T, snaps, BaseForKey(deeper, k), folds)
  BY DEF CompactEntries
<1> DEFINE G == {e \in E : e.key = k}
           base == BaseForKey(deeper, k)
           mine(b) == {e \in G : StripeOf(e.seq, snaps) = b}
           older(b) == \E e \in G : StripeOf(e.seq, snaps) < b
<1>2. PICK b \in Stripes(snaps) :
        /\ mine(b) # {}
        /\ x \in CompactStripe(mine(b), T, b, OldestStripe(snaps), older(b), base, folds)
  BY <1>1 DEF CompactKey
<1>3. older(b) \in BOOLEAN /\ base \in BOOLEAN /\ \A e \in mine(b) : e \in E
  BY DEF BaseForKey
<1> HIDE DEF mine, older, base
<1> QED
  BY <1>2, <1>3, StripeValues

\* A table with its values.
Full(T) == Sound(T) /\ \A e \in T.entries : e.val \in Seq(Seqs)

Known == Everything \cup comp.in0 \cup comp.in1 \cup comp.outs

Typed ==
  /\ \A T \in Known : Full(T)
  /\ hasImm \in BOOLEAN /\ snapshots \subseteq 1 .. LastSeq /\ calls \in 0 .. MaxCalls
  /\ comp.busy \in BOOLEAN /\ comp.level \in 0 .. NumLevels - 2

\* The tables that a state holds.
LEMMA KnownAre ==
  /\ \A T : T \in Known <=> \/ T = Empty \/ T = mem \/ T = imm
                            \/ \E l \in Levs : T \in TablesAt(l)
                            \/ T \in comp.in0 \/ T \in comp.in1 \/ T \in comp.outs
  /\ \A T : T \in Known' <=> \/ T = Empty \/ T = mem' \/ T = imm'
                             \/ \E l \in Levs : T \in TablesAt(l)'
                             \/ T \in comp'.in0 \/ T \in comp'.in1 \/ T \in comp'.outs
<1>1. PICK U : U = UNION {TablesAt(l) : l \in Levs}
  OBVIOUS
<1>2. PICK V : V = UNION {TablesAt(l)' : l \in Levs}
  OBVIOUS
<1>3. Everything = {Empty, mem, imm} \cup U /\ Everything' = {Empty, mem', imm'} \cup V
  BY <1>1, <1>2 DEF Everything
<1>4. /\ \A T : T \in U <=> \E l \in Levs : T \in TablesAt(l)
      /\ \A T : T \in V <=> \E l \in Levs : T \in TablesAt(l)'
  BY <1>1, <1>2
<1> QED
  BY <1>3, <1>4 DEF Known

\* Steps that put no table in the tree.
LEMMA QuietTyped ==
  ASSUME Shape, Typed, User \/ CallBegin \/ Caller \/ ManualDone
  PROVE  Typed'
<1>1. UNCHANGED <<level0, levels, comp>>
  BY DEF User, WriteOne, GetSnapshot, ReleaseSnapshot, SwitchMemTable, CallBegin, Caller,
         CallForce, CallFlushed, CallArm, ManualDone
<1>2. \A l : TablesAt(l)' = TablesAt(l)
  BY <1>1 DEF TablesAt
<1>3. calls \in Nat /\ MaxCalls \in Nat /\ LastSeq \in Nat
  BY BoundsAssumption DEF Typed, Shape, LastSeq
<1>4. calls' \in 0 .. MaxCalls
  <2>1. calls' = calls \/ (calls < MaxCalls /\ calls' = calls + 1)
    BY DEF User, WriteOne, GetSnapshot, ReleaseSnapshot, SwitchMemTable, CallBegin, Caller,
           CallForce, CallFlushed, CallArm, ManualDone
  <2> QED
    BY <1>3, <2>1 DEF Typed
<1>5. hasImm' \in BOOLEAN
  <2>1. hasImm' = hasImm \/ hasImm' = TRUE
    BY DEF User, WriteOne, GetSnapshot, ReleaseSnapshot, SwitchMemTable, Switch, CallBegin, Caller,
           CallForce, CallFlushed, CallArm, ManualDone
  <2> QED
    BY <2>1 DEF Typed
<1>6. (snapshots \subseteq 1 .. LastSeq)'
  <2>1. CASE GetSnapshot
    <3>1. snapshots' = snapshots \cup {LastSeq} /\ LastSeq > 0 /\ LastSeq' = LastSeq
      BY <2>1 DEF GetSnapshot, LastSeq
    <3> QED
      BY <1>3, <3>1 DEF Typed
  <2>2. CASE ~GetSnapshot
    <3>1. snapshots' \subseteq snapshots
      BY <2>2 DEF User, WriteOne, ReleaseSnapshot, SwitchMemTable, CallBegin, Caller,
                  CallForce, CallFlushed, CallArm, ManualDone
    <3>2. LastSeq' = LastSeq \/ LastSeq' = LastSeq + 1
      <4>1. written' = written \/ \E w \in Writes : written' = Append(written, w)
        BY <2>2 DEF User, WriteOne, ReleaseSnapshot, SwitchMemTable, CallBegin, Caller,
                    CallForce, CallFlushed, CallArm, ManualDone
      <4>2. written \in Seq(Writes)
        BY DEF Shape
      <4> QED
        BY <4>1, <4>2 DEF LastSeq
    <3> QED
      BY <1>3, <3>1, <3>2 DEF Typed
  <2> QED
    BY <2>1, <2>2
<1>7. \A T \in {mem', imm'} : T \in Known \/ Full(T)
  <2>1. ASSUME NEW w \in Writes, WriteOne(w) PROVE imm' = imm /\ Full(mem')
    <3>1. PICK n \in Seqs : n = LastSeq + 1
      BY <1>3, <2>1, KeysAssumption DEF WriteOne, Seqs
    <3>2. PICK M : M = mem
      OBVIOUS
    <3>3. mem' = AddTo(M, w, n) /\ imm' = imm /\ w \in Write
      BY <2>1, <3>1, <3>2, WritesAssumption DEF WriteOne
    <3>4. Full(M)
      BY <3>2, KnownAre DEF Typed
    <3>5. Sound(AddTo(M, w, n)) /\ AddTo(M, w, n).entries = M.entries \cup EntryOf(w, n)
      BY <3>3, <3>4, AddToSound, AddsTo DEF Full, Sound
    <3>6. \A e \in EntryOf(w, n) : e.val \in Seq(Seqs)
      <4>1. <<n>> \in Seq(Seqs) /\ <<>> \in Seq(Seqs)
        OBVIOUS
      <4>2. \A e \in EntryOf(w, n) : e.val = <<>> \/ e.val = <<n>>
        BY DEF EntryOf
      <4> QED
        BY <4>1, <4>2
    <3> QED
      BY <3>3, <3>4, <3>5, <3>6 DEF Full
  <2>2. CASE Switch
    BY <2>2, KnownAre DEF Switch
  <2>3. CASE UNCHANGED <<mem, imm>>
    BY <2>3, KnownAre
  <2>4. (\E w \in Writes : WriteOne(w)) \/ Switch \/ UNCHANGED <<mem, imm>>
    BY DEF User, GetSnapshot, ReleaseSnapshot, SwitchMemTable, CallBegin, Caller,
           CallForce, CallFlushed, CallArm, ManualDone
  <2> QED
    BY <2>1, <2>2, <2>3, <2>4, KnownAre
<1>8. \A T \in Known' : Full(T)
  BY <1>1, <1>2, <1>7, KnownAre DEF Typed
<1> QED
  BY <1>1, <1>4, <1>5, <1>6, <1>8 DEF Typed

\* A compaction of well-typed tables makes well-typed outputs.
LEMMA BeginFull ==
  ASSUME NEW l, NEW in0, NEW in1, Tabs(in0 \cup in1), \A T \in in0 \cup in1 : Full(T),
         BeginCompaction(l, in0, in1)
  PROVE  /\ comp'.level = l /\ comp'.in0 = in0 /\ comp'.in1 = in1 /\ comp'.busy = TRUE
         /\ \A T \in comp'.outs : Full(T)
<1>1. PICK C : C = in0 \cup in1
  OBVIOUS
<1>2. PICK D : D = Below(l)
  OBVIOUS
<1>3. PICK folds \in BOOLEAN, cuts \in SUBSET {e.key : e \in Ents(C)} :
        comp' = [level |-> l, in0 |-> in0, in1 |-> in1,
                 outs |-> Outputs(CompactEntries(Ents(C), Tombs(C), snapshots, D, folds),
                                  KeptTombs(Tombs(C), snapshots, D), cuts), busy |-> TRUE]
  BY <1>1, <1>2 DEF BeginCompaction, CutsFor, Ents, Tombs
<1>4. PICK new : new = CompactEntries(Ents(C), Tombs(C), snapshots, D, folds)
  OBVIOUS
<1>5. PICK kept : kept = KeptTombs(Tombs(C), snapshots, D)
  OBVIOUS
<1>6. comp' = [level |-> l, in0 |-> in0, in1 |-> in1, outs |-> Outputs(new, kept, cuts), busy |-> TRUE]
  BY <1>3, <1>4, <1>5
<1>7. Tabs(comp'.outs)
  BY BeginMakes
<1>8. \A e \in new : e.val \in Seq(Seqs)
  <2>1. \A e \in Ents(C) : EntryLike(e) /\ e.val \in Seq(Seqs)
    BY <1>1 DEF Ents, Full, Sound
  <2> QED
    BY <1>4, <2>1, EntriesValues
<1>9. \A T \in comp'.outs : \A e \in T.entries : e \in new
  BY <1>6 DEF Outputs, Part
<1> QED
  BY <1>6, <1>7, <1>8, <1>9 DEF Full, Tabs

\* Types are kept in the background.
LEMMA BackgroundTyped ==
  ASSUME Shape, Typed, Flush \/ AutoCompaction \/ InstallCompaction \/ ManualCompaction
  PROVE  Typed'
<1>0. ManualCompaction =>
         /\ call.stage = "armed" /\ ManualTables # {}
         /\ UNCHANGED <<written, mem, imm, hasImm, level0, levels, snapshots, calls>>
  BY Zenon DEF ManualCompaction
<1>1. UNCHANGED <<written, snapshots, calls, mem>> /\ LastSeq' = LastSeq
  BY <1>0 DEF Flush, AutoCompaction, InstallCompaction, LastSeq
<1>2. hasImm' \in BOOLEAN /\ (imm' = imm \/ imm' = Empty)
  BY <1>0 DEF Flush, AutoCompaction, InstallCompaction, Typed
<1>3. ASSUME NEW l \in 0 .. NumLevels - 2, NEW in0, NEW in1, BeginCompaction(l, in0, in1),
             in0 \subseteq TablesAt(l), in1 \subseteq TablesAt(l + 1), UNCHANGED <<level0, levels>>
      PROVE  Typed'
  <2>1. l \in Levs /\ l + 1 \in Levs /\ \A m : TablesAt(m)' = TablesAt(m)
    BY <1>3, Levels0 DEF TablesAt
  <2>2. \A T \in in0 \cup in1 : T \in TablesAt(l) \/ T \in TablesAt(l + 1)
    BY <1>3
  <2>3. Tabs(in0 \cup in1)
    BY <2>1, <2>2 DEF Shape, Tabs
  <2>4. \A T \in in0 \cup in1 : Full(T)
    BY <2>1, <2>2, KnownAre DEF Typed
  <2>5. /\ comp'.level = l /\ comp'.in0 = in0 /\ comp'.in1 = in1 /\ comp'.busy = TRUE
        /\ \A T \in comp'.outs : Full(T)
    BY <1>3, <2>3, <2>4, BeginFull
  <2>6. \A T \in Known' : Full(T)
    BY <1>1, <1>2, <2>1, <2>4, <2>5, KnownAre DEF Typed
  <2> QED
    BY <1>1, <1>2, <2>5, <2>6 DEF Typed
<1>4. ASSUME \A l \in Levs : \A T \in TablesAt(l)' : T \in Known,
             comp' = comp \/ comp' = Idle
      PROVE  Typed'
  <2>1. comp'.busy \in BOOLEAN /\ comp'.level \in 0 .. NumLevels - 2
    <3>1. Idle.busy = FALSE /\ Idle.level = 0 /\ 0 \in 0 .. NumLevels - 2
      BY LevelsAssumption DEF Idle
    <3>2. comp.busy \in BOOLEAN /\ comp.level \in 0 .. NumLevels - 2
      BY DEF Typed
    <3>3. CASE comp' = comp
      BY <3>2, <3>3
    <3>4. CASE comp' = Idle
      BY <3>1, <3>4
    <3> QED
      BY <1>4, <3>3, <3>4
  <2>2. \A T : T \in comp'.in0 \/ T \in comp'.in1 \/ T \in comp'.outs => T \in Known
    BY <1>4, KnownAre DEF Idle
  <2>3. \A T \in Known' : T \in Known
    BY <1>1, <1>2, <1>4, <2>2, KnownAre
  <2> QED
    BY <1>1, <1>2, <2>1, <2>3 DEF Typed
<1>5. ASSUME NEW l \in 0 .. NumLevels - 2, NEW C0, NEW C1, NEW N, Replaced(l, C0, C1, N),
             \A T \in N : T \in Known, comp' = comp \/ comp' = Idle
      PROVE  Typed'
  <2>1. \A i \in Levs : \A T \in TablesAt(i)' : T \in TablesAt(i) \/ T \in N
    BY <1>5 DEF Replaced
  <2>2. \A i \in Levs : \A T \in TablesAt(i)' : T \in Known
    BY <1>5, <2>1, KnownAre
  <2> QED
    BY <1>4, <1>5, <2>2
<1>6. CASE Flush
  <2>1. \/ imm = Empty /\ \A l \in Levs : TablesAt(l)' = TablesAt(l)
        \/ \E f \in Levs : \A l \in Levs : TablesAt(l)' = IF l = f THEN TablesAt(l) \cup {imm}
                                                                  ELSE TablesAt(l)
    <3>1. CASE imm = Empty /\ UNCHANGED <<level0, levels>>
      BY <3>1 DEF TablesAt
    <3> QED
      BY <1>6, <3>1, FlushTree
  <2>2. \A l \in Levs : \A T \in TablesAt(l)' : T \in TablesAt(l) \/ T = imm
    BY <2>1
  <2>3. comp' = comp
    BY <1>6 DEF Flush
  <2> QED
    BY <1>4, <2>2, <2>3, KnownAre
<1>7. CASE AutoCompaction
  <2>1. PICK l \in 0 .. NumLevels - 2 : \E f \in TablesAt(l) :
        \E in \in Inputs(TablesAt(l), l, levels[l + 1], Picked(l, f)) :
           \/ /\ Cardinality(in[1]) = 1 /\ in[2] = {}
              /\ Replace(l, in[1], {}, in[1]) /\ comp' = comp
           \/ BeginCompaction(l, in[1], in[2]) /\ UNCHANGED <<level0, levels>>
    BY <1>7, AutoTakes
  <2>2. PICK f \in TablesAt(l) :
        \E in \in Inputs(TablesAt(l), l, levels[l + 1], Picked(l, f)) :
           \/ /\ Cardinality(in[1]) = 1 /\ in[2] = {}
              /\ Replace(l, in[1], {}, in[1]) /\ comp' = comp
           \/ BeginCompaction(l, in[1], in[2]) /\ UNCHANGED <<level0, levels>>
    BY <2>1
  <2>3. PICK in \in Inputs(TablesAt(l), l, levels[l + 1], Picked(l, f)) :
           \/ /\ Cardinality(in[1]) = 1 /\ in[2] = {}
              /\ Replace(l, in[1], {}, in[1]) /\ comp' = comp
           \/ BeginCompaction(l, in[1], in[2]) /\ UNCHANGED <<level0, levels>>
    BY <2>2
  <2>4. in[1] \subseteq TablesAt(l) /\ in[2] \subseteq TablesAt(l + 1) /\ l \in Levs
    BY PickedInputs, Levels0
  <2>5. CASE Replace(l, in[1], {}, in[1]) /\ comp' = comp
    <3>1. Replaced(l, in[1], {}, in[1])
      BY <2>5, ReplaceTree
    <3>2. \A T \in in[1] : T \in Known
      BY <2>4, KnownAre
    <3> QED
      BY <1>5, <2>5, <3>1, <3>2
  <2>6. CASE BeginCompaction(l, in[1], in[2]) /\ UNCHANGED <<level0, levels>>
    BY <1>3, <2>4, <2>6
  <2> QED
    BY <2>3, <2>5, <2>6
<1>8. CASE InstallCompaction
  <2>1. comp.busy /\ comp' = Idle /\ comp.level \in 0 .. NumLevels - 2
    BY <1>8 DEF InstallCompaction, Shape
  <2>2. Replaced(comp.level, comp.in0, comp.in1, comp.outs)
    BY <1>8, InstallShape
  <2>3. \A T \in comp.outs : T \in Known
    BY KnownAre
  <2> QED
    BY <1>5, <2>1, <2>2, <2>3
<1>9. CASE ManualCompaction
  <2>1. call.stage = "armed" /\ ManualTables # {} /\ UNCHANGED <<level0, levels>>
    BY <1>9, <1>0
  <2>2. PICK l : l = call.level
    OBVIOUS
  <2>3. PICK picked \in FirstOf(ManualTables) :
          \E in \in Inputs(TablesAt(l), l, levels[l + 1], picked) : BeginCompaction(l, in[1], in[2])
    BY <1>9, <2>2, Zenon DEF ManualCompaction
  <2>4. PICK in \in Inputs(TablesAt(l), l, levels[l + 1], picked) : BeginCompaction(l, in[1], in[2])
    BY <2>3, Zenon
  <2>5. l \in 0 .. NumLevels - 2 /\ in[1] \subseteq TablesAt(l) /\ in[2] \subseteq TablesAt(l + 1)
    BY <2>1, <2>2, ManualFits, InputsFit
  <2> QED
    BY <1>3, <2>1, <2>4, <2>5
<1> QED
  BY <1>6, <1>7, <1>8, <1>9

\* TypeOK of Levels, whoever writes when: tables and memtables hold entries and
\* tombstones of the keys and writes there are, values among them, and what is
\* captured by a compaction at work does so too (MemTable::Add, compact_group,
\* DoCompactionWork's cuts and clips).
THEOREM LevelsTypes == Spec => []TypeOK
<1>1. Init => Typed
  <2> SUFFICES ASSUME Init PROVE Typed
    OBVIOUS
  <2>1. \A l \in Levs : TablesAt(l) = {}
    BY Levels0 DEF Init, TablesAt, ToSet
  <2>2. \A T \in Known : T = Empty
    BY <2>1, KnownAre DEF Init, Idle
  <2>3. Full(Empty)
    BY EmptyIsSound DEF Full, Empty
  <2>4. calls \in 0 .. MaxCalls /\ hasImm \in BOOLEAN /\ snapshots \subseteq 1 .. LastSeq
    <3>1. calls = 0 /\ hasImm = FALSE /\ snapshots = {}
      BY DEF Init
    <3>2. 0 \in 0 .. MaxCalls
      BY BoundsAssumption
    <3> QED
      BY <3>1, <3>2
  <2>5. comp.busy \in BOOLEAN /\ comp.level \in 0 .. NumLevels - 2
    BY LevelsAssumption DEF Init, Idle
  <2> QED
    BY <2>2, <2>3, <2>4, <2>5 DEF Typed
<1>2. Shape /\ Typed /\ [Next]_vars => Typed'
  <2> SUFFICES ASSUME Shape, Typed, [Next]_vars PROVE Typed'
    OBVIOUS
  <2>1. CASE UNCHANGED vars
    <3>1. UNCHANGED <<written, mem, imm, hasImm, level0, levels, snapshots, comp, calls>>
      BY <2>1 DEF vars
    <3>2. Known' = Known /\ LastSeq' = LastSeq
      BY <3>1 DEF Known, Everything, TablesAt, LastSeq
    <3> QED
      BY <3>1, <3>2 DEF Typed
  <2> QED
    BY <2>1, QuietTyped, BackgroundTyped DEF Next, Background
<1>3. Shape /\ Typed => TypeOK
  <2> SUFFICES ASSUME Shape, Typed PROVE TypeOK
    OBVIOUS
  <2>1. \A T \in Known : TableOK(T)
    BY DEF Typed, Full, Sound, EntryLike, TableOK
  <2>2. \A T \in ToSet(level0) : T # Empty /\ TableOK(T)
    BY <2>1, KnownAre, Levels0 DEF Shape, Tabs
  <2>3. \A l \in Deeper : \A T \in levels[l] : T # Empty /\ TableOK(T)
    BY <2>1, KnownAre, Levels0 DEF Shape, Tabs
  <2>4. TableOK(mem) /\ TableOK(imm) /\ \A T \in comp.in0 \cup comp.in1 \cup comp.outs : TableOK(T)
    BY <2>1, KnownAre
  <2>5. DOMAIN levels = Deeper
    BY DEF Shape
  <2> QED
    BY <2>2, <2>3, <2>4, <2>5 DEF TypeOK, Typed, Shape
<1> QED
  BY <1>1, <1>2, <1>3, ShapeAlways, PTL DEF Spec
==============================================================================
