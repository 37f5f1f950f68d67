--------------------------- MODULE BenchRunnerProofs ---------------------------
(***************************************************************************)
(* Theorems of BenchRunner.  RunnerInv is inductive: what the generator    *)
(* keeps in its bounds, whatever numbers it draws (GenOk), what it knows   *)
(* of the model that follows it (Matches), and for each mode of the        *)
(* process which of the batches the model and the database have.           *)
(*                                                                         *)
(* Recursive functions are unrolled first: what replaying, batching or     *)
(* walking gives is the last of a series of values, each made from the one *)
(* before it; an argument about the series is then by induction (UpTo, or  *)
(* LeastElement of the numbers for which it would fail).                   *)
(***************************************************************************)
EXTENDS BenchRunner, WellOrder

------------------------------------------------------------------------------
(* Batches, replayed.                                                      *)

\* The models on the way through a batch.
LEMMA ReplayRuns ==
  ASSUME NEW m0, NEW ops, Len(ops) \in Nat
  PROVE  \E g : /\ g[0] = m0
                /\ \A i \in 1 .. Len(ops) : g[i] = Apply(g[i - 1], ops[i])
                /\ ReplayBatch(m0, ops) = g[Len(ops)]
<1> DEFINE Made(g, m) == g = [i \in 0 .. m |-> IF i = 0 THEN m0 ELSE Apply(g[i - 1], ops[i])]
           After[i \in 0 .. Len(ops)] == IF i = 0 THEN m0 ELSE Apply(After[i - 1], ops[i])
           Missing == {m \in Nat : ~\E g : Made(g, m)}
<1>1. Missing = {}
  <2> SUFFICES ASSUME Missing # {} PROVE FALSE
    OBVIOUS
  <2>1. PICK m \in Missing : \A k \in Missing : m <= k
    <3>1. Missing \in SUBSET Nat
      OBVIOUS
    <3> HIDE DEF Missing
    <3> QED
      BY <3>1, LeastElement
  <2>2. m \in Nat /\ ~\E g : Made(g, m)
    OBVIOUS
  <2>3. m # 0
    <3>1. Made([i \in 0 .. 0 |-> m0], 0)
      OBVIOUS
    <3> HIDE DEF Made
    <3> QED
      BY <2>2, <3>1
  <2>4. m - 1 \in Nat /\ m - 1 \notin Missing
    <3> HIDE DEF Missing
    <3> QED
      BY <2>1, <2>2, <2>3
  <2>5. PICK g : Made(g, m - 1)
    BY <2>4
  <2> DEFINE h == [i \in 0 .. m |-> IF i < m THEN g[i] ELSE Apply(g[m - 1], ops[m])]
  <2>6. ASSUME NEW i \in 0 .. m
        PROVE  h[i] = IF i = 0 THEN m0 ELSE Apply(h[i - 1], ops[i])
    <3>1. CASE i = m
      <4>1. h[i] = Apply(g[m - 1], ops[m]) /\ h[i - 1] = g[m - 1]
        BY <2>2, <2>3, <3>1
      <4> HIDE DEF h
      <4> QED
        BY <2>3, <3>1, <4>1
    <3>2. CASE i < m
      <4>1. i \in 0 .. m - 1 /\ (i # 0 => i - 1 \in 0 .. m /\ i - 1 < m)
        BY <2>2, <3>2
      <4>2. g[i] = IF i = 0 THEN m0 ELSE Apply(g[i - 1], ops[i])
        BY <2>5, <4>1
      <4>3. h[i] = g[i] /\ (i # 0 => h[i - 1] = g[i - 1])
        BY <3>2, <4>1
      <4> HIDE DEF h
      <4> QED
        BY <4>2, <4>3
    <3> QED
      BY <2>2, <3>1, <3>2
  <2>7. Made(h, m)
    <3>1. h = [i \in 0 .. m |-> h[i]]
      OBVIOUS
    <3> HIDE DEF h
    <3> QED
      BY <2>6, <3>1
  <2> HIDE DEF Made, h
  <2> QED
    BY <2>2, <2>7
<1>2. \E g : Made(g, Len(ops))
  BY <1>1
<1>3. ReplayBatch(m0, ops) = After[Len(ops)]
  BY DEF ReplayBatch
<1>4. After = [i \in 0 .. Len(ops) |-> IF i = 0 THEN m0 ELSE Apply(After[i - 1], ops[i])]
  <2>1. \E g : g = [i \in 0 .. Len(ops) |-> IF i = 0 THEN m0 ELSE Apply(g[i - 1], ops[i])]
    BY <1>2, Zenon
  <2> HIDE <1>1, <1>2, <1>3
  <2> QED
    BY <2>1, Zenon
<1> HIDE DEF After
<1>5. After[0] = m0
  <2>1. 0 \in 0 .. Len(ops)
    OBVIOUS
  <2> QED
    BY <1>4, <2>1, Zenon
<1>6. \A i \in 1 .. Len(ops) : After[i] = Apply(After[i - 1], ops[i])
  <2> TAKE i \in 1 .. Len(ops)
  <2>1. i \in 0 .. Len(ops) /\ i # 0
    OBVIOUS
  <2> QED
    BY <1>4, <2>1, Zenon
<1> QED
  BY <1>3, <1>5, <1>6, Zenon

\* The models on the way through the batches.
LEMMA ReplayAllRuns ==
  ASSUME NEW m0, NEW bs, NEW n \in Nat
  PROVE  \E g : /\ g[0] = m0
                /\ \A i \in 1 .. n : g[i] = ReplayBatch(g[i - 1], bs[i])
                /\ ReplayAll(m0, bs, n) = g[n]
<1> DEFINE Made(g, m) == g = [i \in 0 .. m |-> IF i = 0 THEN m0 ELSE ReplayBatch(g[i - 1], bs[i])]
           After[i \in 0 .. n] == IF i = 0 THEN m0 ELSE ReplayBatch(After[i - 1], bs[i])
           Missing == {m \in Nat : ~\E g : Made(g, m)}
<1>1. Missing = {}
  <2> SUFFICES ASSUME Missing # {} PROVE FALSE
    OBVIOUS
  <2>1. PICK m \in Missing : \A k \in Missing : m <= k
    <3>1. Missing \in SUBSET Nat
      OBVIOUS
    <3> HIDE DEF Missing
    <3> QED
      BY <3>1, LeastElement
  <2>2. m \in Nat /\ ~\E g : Made(g, m)
    OBVIOUS
  <2>3. m # 0
    <3>1. Made([i \in 0 .. 0 |-> m0], 0)
      OBVIOUS
    <3> HIDE DEF Made
    <3> QED
      BY <2>2, <3>1
  <2>4. m - 1 \in Nat /\ m - 1 \notin Missing
    <3> HIDE DEF Missing
    <3> QED
      BY <2>1, <2>2, <2>3
  <2>5. PICK g : Made(g, m - 1)
    BY <2>4
  <2> DEFINE h == [i \in 0 .. m |-> IF i < m THEN g[i] ELSE ReplayBatch(g[m - 1], bs[m])]
  <2>6. ASSUME NEW i \in 0 .. m
        PROVE  h[i] = IF i = 0 THEN m0 ELSE ReplayBatch(h[i - 1], bs[i])
    <3>1. CASE i = m
      <4>1. h[i] = ReplayBatch(g[m - 1], bs[m]) /\ h[i - 1] = g[m - 1]
        BY <2>2, <2>3, <3>1
      <4> HIDE DEF h
      <4> QED
        BY <2>3, <3>1, <4>1
    <3>2. CASE i < m
      <4>1. i \in 0 .. m - 1 /\ (i # 0 => i - 1 \in 0 .. m /\ i - 1 < m)
        BY <2>2, <3>2
      <4>2. g[i] = IF i = 0 THEN m0 ELSE ReplayBatch(g[i - 1], bs[i])
        BY <2>5, <4>1
      <4>3. h[i] = g[i] /\ (i # 0 => h[i - 1] = g[i - 1])
        BY <3>2, <4>1
      <4> HIDE DEF h
      <4> QED
        BY <4>2, <4>3
    <3> QED
      BY <2>2, <3>1, <3>2
  <2>7. Made(h, m)
    <3>1. h = [i \in 0 .. m |-> h[i]]
      OBVIOUS
    <3> HIDE DEF h
    <3> QED
      BY <2>6, <3>1
  <2> HIDE DEF Made, h
  <2> QED
    BY <2>2, <2>7
<1>2. \E g : Made(g, n)
  BY <1>1
<1>3. ReplayAll(m0, bs, n) = After[n]
  BY DEF ReplayAll
<1>4. After = [i \in 0 .. n |-> IF i = 0 THEN m0 ELSE ReplayBatch(After[i - 1], bs[i])]
  <2>1. \E g : g = [i \in 0 .. n |-> IF i = 0 THEN m0 ELSE ReplayBatch(g[i - 1], bs[i])]
    BY <1>2, Zenon
  <2> HIDE <1>1, <1>2, <1>3
  <2> QED
    BY <2>1, Zenon
<1> HIDE DEF After
<1>5. After[0] = m0
  <2>1. 0 \in 0 .. n
    OBVIOUS
  <2> QED
    BY <1>4, <2>1, Zenon
<1>6. \A i \in 1 .. n : After[i] = ReplayBatch(After[i - 1], bs[i])
  <2> TAKE i \in 1 .. n
  <2>1. i \in 0 .. n /\ i # 0
    OBVIOUS
  <2> QED
    BY <1>4, <2>1, Zenon
<1> QED
  BY <1>3, <1>5, <1>6, Zenon

\* The batches that come of one more operation of each of some batches.
Grows(kind, quota, X) == UNION {Grow(w, kind, quota, x) : x \in X}
Extends(ext, X) == UNION {Extend(w, ext, x) : x \in X}

\* The batches that come of fewer operations.
LEMMA BatchRuns ==
  ASSUME NEW g0, NEW n \in Nat, NEW quota, NEW kind
  PROVE  \E g : /\ g[0] = {[g |-> g0, ops |-> <<>>]}
                /\ \A i \in 1 .. n : g[i] = Grows(kind, quota, g[i - 1])
                /\ Batch(w, g0, n, quota, kind) = g[n]
<1> DEFINE Made(g, m) == g = [i \in 0 .. m |-> IF i = 0 THEN {[g |-> g0, ops |-> <<>>]}
                                              ELSE Grows(kind, quota, g[i - 1])]
           Grown[i \in 0 .. n] == IF i = 0 THEN {[g |-> g0, ops |-> <<>>]}
                                  ELSE Grows(kind, quota, Grown[i - 1])
           Missing == {m \in Nat : ~\E g : Made(g, m)}
<1>1. Missing = {}
  <2> SUFFICES ASSUME Missing # {} PROVE FALSE
    OBVIOUS
  <2>1. PICK m \in Missing : \A k \in Missing : m <= k
    <3>1. Missing \in SUBSET Nat
      OBVIOUS
    <3> HIDE DEF Missing
    <3> QED
      BY <3>1, LeastElement
  <2>2. m \in Nat /\ ~\E g : Made(g, m)
    OBVIOUS
  <2>3. m # 0
    <3>1. Made([i \in 0 .. 0 |-> {[g |-> g0, ops |-> <<>>]}], 0)
      OBVIOUS
    <3> HIDE DEF Made
    <3> QED
      BY <2>2, <3>1
  <2>4. m - 1 \in Nat /\ m - 1 \notin Missing
    <3> HIDE DEF Missing
    <3> QED
      BY <2>1, <2>2, <2>3
  <2>5. PICK g : Made(g, m - 1)
    BY <2>4
  <2> DEFINE h == [i \in 0 .. m |-> IF i < m THEN g[i] ELSE Grows(kind, quota, g[m - 1])]
  <2>6. ASSUME NEW i \in 0 .. m
        PROVE  h[i] = IF i = 0 THEN {[g |-> g0, ops |-> <<>>]} ELSE Grows(kind, quota, h[i - 1])
    <3>1. CASE i = m
      <4>1. h[i] = Grows(kind, quota, g[m - 1]) /\ h[i - 1] = g[m - 1]
        BY <2>2, <2>3, <3>1
      <4> HIDE DEF h
      <4> QED
        BY <2>3, <3>1, <4>1
    <3>2. CASE i < m
      <4>1. i \in 0 .. m - 1 /\ (i # 0 => i - 1 \in 0 .. m /\ i - 1 < m)
        BY <2>2, <3>2
      <4>2. g[i] = IF i = 0 THEN {[g |-> g0, ops |-> <<>>]} ELSE Grows(kind, quota, g[i - 1])
        BY <2>5, <4>1
      <4>3. h[i] = g[i] /\ (i # 0 => h[i - 1] = g[i - 1])
        BY <3>2, <4>1
      <4> HIDE DEF h
      <4> QED
        BY <4>2, <4>3
    <3> QED
      BY <2>2, <3>1, <3>2
  <2>7. Made(h, m)
    <3>1. h = [i \in 0 .. m |-> h[i]]
      OBVIOUS
    <3> HIDE DEF h
    <3> QED
      BY <2>6, <3>1
  <2> HIDE DEF Made, h
  <2> QED
    BY <2>2, <2>7
<1>2. \E g : Made(g, n)
  BY <1>1
<1>3. Batch(w, g0, n, quota, kind) = Grown[n]
  BY DEF Batch, Grows
<1>4. Grown = [i \in 0 .. n |->
                 IF i = 0 THEN {[g |-> g0, ops |-> <<>>]} ELSE Grows(kind, quota, Grown[i - 1])]
  <2>1. \E g : g = [i \in 0 .. n |->
                     IF i = 0 THEN {[g |-> g0, ops |-> <<>>]} ELSE Grows(kind, quota, g[i - 1])]
    BY <1>2, Zenon
  <2> HIDE <1>1, <1>2, <1>3
  <2> QED
    BY <2>1, Zenon
<1> HIDE DEF Grown
<1>5. Grown[0] = {[g |-> g0, ops |-> <<>>]}
  <2>1. 0 \in 0 .. n
    OBVIOUS
  <2> QED
    BY <1>4, <2>1, Zenon
<1>6. \A i \in 1 .. n : Grown[i] = Grows(kind, quota, Grown[i - 1])
  <2> TAKE i \in 1 .. n
  <2>1. i \in 0 .. n /\ i # 0
    OBVIOUS
  <2> QED
    BY <1>4, <2>1, Zenon
<1> QED
  BY <1>3, <1>5, <1>6, Zenon

\* The same of an appending batch.
LEMMA ExtendedRuns ==
  ASSUME NEW g0, NEW ext, w.batch \in Nat
  PROVE  \E g : /\ g[0] = {[g |-> g0, ops |-> <<>>]}
                /\ \A i \in 1 .. w.batch : g[i] = Extends(ext, g[i - 1])
                /\ Extended(w, g0, ext) = g[w.batch]
<1> DEFINE Made(g, m) ==
             g = [i \in 0 .. m |->
                    IF i = 0 THEN {[g |-> g0, ops |-> <<>>]} ELSE Extends(ext, g[i - 1])]
           Grown[i \in 0 .. w.batch] ==
             IF i = 0 THEN {[g |-> g0, ops |-> <<>>]} ELSE Extends(ext, Grown[i - 1])
           Missing == {m \in Nat : ~\E g : Made(g, m)}
<1>1. Missing = {}
  <2> SUFFICES ASSUME Missing # {} PROVE FALSE
    OBVIOUS
  <2>1. PICK m \in Missing : \A k \in Missing : m <= k
    <3>1. Missing \in SUBSET Nat
      OBVIOUS
    <3> HIDE DEF Missing
    <3> QED
      BY <3>1, LeastElement
  <2>2. m \in Nat /\ ~\E g : Made(g, m)
    OBVIOUS
  <2>3. m # 0
    <3>1. Made([i \in 0 .. 0 |-> {[g |-> g0, ops |-> <<>>]}], 0)
      OBVIOUS
    <3> HIDE DEF Made
    <3> QED
      BY <2>2, <3>1
  <2>4. m - 1 \in Nat /\ m - 1 \notin Missing
    <3> HIDE DEF Missing
    <3> QED
      BY <2>1, <2>2, <2>3
  <2>5. PICK g : Made(g, m - 1)
    BY <2>4
  <2> DEFINE h == [i \in 0 .. m |-> IF i < m THEN g[i] ELSE Extends(ext, g[m - 1])]
  <2>6. ASSUME NEW i \in 0 .. m
        PROVE  h[i] = IF i = 0 THEN {[g |-> g0, ops |-> <<>>]} ELSE Extends(ext, h[i - 1])
    <3>1. CASE i = m
      <4>1. h[i] = Extends(ext, g[m - 1]) /\ h[i - 1] = g[m - 1]
        BY <2>2, <2>3, <3>1
      <4> HIDE DEF h
      <4> QED
        BY <2>3, <3>1, <4>1
    <3>2. CASE i < m
      <4>1. i \in 0 .. m - 1 /\ (i # 0 => i - 1 \in 0 .. m /\ i - 1 < m)
        BY <2>2, <3>2
      <4>2. g[i] = IF i = 0 THEN {[g |-> g0, ops |-> <<>>]} ELSE Extends(ext, g[i - 1])
        BY <2>5, <4>1
      <4>3. h[i] = g[i] /\ (i # 0 => h[i - 1] = g[i - 1])
        BY <3>2, <4>1
      <4> HIDE DEF h
      <4> QED
        BY <4>2, <4>3
    <3> QED
      BY <2>2, <3>1, <3>2
  <2>7. Made(h, m)
    <3>1. h = [i \in 0 .. m |-> h[i]]
      OBVIOUS
    <3> HIDE DEF h
    <3> QED
      BY <2>6, <3>1
  <2> HIDE DEF Made, h
  <2> QED
    BY <2>2, <2>7
<1>2. \E g : Made(g, w.batch)
  BY <1>1
<1>3. Extended(w, g0, ext) = Grown[w.batch]
  BY DEF Extended, Extends
<1>4. Grown = [i \in 0 .. w.batch |->
                 IF i = 0 THEN {[g |-> g0, ops |-> <<>>]} ELSE Extends(ext, Grown[i - 1])]
  <2>1. \E g : g = [i \in 0 .. w.batch |->
                     IF i = 0 THEN {[g |-> g0, ops |-> <<>>]} ELSE Extends(ext, g[i - 1])]
    BY <1>2, Zenon
  <2> HIDE <1>1, <1>2, <1>3
  <2> QED
    BY <2>1, Zenon
<1> HIDE DEF Grown
<1>5. Grown[0] = {[g |-> g0, ops |-> <<>>]}
  <2>1. 0 \in 0 .. w.batch
    OBVIOUS
  <2> QED
    BY <1>4, <2>1, Zenon
<1>6. \A i \in 1 .. w.batch : Grown[i] = Extends(ext, Grown[i - 1])
  <2> TAKE i \in 1 .. w.batch
  <2>1. i \in 0 .. w.batch /\ i # 0
    OBVIOUS
  <2> QED
    BY <1>4, <2>1, Zenon
<1> QED
  BY <1>3, <1>5, <1>6, Zenon

\* The walks of the model, upwards and downwards.
Up(ver, x) == IF x \in DOMAIN ver THEN NextLive(ver, x + 1) ELSE x
Down(ver, x) == IF x > 0 THEN PrevLive(ver, x - 1) ELSE -1

WalksUp(g, ver, from, n) ==
  /\ g[0] = NextLive(ver, from)
  /\ \A i \in 1 .. n : g[i] = Up(ver, g[i - 1])
  /\ Expected(ver, from, n) = [i \in {j \in 1 .. n : g[j - 1] \in DOMAIN ver} |-> g[i - 1]]
WalksDown(g, ver, from, n) ==
  /\ g[0] = PrevLive(ver, from)
  /\ \A i \in 1 .. n : g[i] = Down(ver, g[i - 1])
  /\ ExpectedBack(ver, from, n) = [i \in {j \in 1 .. n : g[j - 1] \in DOMAIN ver} |-> g[i - 1]]

\* There is a walk upwards.
LEMMA ExpectedRuns ==
  ASSUME NEW ver, NEW from, NEW n \in Nat
  PROVE  \E g : WalksUp(g, ver, from, n)
<1> DEFINE Made(g, m) == g = [i \in 0 .. m |-> IF i = 0 THEN NextLive(ver, from) ELSE Up(ver, g[i - 1])]
           At[i \in 0 .. n] == IF i = 0 THEN NextLive(ver, from) ELSE Up(ver, At[i - 1])
           Missing == {m \in Nat : ~\E g : Made(g, m)}
<1>1. Missing = {}
  <2> SUFFICES ASSUME Missing # {} PROVE FALSE
    OBVIOUS
  <2>1. PICK m \in Missing : \A k \in Missing : m <= k
    <3>1. Missing \in SUBSET Nat
      OBVIOUS
    <3> HIDE DEF Missing
    <3> QED
      BY <3>1, LeastElement
  <2>2. m \in Nat /\ ~\E g : Made(g, m)
    OBVIOUS
  <2>3. m # 0
    <3>1. Made([i \in 0 .. 0 |-> NextLive(ver, from)], 0)
      OBVIOUS
    <3> HIDE DEF Made
    <3> QED
      BY <2>2, <3>1
  <2>4. m - 1 \in Nat /\ m - 1 \notin Missing
    <3> HIDE DEF Missing
    <3> QED
      BY <2>1, <2>2, <2>3
  <2>5. PICK g : Made(g, m - 1)
    BY <2>4
  <2> DEFINE h == [i \in 0 .. m |-> IF i < m THEN g[i] ELSE Up(ver, g[m - 1])]
  <2>6. ASSUME NEW i \in 0 .. m
        PROVE  h[i] = IF i = 0 THEN NextLive(ver, from) ELSE Up(ver, h[i - 1])
    <3>1. CASE i = m
      <4>1. h[i] = Up(ver, g[m - 1]) /\ h[i - 1] = g[m - 1]
        BY <2>2, <2>3, <3>1
      <4> HIDE DEF h
      <4> QED
        BY <2>3, <3>1, <4>1
    <3>2. CASE i < m
      <4>1. i \in 0 .. m - 1 /\ (i # 0 => i - 1 \in 0 .. m /\ i - 1 < m)
        BY <2>2, <3>2
      <4>2. g[i] = IF i = 0 THEN NextLive(ver, from) ELSE Up(ver, g[i - 1])
        BY <2>5, <4>1
      <4>3. h[i] = g[i] /\ (i # 0 => h[i - 1] = g[i - 1])
        BY <3>2, <4>1
      <4> HIDE DEF h
      <4> QED
        BY <4>2, <4>3
    <3> QED
      BY <2>2, <3>1, <3>2
  <2>7. Made(h, m)
    <3>1. h = [i \in 0 .. m |-> h[i]]
      OBVIOUS
    <3> HIDE DEF h
    <3> QED
      BY <2>6, <3>1
  <2> HIDE DEF Made, h
  <2> QED
    BY <2>2, <2>7
<1>2. \E g : Made(g, n)
  BY <1>1
<1>3. Expected(ver, from, n) = [i \in {j \in 1 .. n : At[j - 1] \in DOMAIN ver} |-> At[i - 1]]
  BY DEF Expected, Up
<1>4. At = [i \in 0 .. n |-> IF i = 0 THEN NextLive(ver, from) ELSE Up(ver, At[i - 1])]
  <2>1. \E g : g = [i \in 0 .. n |-> IF i = 0 THEN NextLive(ver, from) ELSE Up(ver, g[i - 1])]
    BY <1>2, Zenon
  <2> HIDE <1>1, <1>2, <1>3
  <2> QED
    BY <2>1, Zenon
<1> HIDE DEF At
<1>5. At[0] = NextLive(ver, from)
  <2>1. 0 \in 0 .. n
    OBVIOUS
  <2> QED
    BY <1>4, <2>1, Zenon
<1>6. \A i \in 1 .. n : At[i] = Up(ver, At[i - 1])
  <2> TAKE i \in 1 .. n
  <2>1. i \in 0 .. n /\ i # 0
    OBVIOUS
  <2> QED
    BY <1>4, <2>1, Zenon
<1> QED
  BY <1>3, <1>5, <1>6, Zenon DEF WalksUp

\* And downwards.
LEMMA ExpectedBackRuns ==
  ASSUME NEW ver, NEW from, NEW n \in Nat
  PROVE  \E g : WalksDown(g, ver, from, n)
<1> DEFINE Made(g, m) == g = [i \in 0 .. m |-> IF i = 0 THEN PrevLive(ver, from) ELSE Down(ver, g[i - 1])]
           At[i \in 0 .. n] == IF i = 0 THEN PrevLive(ver, from) ELSE Down(ver, At[i - 1])
           Missing == {m \in Nat : ~\E g : Made(g, m)}
<1>1. Missing = {}
  <2> SUFFICES ASSUME Missing # {} PROVE FALSE
    OBVIOUS
  <2>1. PICK m \in Missing : \A k \in Missing : m <= k
    <3>1. Missing \in SUBSET Nat
      OBVIOUS
    <3> HIDE DEF Missing
    <3> QED
      BY <3>1, LeastElement
  <2>2. m \in Nat /\ ~\E g : Made(g, m)
    OBVIOUS
  <2>3. m # 0
    <3>1. Made([i \in 0 .. 0 |-> PrevLive(ver, from)], 0)
      OBVIOUS
    <3> HIDE DEF Made
    <3> QED
      BY <2>2, <3>1
  <2>4. m - 1 \in Nat /\ m - 1 \notin Missing
    <3> HIDE DEF Missing
    <3> QED
      BY <2>1, <2>2, <2>3
  <2>5. PICK g : Made(g, m - 1)
    BY <2>4
  <2> DEFINE h == [i \in 0 .. m |-> IF i < m THEN g[i] ELSE Down(ver, g[m - 1])]
  <2>6. ASSUME NEW i \in 0 .. m
        PROVE  h[i] = IF i = 0 THEN PrevLive(ver, from) ELSE Down(ver, h[i - 1])
    <3>1. CASE i = m
      <4>1. h[i] = Down(ver, g[m - 1]) /\ h[i - 1] = g[m - 1]
        BY <2>2, <2>3, <3>1
      <4> HIDE DEF h
      <4> QED
        BY <2>3, <3>1, <4>1
    <3>2. CASE i < m
      <4>1. i \in 0 .. m - 1 /\ (i # 0 => i - 1 \in 0 .. m /\ i - 1 < m)
        BY <2>2, <3>2
      <4>2. g[i] = IF i = 0 THEN PrevLive(ver, from) ELSE Down(ver, g[i - 1])
        BY <2>5, <4>1
      <4>3. h[i] = g[i] /\ (i # 0 => h[i - 1] = g[i - 1])
        BY <3>2, <4>1
      <4> HIDE DEF h
      <4> QED
        BY <4>2, <4>3
    <3> QED
      BY <2>2, <3>1, <3>2
  <2>7. Made(h, m)
    <3>1. h = [i \in 0 .. m |-> h[i]]
      OBVIOUS
    <3> HIDE DEF h
    <3> QED
      BY <2>6, <3>1
  <2> HIDE DEF Made, h
  <2> QED
    BY <2>2, <2>7
<1>2. \E g : Made(g, n)
  BY <1>1
<1>3. ExpectedBack(ver, from, n) = [i \in {j \in 1 .. n : At[j - 1] \in DOMAIN ver} |-> At[i - 1]]
  BY DEF ExpectedBack, Down
<1>4. At = [i \in 0 .. n |-> IF i = 0 THEN PrevLive(ver, from) ELSE Down(ver, At[i - 1])]
  <2>1. \E g : g = [i \in 0 .. n |-> IF i = 0 THEN PrevLive(ver, from) ELSE Down(ver, g[i - 1])]
    BY <1>2, Zenon
  <2> HIDE <1>1, <1>2, <1>3
  <2> QED
    BY <2>1, Zenon
<1> HIDE DEF At
<1>5. At[0] = PrevLive(ver, from)
  <2>1. 0 \in 0 .. n
    OBVIOUS
  <2> QED
    BY <1>4, <2>1, Zenon
<1>6. \A i \in 1 .. n : At[i] = Down(ver, At[i - 1])
  <2> TAKE i \in 1 .. n
  <2>1. i \in 0 .. n /\ i # 0
    OBVIOUS
  <2> QED
    BY <1>4, <2>1, Zenon
<1> QED
  BY <1>3, <1>5, <1>6, Zenon DEF WalksDown

------------------------------------------------------------------------------
(* The generator: what it keeps in bounds.                                 *)

\* The numbers of a workload's shape.
LEMMA Shape ==
  ASSUME w \in Workloads
  PROVE  /\ w.load \in Nat /\ w.insert \in Nat /\ w.hot \in Nat /\ w.updates \in Nat /\ w.deletes \in Nat
         /\ w.mixed \in Nat /\ w.mixedNew \in Nat /\ w.window \in Nat /\ w.lag \in Nat /\ w.burst \in Nat
         /\ w.reopenAt \in Nat /\ w.maxBatches \in Nat /\ w.batch \in Nat \ {0}
         /\ w.dels \in BOOLEAN /\ w.snapshots \in BOOLEAN
         /\ w.universe \in Nat \ {0} /\ DelRange(w) \in Nat
         /\ w.dist # "append" => w.load \in 1 .. w.universe
         /\ w.dist = "append" => w.universe = w.updates /\ w.load = 0 /\ 2 * w.batch <= OpsMax
         /\ w.dist = "bimodal" => w.hot \in 1 .. w.load
         /\ w.dist = "hot" => w.scattered \subseteq 0 .. w.load - 1
         /\ w.dist = "mixed" =>
              /\ w.insert > 0 /\ w.mixed > 0 /\ w.hot > 0
              /\ w.hot < w.load + w.insert /\ DelRange(w) < w.load + w.insert
              /\ w.batch <= w.mixedNew + 2
              /\ w.universe = w.load + w.insert + w.mixedNew
              /\ w.perm \in [0 .. w.insert - 1 -> 0 .. w.insert - 1]
         /\ w.dist # "mixed" => w.insert = 0 /\ w.deletes = 0 /\ w.mixed = 0
<1>1. Shaped(w)
  BY RunnerAssumption
<1>2. /\ w.load \in Nat /\ w.insert \in Nat /\ w.hot \in Nat /\ w.updates \in Nat /\ w.deletes \in Nat
      /\ w.mixed \in Nat /\ w.mixedNew \in Nat /\ w.window \in Nat /\ w.lag \in Nat /\ w.burst \in Nat
      /\ w.reopenAt \in Nat /\ w.maxBatches \in Nat /\ w.batch \in Nat \ {0}
      /\ w.dels \in BOOLEAN /\ w.snapshots \in BOOLEAN
  BY <1>1 DEF Shaped
<1>3. DelRange(w) \in Nat
  BY <1>2 DEF DelRange
<1>4. /\ w.universe = Universe(w)
      /\ w.dist = "append" <=> w.load = 0
      /\ w.dist = "append" => w.updates > 0
  BY <1>1 DEF Shaped
<1>5. /\ w.universe \in Nat \ {0}
      /\ w.dist # "append" => w.load \in 1 .. w.universe
      /\ w.dist = "append" => w.universe = w.updates /\ w.load = 0
      /\ w.dist = "mixed" => w.universe = w.load + w.insert + w.mixedNew
  BY <1>2, <1>4 DEF Universe
<1> QED
  BY <1>1, <1>2, <1>3, <1>5 DEF Shaped

\* What a step of the generator may hold.
Operation == [del : BOOLEAN, id : Ids]
Gen == [phase : Nat, sub : Nat, inPhase : Nat, maxWritten : Nat, hotLo : Nat, delLo : Nat,
        delNext : Nat, mixedNew : Nat, head : Nat, purged : Nat, cursor : Nat,
        burstLeft : Nat, lullLeft : Nat, didRead : BOOLEAN, pendingRead : Nat,
        snapPending : BOOLEAN, snapCheckAt : Nat, snapTakenAt : Int]

\* The ranges that ids are drawn from lie in the universe.
InBounds(g) ==
  /\ g \in Gen
  /\ g.maxWritten <= w.universe
  /\ w.hot > 0 => g.hotLo + w.hot <= w.load + w.insert
  /\ w.deletes > 0 => g.delLo + DelRange(w) < w.load + w.insert
  /\ g.phase <= Len(Phases(w))
  /\ w.dist = "append" => g.head <= w.universe /\ g.purged <= g.head

\* h is g but for what the operations of a batch are drawn by.
Alike(g, h) ==
  /\ h.phase = g.phase /\ h.inPhase = g.inPhase /\ h.hotLo = g.hotLo /\ h.delLo = g.delLo
  /\ h.purged = g.purged /\ h.burstLeft = g.burstLeft /\ h.lullLeft = g.lullLeft
  /\ h.didRead = g.didRead /\ h.pendingRead = g.pendingRead
  /\ h.snapPending = g.snapPending /\ h.snapCheckAt = g.snapCheckAt /\ h.snapTakenAt = g.snapTakenAt

\* An operation y, with the generator after it.
Fits(g, y) ==
  /\ y.op \in Operation /\ InBounds(y.g) /\ Alike(g, y.g) /\ y.g.sub = g.sub
  /\ w.dist \notin {"bimodal", "append"} => y.g.head = g.head

\* The fields of a generator.
LEMMA Fields ==
  ASSUME NEW g \in Gen
  PROVE  /\ g.phase \in Nat /\ g.sub \in Nat /\ g.inPhase \in Nat /\ g.maxWritten \in Nat
         /\ g.hotLo \in Nat /\ g.delLo \in Nat /\ g.delNext \in Nat /\ g.mixedNew \in Nat
         /\ g.head \in Nat /\ g.purged \in Nat /\ g.cursor \in Nat
         /\ g.burstLeft \in Nat /\ g.lullLeft \in Nat /\ g.pendingRead \in Nat
         /\ g.didRead \in BOOLEAN /\ g.snapPending \in BOOLEAN
BY DEF Gen

\* The universe and the ranges in it.
LEMMA Sizes ==
  ASSUME w \in Workloads
  PROVE  /\ w.universe \in Nat \ {0} /\ Ids = 0 .. w.universe - 1
         /\ w.load \in Nat /\ w.insert \in Nat /\ w.hot \in Nat
         /\ w.dist \in {"mixed", "bimodal"} => w.hot > 0 /\ w.load + w.insert <= w.universe
         /\ w.dist # "append" => w.load > 0 /\ w.load <= w.universe
         /\ w.dist = "mixed" => w.mixed \in Nat \ {0} /\ w.load + w.insert > 0
<1>1. w.universe \in Nat \ {0} /\ w.load \in Nat /\ w.insert \in Nat /\ w.hot \in Nat
  BY Shape
<1>2. w.dist # "append" => w.load > 0 /\ w.load <= w.universe
  BY <1>1, Shape
<1>3. w.dist = "mixed" => /\ w.hot > 0 /\ w.mixed \in Nat \ {0} /\ w.insert > 0
                          /\ w.load + w.insert <= w.universe
  <2>1. w.mixed \in Nat /\ w.mixedNew \in Nat
    BY Shape
  <2>2. w.dist = "mixed" => /\ w.insert > 0 /\ w.mixed > 0 /\ w.hot > 0
                            /\ w.universe = w.load + w.insert + w.mixedNew
    BY Shape
  <2> QED
    BY <1>1, <2>1, <2>2
<1>4. w.dist = "bimodal" => w.hot > 0 /\ w.load + w.insert <= w.universe
  <2>1. w.dist = "bimodal" => w.dist # "mixed" /\ w.dist # "append" /\ w.hot \in 1 .. w.load
    BY Shape
  <2>2. w.dist # "mixed" => w.insert = 0
    BY Shape
  <2> QED
    BY <1>1, <1>2, <2>1, <2>2
<1> QED
  BY <1>1, <1>2, <1>3, <1>4 DEF Ids

\* AddPut and AddDel of an id in the universe.
LEMMA AddFits ==
  ASSUME w \in Workloads, NEW g, InBounds(g), NEW id \in Ids
  PROVE  Fits(g, AddPut(g, id)) /\ Fits(g, AddDel(g, id))
<1>1. id \in Nat /\ id + 1 <= w.universe /\ g \in Gen /\ g.maxWritten \in Nat
  BY Sizes, Fields DEF InBounds
<1> DEFINE m == IF id + 1 > g.maxWritten THEN id + 1 ELSE g.maxWritten
           h == [g EXCEPT !.maxWritten = m]
<1>2. m \in Nat /\ m <= w.universe
  BY <1>1 DEF InBounds
<1>3. AddPut(g, id) = [g |-> h, op |-> [del |-> FALSE, id |-> id]]
  BY DEF AddPut
<1> HIDE DEF m
<1>4. h \in Gen /\ h.maxWritten = m /\ h.head = g.head /\ h.sub = g.sub /\ Alike(g, h)
  BY <1>1, <1>2 DEF Gen, Alike
<1>5. InBounds(h)
  BY <1>2, <1>4 DEF InBounds, Alike
<1>6. Alike(g, g)
  BY DEF Alike
<1>7. Fits(g, AddDel(g, id))
  BY <1>6 DEF Fits, AddDel, Operation
<1> HIDE DEF h
<1>8. Fits(g, AddPut(g, id))
  BY <1>3, <1>4, <1>5 DEF Fits, Operation
<1> QED
  BY <1>7, <1>8

\* Ids that are drawn lie in the universe.
LEMMA DrawnIds ==
  ASSUME w \in Workloads, NEW g, InBounds(g)
  PROVE  /\ ExistingId(g) \subseteq Ids /\ ExistingId(g) # {}
         /\ w.dist \in {"mixed", "bimodal"} => HotId(w, g) \subseteq Ids /\ HotId(w, g) # {}
         /\ w.dist = "mixed" => WindowId(w, g) \subseteq Ids
         /\ w.dist \notin {"mixed", "append"} => WriteId(w, g) \subseteq Ids /\ WriteId(w, g) # {}
<1>1. g \in Gen /\ g.maxWritten \in Nat /\ g.hotLo \in Nat /\ g.sub \in Nat /\ g.cursor \in Nat
  BY Fields DEF InBounds
<1>2. ExistingId(g) \subseteq Ids /\ ExistingId(g) # {}
  <2>1. w.universe \in Nat \ {0} /\ Ids = 0 .. w.universe - 1 /\ g.maxWritten <= w.universe
    BY Sizes DEF InBounds
  <2> QED
    BY <1>1, <2>1 DEF ExistingId, Below
<1>3. ASSUME w.dist \in {"mixed", "bimodal"}
      PROVE  HotId(w, g) \subseteq Ids /\ HotId(w, g) # {}
  <2>1. /\ w.hot \in Nat \ {0} /\ g.hotLo + w.hot <= w.load + w.insert
        /\ w.load + w.insert <= w.universe /\ w.universe \in Nat
    BY <1>3, Sizes DEF InBounds
  <2>2. HotId(w, g) = {g.hotLo + i : i \in 0 .. w.hot - 1}
    BY <2>1 DEF HotId, Below
  <2>3. g.hotLo + 0 \in HotId(w, g)
    BY <2>1, <2>2
  <2>4. \A i \in 0 .. w.hot - 1 : g.hotLo + i \in 0 .. w.universe - 1
    <3>1. w.load \in Nat /\ w.insert \in Nat
      BY Sizes
    <3> QED
      BY <1>1, <2>1, <3>1
  <2> QED
    BY <2>2, <2>3, <2>4 DEF Ids
<1>4. ASSUME w.dist = "mixed"
      PROVE  WindowId(w, g) \subseteq Ids
  <2> DEFINE span == w.load + w.insert
             start == (g.hotLo + (g.sub * span) \div w.mixed) % span
  <2>1. /\ span \in Nat \ {0} /\ span <= w.universe /\ w.universe \in Nat
        /\ w.hot \in Nat /\ w.mixed \in Nat \ {0}
    <3>1. w.dist \in {"mixed", "bimodal"} /\ w.dist # "append"
      BY <1>4
    <3>2. /\ w.load + w.insert <= w.universe /\ w.load > 0
          /\ w.load \in Nat /\ w.insert \in Nat /\ w.universe \in Nat
      BY <3>1, Sizes
    <3>3. w.hot \in Nat /\ w.mixed \in Nat \ {0}
      BY <1>4, Sizes
    <3> QED
      BY <3>2, <3>3
  <2>2. WindowId(w, g) = {(start + i) % span : i \in Below(w.hot \div 2 + 1)}
    BY DEF WindowId
  <2> HIDE DEF span
  <2>3. g.sub * span \in Nat
    BY <1>1, <2>1
  <2>4. (g.sub * span) \div w.mixed \in Nat
    BY <2>1, <2>3
  <2>5. start \in Nat
    BY <1>1, <2>1, <2>4
  <2> HIDE DEF start
  <2>6. \A i \in Below(w.hot \div 2 + 1) : i \in Nat
    BY <2>1 DEF Below
  <2>7. \A i \in Nat : (start + i) % span \in 0 .. span - 1
    BY <2>1, <2>5
  <2> QED
    BY <2>1, <2>2, <2>6, <2>7 DEF Ids
<1>5. ASSUME w.dist \notin {"mixed", "append"}
      PROVE  WriteId(w, g) \subseteq Ids /\ WriteId(w, g) # {}
  <2>1. w.load \in 1 .. w.universe /\ w.universe \in Nat \ {0} /\ w.load \in Nat \ {0}
    BY <1>5, Sizes
  <2>2. Below(w.load) = 0 .. w.load - 1 /\ Below(w.universe) = 0 .. w.universe - 1
    BY <2>1 DEF Below
  <2>3. g.cursor % w.load \in 0 .. w.load - 1
    BY <1>1, <2>1
  <2>4. w.dist = "hot" => ScatterHotId(w) \subseteq 0 .. w.load - 1
    BY Shape DEF ScatterHotId
  <2> QED
    BY <1>5, <2>1, <2>2, <2>3, <2>4 DEF WriteId, Ids
<1> QED
  BY <1>2, <1>3, <1>4, <1>5

\* When operations of a kind are drawn.
Drawable(kind, g) ==
  \/ kind = "load" /\ g.sub < w.load
  \/ kind = "insert" /\ w.dist = "mixed" /\ g.sub < w.insert
  \/ kind \in {"update", "delete", "mixed", "extend"} /\ w.dist = "mixed"
  \/ kind = "purge" /\ w.dist = "mixed" /\ g.delNext < w.universe
  \/ kind = "other" /\ w.dist \notin {"mixed", "append"}

\* An id put or deleted out of a set of them.
LEMMA PutsFit ==
  ASSUME w \in Workloads, NEW g, InBounds(g), NEW S \in SUBSET Ids
  PROVE  /\ \A y \in Puts(g, S) : Fits(g, y)
         /\ \A y \in Dels(g, S) : Fits(g, y)
         /\ S # {} => Puts(g, S) # {} /\ Dels(g, S) # {}
<1>1. \A id \in S : Fits(g, AddPut(g, id)) /\ Fits(g, AddDel(g, id))
  BY AddFits
<1> QED
  BY <1>1 DEF Puts, Dels

\* The operations that also move the generator on.
LEMMA StepsOn ==
  ASSUME w \in Workloads, NEW g, InBounds(g), NEW id \in Ids
  PROVE  /\ Fits(g, [AddDel(g, id) EXCEPT !.g.delNext = @ + 1])
         /\ [AddDel(g, id) EXCEPT !.g.delNext = @ + 1].g.delNext = g.delNext + 1
         /\ Fits(g, [AddPut(g, id) EXCEPT !.g.mixedNew = @ + 1])
         /\ w.dist = "bimodal" => Fits(g, [AddPut(g, id) EXCEPT !.g.head = @ + 1])
         /\ Fits(g, [AddPut(g, id) EXCEPT !.g.cursor = @ + 1])
<1>1. Fits(g, AddPut(g, id)) /\ Fits(g, AddDel(g, id))
  BY AddFits
<1> DEFINE h == [g EXCEPT !.maxWritten = IF id + 1 > g.maxWritten THEN id + 1 ELSE g.maxWritten]
           p == [del |-> FALSE, id |-> id]
           d == [del |-> TRUE, id |-> id]
<1>2. AddPut(g, id) = [g |-> h, op |-> p] /\ AddDel(g, id) = [g |-> g, op |-> d]
  BY DEF AddPut, AddDel
<1> HIDE DEF h, p, d
<1>3. /\ [AddDel(g, id) EXCEPT !.g.delNext = @ + 1] = [g |-> [g EXCEPT !.delNext = @ + 1], op |-> d]
      /\ [AddPut(g, id) EXCEPT !.g.mixedNew = @ + 1] = [g |-> [h EXCEPT !.mixedNew = @ + 1], op |-> p]
      /\ [AddPut(g, id) EXCEPT !.g.head = @ + 1] = [g |-> [h EXCEPT !.head = @ + 1], op |-> p]
      /\ [AddPut(g, id) EXCEPT !.g.cursor = @ + 1] = [g |-> [h EXCEPT !.cursor = @ + 1], op |-> p]
  BY <1>2
<1>4. /\ g \in Gen /\ h \in Gen /\ Alike(g, h) /\ h.sub = g.sub /\ InBounds(h) /\ InBounds(g)
      /\ p \in Operation /\ d \in Operation
      /\ w.dist \notin {"bimodal", "append"} => h.head = g.head
  BY <1>1, <1>2 DEF Fits, InBounds
<1>5. ASSUME NEW u, u \in Gen, InBounds(u), Alike(g, u), u.sub = g.sub,
             w.dist \notin {"bimodal", "append"} => u.head = g.head
      PROVE  /\ /\ InBounds([u EXCEPT !.delNext = @ + 1]) /\ Alike(g, [u EXCEPT !.delNext = @ + 1])
                /\ [u EXCEPT !.delNext = @ + 1].sub = g.sub
                /\ [u EXCEPT !.delNext = @ + 1].head = u.head
             /\ /\ InBounds([u EXCEPT !.mixedNew = @ + 1]) /\ Alike(g, [u EXCEPT !.mixedNew = @ + 1])
                /\ [u EXCEPT !.mixedNew = @ + 1].sub = g.sub
                /\ [u EXCEPT !.mixedNew = @ + 1].head = u.head
             /\ /\ w.dist # "append" => InBounds([u EXCEPT !.head = @ + 1])
                /\ Alike(g, [u EXCEPT !.head = @ + 1])
                /\ [u EXCEPT !.head = @ + 1].sub = g.sub
             /\ /\ InBounds([u EXCEPT !.cursor = @ + 1]) /\ Alike(g, [u EXCEPT !.cursor = @ + 1])
                /\ [u EXCEPT !.cursor = @ + 1].sub = g.sub
                /\ [u EXCEPT !.cursor = @ + 1].head = u.head
  <2>1. /\ [u EXCEPT !.delNext = @ + 1] \in Gen /\ [u EXCEPT !.mixedNew = @ + 1] \in Gen
        /\ [u EXCEPT !.head = @ + 1] \in Gen /\ [u EXCEPT !.cursor = @ + 1] \in Gen
    BY <1>5 DEF Gen
  <2>2. InBounds([u EXCEPT !.delNext = @ + 1]) /\ Alike(g, [u EXCEPT !.delNext = @ + 1])
    BY <1>5, <2>1 DEF InBounds, Alike, Gen
  <2>3. InBounds([u EXCEPT !.mixedNew = @ + 1]) /\ Alike(g, [u EXCEPT !.mixedNew = @ + 1])
    BY <1>5, <2>1 DEF InBounds, Alike, Gen
  <2>4. /\ w.dist # "append" => InBounds([u EXCEPT !.head = @ + 1])
        /\ Alike(g, [u EXCEPT !.head = @ + 1])
    BY <1>5, <2>1 DEF InBounds, Alike, Gen
  <2>5. InBounds([u EXCEPT !.cursor = @ + 1]) /\ Alike(g, [u EXCEPT !.cursor = @ + 1])
    BY <1>5, <2>1 DEF InBounds, Alike, Gen
  <2> QED
    BY <1>5, <2>2, <2>3, <2>4, <2>5 DEF Gen
<1>6. Alike(g, g)
  BY DEF Alike
<1> DEFINE d1 == [g EXCEPT !.delNext = @ + 1]
           p1 == [h EXCEPT !.mixedNew = @ + 1]
           p2 == [h EXCEPT !.head = @ + 1]
           p3 == [h EXCEPT !.cursor = @ + 1]
<1>7. /\ InBounds(d1) /\ Alike(g, d1) /\ d1.sub = g.sub /\ d1.head = g.head
      /\ InBounds(p1) /\ Alike(g, p1) /\ p1.sub = g.sub /\ p1.head = h.head
      /\ w.dist # "append" => InBounds(p2)
      /\ Alike(g, p2) /\ p2.sub = g.sub
      /\ InBounds(p3) /\ Alike(g, p3) /\ p3.sub = g.sub /\ p3.head = h.head
  <2>1. InBounds(d1) /\ Alike(g, d1) /\ d1.sub = g.sub /\ d1.head = g.head
    BY <1>4, <1>5, <1>6
  <2>2. /\ InBounds(p1) /\ Alike(g, p1) /\ p1.sub = g.sub /\ p1.head = h.head
        /\ w.dist # "append" => InBounds(p2)
        /\ Alike(g, p2) /\ p2.sub = g.sub
        /\ InBounds(p3) /\ Alike(g, p3) /\ p3.sub = g.sub /\ p3.head = h.head
    BY <1>4, <1>5
  <2> QED
    BY <2>1, <2>2
<1>8. d1.delNext = g.delNext + 1
  BY <1>4 DEF Gen
<1>9. /\ [AddDel(g, id) EXCEPT !.g.delNext = @ + 1] = [g |-> d1, op |-> d]
      /\ [AddPut(g, id) EXCEPT !.g.mixedNew = @ + 1] = [g |-> p1, op |-> p]
      /\ [AddPut(g, id) EXCEPT !.g.head = @ + 1] = [g |-> p2, op |-> p]
      /\ [AddPut(g, id) EXCEPT !.g.cursor = @ + 1] = [g |-> p3, op |-> p]
  BY <1>3
<1> HIDE DEF d1, p1, p2, p3
<1>10. Fits(g, [g |-> d1, op |-> d])
  BY <1>4, <1>7 DEF Fits
<1>11. Fits(g, [g |-> p1, op |-> p])
  BY <1>4, <1>7 DEF Fits
<1>12. w.dist = "bimodal" => Fits(g, [g |-> p2, op |-> p])
  BY <1>4, <1>7 DEF Fits
<1>13. Fits(g, [g |-> p3, op |-> p])
  BY <1>4, <1>7 DEF Fits
<1> QED
  BY <1>8, <1>9, <1>10, <1>11, <1>12, <1>13

\* Every operation that is drawn is of an id in the universe.
LEMMA OpsFit ==
  ASSUME w \in Workloads, NEW g, InBounds(g), NEW kind, Drawable(kind, g)
  PROVE  /\ Ops(w, kind, g) # {}
         /\ \A y \in Ops(w, kind, g) : /\ Fits(g, y)
                                       /\ kind = "purge" => y.g.delNext = g.delNext + 1
<1>1. /\ g.sub \in Nat /\ g.delNext \in Nat /\ g.mixedNew \in Nat /\ g.head \in Nat
  BY Fields DEF InBounds
<1>2. /\ ExistingId(g) \subseteq Ids /\ ExistingId(g) # {}
      /\ w.universe \in Nat /\ Ids = 0 .. w.universe - 1
  BY DrawnIds, Sizes
<1>3. CASE kind = "load"
  <2>1. g.sub < w.load /\ w.load \in Nat
    BY <1>3, Sizes DEF Drawable
  <2>2. w.load <= w.universe
    <3>1. w.dist = "append" => w.load = 0
      BY Shape
    <3> QED
      BY <1>1, <2>1, <3>1, Sizes
  <2>3. g.sub \in Ids
    BY <1>1, <1>2, <2>1, <2>2
  <2>4. Ops(w, kind, g) = Puts(g, {g.sub})
    BY <1>3 DEF Ops
  <2> QED
    BY <1>3, <2>3, <2>4, PutsFit
<1>4. CASE kind = "insert"
  <2>1. w.dist = "mixed" /\ g.sub < w.insert
    BY <1>4 DEF Drawable
  <2>2. /\ w.perm \in [0 .. w.insert - 1 -> 0 .. w.insert - 1] /\ w.load \in Nat /\ w.insert \in Nat
        /\ w.load + w.insert <= w.universe
    BY <2>1, Shape, Sizes
  <2>3. w.load + w.perm[g.sub] \in Ids
    <3>1. g.sub \in 0 .. w.insert - 1
      BY <1>1, <2>1, <2>2
    <3>2. w.perm[g.sub] \in 0 .. w.insert - 1
      BY <2>2, <3>1
    <3> QED
      BY <1>2, <2>2, <3>2
  <2>4. Ops(w, kind, g) = Puts(g, {w.load + w.perm[g.sub]})
    BY <1>4 DEF Ops
  <2> QED
    BY <1>4, <2>3, <2>4, PutsFit
<1>5. CASE kind = "update"
  <2>1. w.dist = "mixed"
    BY <1>5 DEF Drawable
  <2>2. HotId(w, g) \cup ExistingId(g) \in SUBSET Ids
    BY <1>2, <2>1, DrawnIds
  <2>3. Ops(w, kind, g) = Puts(g, HotId(w, g) \cup ExistingId(g))
    BY <1>5 DEF Ops
  <2> QED
    BY <1>2, <1>5, <2>2, <2>3, PutsFit
<1>6. CASE kind = "delete"
  <2>1. Ops(w, kind, g) = Dels(g, ExistingId(g))
    BY <1>6 DEF Ops
  <2> QED
    BY <1>2, <1>6, <2>1, PutsFit
<1>7. CASE kind = "purge"
  <2>1. g.delNext \in Ids
    BY <1>1, <1>2, <1>7 DEF Drawable
  <2> DEFINE y == [AddDel(g, g.delNext) EXCEPT !.g.delNext = @ + 1]
  <2>2. Ops(w, kind, g) = {y}
    BY <1>7 DEF Ops, Purge
  <2>3. Fits(g, y) /\ y.g.delNext = g.delNext + 1
    BY <2>1, StepsOn
  <2> HIDE DEF y
  <2> QED
    BY <2>2, <2>3
<1>8. CASE kind = "mixed"
  <2>1. w.dist = "mixed"
    BY <1>8 DEF Drawable
  <2>2. WindowId(w, g) \cup ExistingId(g) \in SUBSET Ids
    BY <1>2, <2>1, DrawnIds
  <2>3. g.mixedNew < w.universe => g.mixedNew \in Ids
    BY <1>1, <1>2
  <2>4. Ops(w, kind, g) = MixedOp(w, g)
    BY <1>8 DEF Ops
  <2>5. /\ \A y \in Puts(g, WindowId(w, g) \cup ExistingId(g)) : Fits(g, y)
        /\ \A y \in Dels(g, ExistingId(g)) : Fits(g, y)
        /\ Dels(g, ExistingId(g)) # {}
    BY <1>2, <2>2, PutsFit
  <2> DEFINE y == [AddPut(g, g.mixedNew) EXCEPT !.g.mixedNew = @ + 1]
  <2>6. g.mixedNew < w.universe => Fits(g, y)
    BY <2>3, StepsOn
  <2>7. MixedOp(w, g) = Puts(g, WindowId(w, g) \cup ExistingId(g))
                          \cup (IF g.mixedNew < w.universe THEN {y} ELSE {})
                          \cup Dels(g, ExistingId(g))
    BY DEF MixedOp
  <2> HIDE DEF y
  <2> QED
    BY <1>8, <2>4, <2>5, <2>6, <2>7
<1>9. CASE kind = "extend"
  <2>1. w.dist = "mixed"
    BY <1>9 DEF Drawable
  <2>2. WindowId(w, g) \cup ExistingId(g) \in SUBSET Ids
    BY <1>2, <2>1, DrawnIds
  <2>3. Ops(w, kind, g) = Puts(g, WindowId(w, g) \cup ExistingId(g)) \cup Dels(g, ExistingId(g))
    BY <1>9 DEF Ops
  <2> QED
    BY <1>2, <1>9, <2>2, <2>3, PutsFit
<1>10. CASE kind = "other"
  <2>1. w.dist \notin {"mixed", "append"}
    BY <1>10 DEF Drawable
  <2>2. Ops(w, kind, g) = OtherOp(w, g)
    BY <1>10 DEF Ops
  <2>3. /\ \A y \in Dels(g, ExistingId(g)) : Fits(g, y)
        /\ \A y \in Puts(g, WriteId(w, g)) : Fits(g, y)
        /\ Puts(g, WriteId(w, g)) # {}
    BY <1>2, <2>1, DrawnIds, PutsFit
  <2>4. CASE w.dist = "bimodal"
    <3>1. \A y \in Puts(g, HotId(w, g)) : Fits(g, y)
      BY <2>4, DrawnIds, PutsFit
    <3>2. Puts(g, HotId(w, g)) # {}
      BY <2>4, DrawnIds, PutsFit
    <3>3. g.head < w.universe => g.head \in Ids
      BY <1>1, <1>2
    <3> DEFINE y == [AddPut(g, g.head) EXCEPT !.g.head = @ + 1]
    <3>4. g.head < w.universe => Fits(g, y)
      BY <2>4, <3>3, StepsOn
    <3>5. OtherOp(w, g) = (IF w.dels THEN Dels(g, ExistingId(g)) ELSE {})
                            \cup (Puts(g, HotId(w, g))
                                    \cup (IF g.head < w.universe THEN {y} ELSE {}))
      BY <2>4 DEF OtherOp
    <3> HIDE DEF y
    <3> QED
      BY <1>10, <2>2, <2>3, <3>1, <3>2, <3>4, <3>5
  <2>5. CASE w.dist = "rolling"
    <3>1. \A id \in WriteId(w, g) : Fits(g, [AddPut(g, id) EXCEPT !.g.cursor = @ + 1])
      BY <2>1, DrawnIds, StepsOn
    <3>2. \A y \in {[p EXCEPT !.g.cursor = @ + 1] : p \in Puts(g, WriteId(w, g))} : Fits(g, y)
      BY <3>1 DEF Puts
    <3> DEFINE R == {[p EXCEPT !.g.cursor = @ + 1] : p \in Puts(g, WriteId(w, g))}
    <3>3. R # {}
      BY <2>3
    <3>4. OtherOp(w, g) = (IF w.dels THEN Dels(g, ExistingId(g)) ELSE {}) \cup R
      BY <2>5 DEF OtherOp
    <3>5. \A y \in R : Fits(g, y)
      BY <3>2
    <3> HIDE DEF R
    <3> QED
      BY <1>10, <2>2, <2>3, <3>3, <3>4, <3>5
  <2>6. CASE w.dist \notin {"bimodal", "rolling"}
    BY <1>10, <2>2, <2>3, <2>6 DEF OtherOp
  <2> QED
    BY <2>4, <2>5, <2>6
<1> QED
  BY <1>3, <1>4, <1>5, <1>6, <1>7, <1>8, <1>9, <1>10 DEF Drawable

\* A batch with its generator, as it grows out of h.
Growing(h, x) ==
  /\ x \in [g : Gen, ops : Seq(Operation)] /\ InBounds(x.g) /\ Alike(h, x.g)
  /\ x.g.sub = h.sub + Len(x.ops)

\* One more operation of a batch.
LEMMA GrowFits ==
  ASSUME w \in Workloads, NEW h, NEW x, Growing(h, x), h.sub \in Nat, NEW kind, NEW quota \in Nat,
         x.g.sub < quota => Drawable(kind, x.g)
  PROVE  /\ Grow(w, kind, quota, x) # {}
         /\ \A z \in Grow(w, kind, quota, x) :
              /\ Growing(h, z)
              /\ z # x => /\ x.g.sub < quota
                          /\ \E y \in Ops(w, kind, x.g) :
                                z.ops = Append(x.ops, y.op) /\ Fits(x.g, y)
                          /\ kind = "purge" => z.g.delNext = x.g.delNext + 1
<1>1. CASE x.g.sub >= quota
  BY <1>1 DEF Grow
<1>2. CASE ~(x.g.sub >= quota)
  <2>1. x.g \in Gen /\ x.g.sub \in Nat /\ x.g.sub < quota /\ InBounds(x.g)
    BY <1>2, Fields DEF Growing, InBounds
  <2>2. /\ Ops(w, kind, x.g) # {}
        /\ \A y \in Ops(w, kind, x.g) : /\ Fits(x.g, y)
                                        /\ kind = "purge" => y.g.delNext = x.g.delNext + 1
    BY <2>1, OpsFit
  <2>3. Grow(w, kind, quota, x) =
          {[g |-> [y.g EXCEPT !.sub = @ + 1], ops |-> Append(x.ops, y.op)] : y \in Ops(w, kind, x.g)}
    BY <1>2 DEF Grow
  <2>4. ASSUME NEW y \in Ops(w, kind, x.g)
        PROVE  /\ Growing(h, [g |-> [y.g EXCEPT !.sub = @ + 1], ops |-> Append(x.ops, y.op)])
               /\ [y.g EXCEPT !.sub = @ + 1].delNext = y.g.delNext
    <3>1. y.op \in Operation /\ InBounds(y.g) /\ Alike(x.g, y.g) /\ y.g.sub = x.g.sub /\ y.g \in Gen
      BY <2>2, <2>4 DEF Fits, InBounds
    <3> DEFINE u == [y.g EXCEPT !.sub = @ + 1]
    <3>2. u \in Gen /\ u.sub = x.g.sub + 1 /\ u.delNext = y.g.delNext /\ Alike(y.g, u)
      BY <2>1, <3>1 DEF Gen, Alike
    <3>3. u.maxWritten = y.g.maxWritten /\ u.head = y.g.head
      BY <3>1 DEF Gen
    <3> HIDE DEF u
    <3>4. InBounds(u)
      BY <3>1, <3>2, <3>3 DEF InBounds, Alike
    <3>5. Alike(h, u)
      BY <3>1, <3>2 DEF Growing, Alike
    <3>6. x.ops \in Seq(Operation) /\ x.g.sub = h.sub + Len(x.ops) /\ Len(x.ops) \in Nat
      BY DEF Growing
    <3>7. Append(x.ops, y.op) \in Seq(Operation) /\ Len(Append(x.ops, y.op)) = Len(x.ops) + 1
      BY <3>1, <3>6
    <3> DEFINE r == [g |-> u, ops |-> Append(x.ops, y.op)]
    <3>8. /\ r \in [g : Gen, ops : Seq(Operation)] /\ r.g = u
          /\ Len(r.ops) = Len(x.ops) + 1
      BY <3>2, <3>7
    <3> HIDE DEF r
    <3>9. r.g.sub = h.sub + Len(r.ops)
      BY <2>1, <3>2, <3>6, <3>8
    <3>10. Growing(h, r)
      BY <3>4, <3>5, <3>8, <3>9 DEF Growing
    <3> QED
      BY <3>2, <3>10 DEF u, r
  <2>5. Grow(w, kind, quota, x) # {}
    BY <2>2, <2>3
  <2>6. ASSUME NEW z \in Grow(w, kind, quota, x)
        PROVE  /\ Growing(h, z)
               /\ \E y \in Ops(w, kind, x.g) :
                                z.ops = Append(x.ops, y.op) /\ Fits(x.g, y)
               /\ kind = "purge" => z.g.delNext = x.g.delNext + 1
    <3>1. PICK y \in Ops(w, kind, x.g) :
            z = [g |-> [y.g EXCEPT !.sub = @ + 1], ops |-> Append(x.ops, y.op)]
      BY <2>3
    <3>2. /\ Growing(h, [g |-> [y.g EXCEPT !.sub = @ + 1], ops |-> Append(x.ops, y.op)])
          /\ [y.g EXCEPT !.sub = @ + 1].delNext = y.g.delNext
      BY <2>4
    <3>3. Fits(x.g, y) /\ (kind = "purge" => y.g.delNext = x.g.delNext + 1)
      BY <2>2
    <3>4. Growing(h, z) /\ z.ops = Append(x.ops, y.op) /\ z.g.delNext = y.g.delNext
      BY <3>1, <3>2
    <3> QED
      BY <3>3, <3>4
  <2> QED
    BY <2>1, <2>5, <2>6
<1> QED
  BY <1>1, <1>2

\* What every operation keeps, a batch keeps.
LEMMA BatchWithin ==
  ASSUME NEW g0, NEW n \in Nat, NEW quota, NEW kind, NEW I,
         [g |-> g0, ops |-> <<>>] \in I[0],
         \A i \in 1 .. n : \A x \in I[i - 1] :
           Grow(w, kind, quota, x) # {} /\ Grow(w, kind, quota, x) \subseteq I[i]
  PROVE  Batch(w, g0, n, quota, kind) # {} /\ Batch(w, g0, n, quota, kind) \subseteq I[n]
<1> DEFINE x0 == [g |-> g0, ops |-> <<>>]
<1>1. PICK G : /\ G[0] = {[g |-> g0, ops |-> <<>>]}
               /\ \A i \in 1 .. n : G[i] = Grows(kind, quota, G[i - 1])
               /\ Batch(w, g0, n, quota, kind) = G[n]
  BY BatchRuns
<1> DEFINE Bad == {i \in 0 .. n : ~(G[i] # {} /\ G[i] \subseteq I[i])}
<1>2. G[0] = {x0}
  BY <1>1
<1>3. \A i \in 1 .. n : G[i] = Grows(kind, quota, G[i - 1])
  BY <1>1
<1>4. Bad = {}
  <2> SUFFICES ASSUME Bad # {} PROVE FALSE
    OBVIOUS
  <2>1. Bad \in SUBSET Nat
    OBVIOUS
  <2>2. PICK k \in Bad : \A j \in Bad : k <= j
    <3> HIDE DEF Bad
    <3> QED
      BY <2>1, LeastElement
  <2>3. k # 0
    <3> HIDE DEF x0
    <3> QED
      BY <1>2 DEF x0
  <2>4. k \in 1 .. n /\ k - 1 \in 0 .. n /\ k - 1 \notin Bad
    <3>1. k \in 0 .. n
      OBVIOUS
    <3> HIDE DEF Bad
    <3> QED
      BY <2>2, <2>3, <3>1
  <2>5. G[k - 1] # {} /\ G[k - 1] \subseteq I[k - 1]
    BY <2>4
  <2>6. \A x \in G[k - 1] : Grow(w, kind, quota, x) # {} /\ Grow(w, kind, quota, x) \subseteq I[k]
    BY <2>4, <2>5
  <2>7. G[k] = Grows(kind, quota, G[k - 1])
    BY <1>3, <2>4
  <2>8. G[k] # {}
    <3>1. PICK x : x \in G[k - 1]
      BY <2>5
    <3>2. PICK z : z \in Grow(w, kind, quota, x)
      BY <2>6, <3>1
    <3> QED
      BY <2>7, <3>1, <3>2 DEF Grows
  <2>9. G[k] \subseteq I[k]
    BY <2>6, <2>7 DEF Grows
  <2> QED
    BY <2>8, <2>9
<1>5. n \notin Bad
  BY <1>4
<1>6. G[n] # {} /\ G[n] \subseteq I[n]
  <2>1. n \in 0 .. n
    OBVIOUS
  <2> QED
    BY <1>5, <2>1
<1> QED
  BY <1>1, <1>6, Zenon

\* What a kind of operations needs of the generator before a batch of n.
Ready(kind, quota, n, h) ==
  /\ quota \in Nat
  /\ \/ kind = "load" /\ quota = w.load
     \/ kind = "insert" /\ w.dist = "mixed" /\ quota = w.insert
     \/ kind \in {"update", "delete", "mixed", "extend"} /\ w.dist = "mixed"
     \/ kind = "purge" /\ w.dist = "mixed" /\ h.delNext + n <= w.universe
     \/ kind = "other" /\ w.dist \notin {"mixed", "append"}

\* A batch keeps its ids in the universe and the generator in its bounds.
LEMMA BatchFits ==
  ASSUME w \in Workloads, NEW h, InBounds(h), NEW n \in Nat, NEW kind, NEW quota,
         Ready(kind, quota, n, h)
  PROVE  /\ Batch(w, h, n, quota, kind) # {}
         /\ \A x \in Batch(w, h, n, quota, kind) : Growing(h, x)
         /\ h.sub <= quota => \A x \in Batch(w, h, n, quota, kind) : x.g.sub <= quota
<1> DEFINE x0 == [g |-> h, ops |-> <<>>]
           J(i) == {x \in [g : Gen, ops : Seq(Operation)] :
                      /\ Growing(h, x)
                      /\ kind = "purge" => x.g.delNext <= h.delNext + i
                      /\ h.sub <= quota => x.g.sub <= quota}
           I == [i \in 0 .. n |-> J(i)]
<1>1. /\ h \in Gen /\ h.sub \in Nat /\ h.delNext \in Nat /\ quota \in Nat
      /\ w.universe \in Nat /\ w.load \in Nat /\ w.insert \in Nat
  BY Fields, Sizes DEF InBounds, Ready
<1>2. x0 \in J(0)
  <2>1. Growing(h, x0) /\ x0 \in [g : Gen, ops : Seq(Operation)]
    BY <1>1 DEF Growing, Alike
  <2>2. x0.g = h
    OBVIOUS
  <2> HIDE DEF x0
  <2> QED
    BY <1>1, <2>1, <2>2
<1>3. ASSUME NEW i \in 1 .. n, NEW x \in J(i - 1)
      PROVE  Grow(w, kind, quota, x) # {} /\ Grow(w, kind, quota, x) \subseteq J(i)
  <2>1. /\ Growing(h, x) /\ InBounds(x.g) /\ x.g \in Gen
        /\ kind = "purge" => x.g.delNext <= h.delNext + (i - 1)
        /\ h.sub <= quota => x.g.sub <= quota
    BY DEF Growing
  <2> HIDE DEF J
  <2>2. x.g.sub \in Nat /\ x.g.delNext \in Nat
    BY <2>1, Fields
  <2>3. x.g.sub < quota => Drawable(kind, x.g)
    <3>1. kind = "purge" /\ h.delNext + n <= w.universe => x.g.delNext < w.universe
      BY <1>1, <1>3, <2>1, <2>2
    <3> QED
      BY <3>1 DEF Ready, Drawable
  <2>4. /\ Grow(w, kind, quota, x) # {}
        /\ \A z \in Grow(w, kind, quota, x) :
              /\ Growing(h, z)
              /\ z # x => /\ x.g.sub < quota
                          /\ \E y \in Ops(w, kind, x.g) :
                                z.ops = Append(x.ops, y.op) /\ Fits(x.g, y)
                          /\ kind = "purge" => z.g.delNext = x.g.delNext + 1
    BY <1>1, <2>1, <2>3, GrowFits
  <2>5. ASSUME NEW z \in Grow(w, kind, quota, x)
        PROVE  z \in J(i)
    <3>1. Growing(h, z) /\ z \in [g : Gen, ops : Seq(Operation)]
      BY <2>4 DEF Growing
    <3>2. kind = "purge" => z.g.delNext <= h.delNext + i
      <4>1. z = x \/ (kind = "purge" => z.g.delNext = x.g.delNext + 1)
        BY <2>4
      <4>2. i \in Nat
        BY <1>3
      <4> QED
        BY <1>1, <2>1, <2>2, <4>1, <4>2
    <3>3. h.sub <= quota => z.g.sub <= quota
      <4>1. CASE z = x
        BY <2>1, <4>1
      <4>2. CASE z # x
        <5>1. x.g.sub < quota
          BY <2>4, <4>2
        <5>2. PICK y \in Ops(w, kind, x.g) : z.ops = Append(x.ops, y.op) /\ Fits(x.g, y)
          BY <2>4, <4>2
        <5>3. x.ops \in Seq(Operation) /\ y.op \in Operation
          BY <2>1, <5>2 DEF Growing, Fits
        <5>4. Len(z.ops) = Len(x.ops) + 1 /\ Len(x.ops) \in Nat
          BY <5>2, <5>3
        <5>5. z.g.sub = h.sub + Len(z.ops) /\ x.g.sub = h.sub + Len(x.ops)
          BY <2>1, <3>1 DEF Growing
        <5> QED
          BY <1>1, <5>1, <5>4, <5>5
      <4> QED
        BY <4>1, <4>2
    <3> QED
      BY <3>1, <3>2, <3>3 DEF J
  <2> QED
    BY <2>4, <2>5
<1>4. x0 \in I[0] /\ \A i \in 1 .. n : \A x \in I[i - 1] :
           Grow(w, kind, quota, x) # {} /\ Grow(w, kind, quota, x) \subseteq I[i]
  <2>1. \A i \in 0 .. n : I[i] = J(i)
    OBVIOUS
  <2> HIDE DEF I, J, x0
  <2>2. \A i \in 1 .. n : i \in 0 .. n /\ i - 1 \in 0 .. n
    OBVIOUS
  <2> QED
    BY <1>2, <1>3, <2>1, <2>2
<1>5. Batch(w, h, n, quota, kind) # {} /\ Batch(w, h, n, quota, kind) \subseteq I[n]
  <2> HIDE DEF I
  <2> QED
    BY <1>4, BatchWithin
<1>6. I[n] = J(n)
  OBVIOUS
<1>7. \A x \in J(n) : Growing(h, x) /\ (h.sub <= quota => x.g.sub <= quota)
  OBVIOUS
<1> HIDE DEF I, J
<1> QED
  BY <1>5, <1>6, <1>7

------------------------------------------------------------------------------
(* The model, over the universe.                                           *)

Models == [ver : [Ids -> Int], wseq : Nat]

\* The ids of a batch.
IdsOf(ops) == {ops[i].id : i \in DOMAIN ops}

\* Replaying an empty batch, and one with an operation more.
LEMMA ReplayAppend ==
  ASSUME NEW m, NEW S, NEW ops \in Seq(S), NEW op \in S
  PROVE  /\ ReplayBatch(m, <<>>) = m
         /\ ReplayBatch(m, Append(ops, op)) = Apply(ReplayBatch(m, ops), op)
<1>1. ReplayBatch(m, <<>>) = m
  <2>1. PICK g : g[0] = m /\ ReplayBatch(m, <<>>) = g[Len(<<>>)]
    <3>1. Len(<<>>) \in Nat
      OBVIOUS
    <3> QED
      BY <3>1, ReplayRuns
  <2> QED
    BY <2>1
<1> DEFINE more == Append(ops, op)
           n == Len(ops)
<1>2. /\ n \in Nat /\ Len(more) = n + 1 /\ more[n + 1] = op
      /\ \A i \in 1 .. n : more[i] = ops[i]
  OBVIOUS
<1> HIDE DEF more, n
<1>3. PICK g : /\ g[0] = m
               /\ \A i \in 1 .. n : g[i] = Apply(g[i - 1], ops[i])
               /\ ReplayBatch(m, ops) = g[n]
  BY <1>2, ReplayRuns DEF n
<1>4. PICK h : /\ h[0] = m
               /\ \A i \in 1 .. Len(more) : h[i] = Apply(h[i - 1], more[i])
               /\ ReplayBatch(m, more) = h[Len(more)]
  <2>1. Len(more) \in Nat
    BY <1>2
  <2> QED
    BY <2>1, ReplayRuns
<1> DEFINE Bad == {i \in 0 .. n : g[i] # h[i]}
<1>5. Bad = {}
  <2> SUFFICES ASSUME Bad # {} PROVE FALSE
    OBVIOUS
  <2>1. Bad \in SUBSET Nat
    BY <1>2
  <2>2. PICK k \in Bad : \A j \in Bad : k <= j
    <3> HIDE DEF Bad
    <3> QED
      BY <2>1, LeastElement
  <2>3. k \in 0 .. n /\ k # 0
    BY <1>3, <1>4
  <2>4. k \in 1 .. n /\ k - 1 \in 0 .. n /\ k - 1 \notin Bad
    <3> HIDE DEF Bad
    <3> QED
      BY <1>2, <2>2, <2>3
  <2>5. g[k - 1] = h[k - 1]
    BY <2>4
  <2>6. k \in 1 .. Len(more) /\ more[k] = ops[k]
    BY <1>2, <2>4
  <2>7. g[k] = Apply(g[k - 1], ops[k]) /\ h[k] = Apply(h[k - 1], more[k])
    BY <1>3, <1>4, <2>4, <2>6
  <2>8. g[k] = h[k]
    BY <2>5, <2>6, <2>7
  <2> QED
    BY <2>8
<1>6. g[n] = h[n]
  <2>1. n \in 0 .. n
    BY <1>2
  <2> QED
    BY <1>5, <2>1
<1>7. h[n + 1] = Apply(h[n], op)
  <2>1. n + 1 \in 1 .. Len(more) /\ (n + 1) - 1 = n
    BY <1>2
  <2>2. h[n + 1] = Apply(h[(n + 1) - 1], more[n + 1])
    BY <1>4, <2>1
  <2> QED
    BY <1>2, <2>1, <2>2
<1>8. ReplayBatch(m, more) = Apply(ReplayBatch(m, ops), op)
  BY <1>2, <1>3, <1>4, <1>6, <1>7
<1> QED
  BY <1>1, <1>8 DEF more

\* The models of the first batches.
LEMMA ReplayAllStep ==
  ASSUME NEW m, NEW bs, NEW n \in Nat
  PROVE  /\ ReplayAll(m, bs, 0) = m
         /\ ReplayAll(m, bs, n + 1) = ReplayBatch(ReplayAll(m, bs, n), bs[n + 1])
         /\ \A cs : (\A i \in 1 .. n : cs[i] = bs[i]) => ReplayAll(m, cs, n) = ReplayAll(m, bs, n)
<1>1. ReplayAll(m, bs, 0) = m
  BY ReplayAllRuns
<1>2. PICK g : /\ g[0] = m
               /\ \A i \in 1 .. n : g[i] = ReplayBatch(g[i - 1], bs[i])
               /\ ReplayAll(m, bs, n) = g[n]
  BY ReplayAllRuns
<1>3. ASSUME NEW cs, NEW p \in Nat, n <= p, \A i \in 1 .. n : cs[i] = bs[i], NEW h,
             h[0] = m, \A i \in 1 .. p : h[i] = ReplayBatch(h[i - 1], cs[i])
      PROVE  h[n] = g[n]
  <2> DEFINE Bad == {i \in 0 .. n : g[i] # h[i]}
  <2>1. Bad = {}
    <3> SUFFICES ASSUME Bad # {} PROVE FALSE
      OBVIOUS
    <3>1. Bad \in SUBSET Nat
      OBVIOUS
    <3>2. PICK k \in Bad : \A j \in Bad : k <= j
      <4> HIDE DEF Bad
      <4> QED
        BY <3>1, LeastElement
    <3>3. k \in 0 .. n /\ k # 0
      BY <1>2, <1>3
    <3>4. k \in 1 .. n /\ k \in 1 .. p /\ k - 1 \in 0 .. n /\ k - 1 \notin Bad
      <4> HIDE DEF Bad
      <4> QED
        BY <1>3, <3>2, <3>3
    <3>5. g[k - 1] = h[k - 1]
      BY <3>4
    <3>6. g[k] = ReplayBatch(g[k - 1], bs[k]) /\ h[k] = ReplayBatch(h[k - 1], cs[k])
      BY <1>2, <1>3, <3>4
    <3>7. g[k] = h[k]
      BY <1>3, <3>4, <3>5, <3>6
    <3> QED
      BY <3>7
  <2>2. n \in 0 .. n
    OBVIOUS
  <2> QED
    BY <2>1, <2>2
<1>4. ReplayAll(m, bs, n + 1) = ReplayBatch(ReplayAll(m, bs, n), bs[n + 1])
  <2>1. PICK h : /\ h[0] = m
                 /\ \A i \in 1 .. n + 1 : h[i] = ReplayBatch(h[i - 1], bs[i])
                 /\ ReplayAll(m, bs, n + 1) = h[n + 1]
    <3>1. n + 1 \in Nat
      OBVIOUS
    <3> QED
      BY <3>1, ReplayAllRuns
  <2>2. h[n] = g[n]
    BY <1>3, <2>1
  <2>3. n + 1 \in 1 .. n + 1 /\ (n + 1) - 1 = n
    OBVIOUS
  <2>4. h[n + 1] = ReplayBatch(h[(n + 1) - 1], bs[n + 1])
    BY <2>1, <2>3
  <2> QED
    BY <1>2, <2>1, <2>2, <2>3, <2>4
<1>5. ASSUME NEW cs, \A i \in 1 .. n : cs[i] = bs[i]
      PROVE  ReplayAll(m, cs, n) = ReplayAll(m, bs, n)
  <2>1. PICK h : /\ h[0] = m
                 /\ \A i \in 1 .. n : h[i] = ReplayBatch(h[i - 1], cs[i])
                 /\ ReplayAll(m, cs, n) = h[n]
    BY ReplayAllRuns
  <2>2. h[n] = g[n]
    BY <1>3, <1>5, <2>1
  <2> QED
    BY <1>2, <2>1, <2>2
<1> QED
  BY <1>1, <1>4, <1>5

\* One write.
LEMMA ApplyModel ==
  ASSUME NEW m \in Models, NEW op \in Operation
  PROVE  /\ Apply(m, op) \in Models
         /\ Apply(m, op).wseq = m.wseq + 1
         /\ \A id \in Ids : id # op.id => Apply(m, op).ver[id] = m.ver[id]
         /\ Live(Apply(m, op).ver) = IF op.del THEN Live(m.ver) \ {op.id} ELSE Live(m.ver) \cup {op.id}
<1> DEFINE v == IF op.del THEN -(m.wseq + 1) ELSE m.wseq + 1
           ver == [m.ver EXCEPT ![op.id] = v]
<1>1. /\ m.ver \in [Ids -> Int] /\ m.wseq \in Nat /\ op.id \in Ids /\ op.del \in BOOLEAN
  BY DEF Models, Operation
<1>2. v \in Int /\ (v > 0 <=> ~op.del)
  BY <1>1
<1>3. Apply(m, op) = [ver |-> ver, wseq |-> m.wseq + 1]
  BY DEF Apply
<1> HIDE DEF v
<1>4. ver \in [Ids -> Int] /\ ver[op.id] = v /\ \A id \in Ids : id # op.id => ver[id] = m.ver[id]
  BY <1>1, <1>2
<1>5. Live(ver) = IF op.del THEN Live(m.ver) \ {op.id} ELSE Live(m.ver) \cup {op.id}
  <2>1. Live(ver) = {id \in Ids : ver[id] > 0} /\ Live(m.ver) = {id \in Ids : m.ver[id] > 0}
    BY <1>1, <1>4 DEF Live
  <2> HIDE DEF ver
  <2> QED
    BY <1>1, <1>2, <1>4, <2>1
<1> HIDE DEF ver
<1> QED
  BY <1>1, <1>3, <1>4, <1>5 DEF Models

\* A batch of writes leaves the other ids alone.
LEMMA ReplayModel ==
  ASSUME NEW m \in Models, NEW ops \in Seq(Operation)
  PROVE  /\ ReplayBatch(m, ops) \in Models
         /\ ReplayBatch(m, ops).wseq = m.wseq + Len(ops)
         /\ \A id \in Ids \ IdsOf(ops) : ReplayBatch(m, ops).ver[id] = m.ver[id]
<1>1. Len(ops) \in Nat /\ DOMAIN ops = 1 .. Len(ops) /\ \A i \in 1 .. Len(ops) : ops[i] \in Operation
  OBVIOUS
<1>2. PICK g : /\ g[0] = m
               /\ \A i \in 1 .. Len(ops) : g[i] = Apply(g[i - 1], ops[i])
               /\ ReplayBatch(m, ops) = g[Len(ops)]
  <2>1. Len(ops) \in Nat
    BY <1>1
  <2> QED
    BY <2>1, ReplayRuns
<1> DEFINE n == Len(ops)
<1> DEFINE Good(i) == /\ g[i] \in Models /\ g[i].wseq = m.wseq + i
                      /\ \A id \in Ids \ IdsOf(ops) : g[i].ver[id] = m.ver[id]
           Bad == {i \in 0 .. n : ~Good(i)}
<1>3. Good(0)
  <2>1. g[0] = m /\ m.wseq \in Nat
    BY <1>2 DEF Models
  <2> QED
    BY <2>1
<1> HIDE DEF n
<1>4. ASSUME NEW i \in 1 .. n, Good(i - 1)
      PROVE  Good(i)
  <2>1. g[i] = Apply(g[i - 1], ops[i]) /\ ops[i] \in Operation /\ ops[i].id \in IdsOf(ops)
    BY <1>1, <1>2 DEF IdsOf, n
  <2>2. /\ g[i] \in Models /\ g[i].wseq = g[i - 1].wseq + 1
        /\ \A id \in Ids : id # ops[i].id => g[i].ver[id] = g[i - 1].ver[id]
    <3>1. g[i - 1] \in Models
      BY <1>4
    <3>2. ASSUME NEW u \in Models, NEW op \in Operation, NEW v, v = Apply(u, op)
          PROVE  /\ v \in Models /\ v.wseq = u.wseq + 1
                 /\ \A id \in Ids : id # op.id => v.ver[id] = u.ver[id]
      BY <3>2, ApplyModel
    <3> QED
      BY <2>1, <3>1, <3>2, Zenon
  <2>3. m.wseq \in Nat /\ g[i - 1].wseq = m.wseq + (i - 1)
    BY <1>4 DEF Models
  <2>4. g[i].wseq = m.wseq + i
    BY <1>1, <2>2, <2>3 DEF n
  <2> QED
    BY <1>4, <2>1, <2>2, <2>4
<1> HIDE DEF Good
<1>5. Bad = {}
  <2> SUFFICES ASSUME Bad # {} PROVE FALSE
    OBVIOUS
  <2>1. Bad \in SUBSET Nat
    BY <1>1 DEF n
  <2>2. PICK k \in Bad : \A j \in Bad : k <= j
    <3> HIDE DEF Bad
    <3> QED
      BY <2>1, LeastElement
  <2>3. k \in 0 .. n /\ k # 0
    BY <1>3
  <2>4. k \in 1 .. n /\ k - 1 \in 0 .. n /\ k - 1 \notin Bad
    <3> HIDE DEF Bad
    <3> QED
      BY <1>1, <2>2, <2>3 DEF n
  <2> QED
    BY <1>4, <2>4
<1>6. Good(n)
  <2>1. n \in 0 .. n
    BY <1>1 DEF n
  <2> QED
    BY <1>5, <2>1
<1> QED
  BY <1>2, <1>6 DEF Good, n

------------------------------------------------------------------------------
(* The batches of an appending workload.                                   *)

\* A batch with its generator, as it grows out of h by appends and corrections.
Appending(h, x) ==
  /\ x \in [g : Gen, ops : Seq(Operation)] /\ InBounds(x.g) /\ Alike(h, x.g)
  /\ h.head <= x.g.head

\* A put changes the generator's largest id and nothing else.
LEMMA PutIs ==
  ASSUME NEW g \in Gen, NEW id
  PROVE  /\ AddPut(g, id).op = [del |-> FALSE, id |-> id]
         /\ AddPut(g, id).g.head = g.head
BY DEF AddPut, Gen

\* A late correction is of an id that is not purged.
LEMMA LateIdsAreLive ==
  ASSUME w \in Workloads, w.dist = "append", NEW g, InBounds(g)
  PROVE  LateIds(w, g) \subseteq g.purged .. g.head - 1
<1>1. /\ g.head \in Nat /\ g.purged \in Nat /\ g.purged <= g.head /\ w.lag \in Nat
  BY Fields, Shape DEF InBounds
<1> DEFINE live == g.head - g.purged
           back == IF live > w.lag THEN w.lag ELSE live
<1>2. back \in Nat /\ back <= live
  BY <1>1
<1>3. LateIds(w, g) = IF back = 0 THEN {} ELSE {g.head - 1 - i : i \in Below(back)}
  BY DEF LateIds
<1>4. \A i \in Below(back) : back # 0 => g.head - 1 - i \in g.purged .. g.head - 1
  BY <1>1, <1>2 DEF Below
<1> HIDE DEF back
<1> QED
  BY <1>3, <1>4

\* An append or a correction writes the next id or one that is not purged.
LEMMA ExtendFits ==
  ASSUME w \in Workloads, w.dist = "append", NEW h, h \in Gen, NEW x, Appending(h, x), NEW ext
  PROVE  /\ Extend(w, ext, x) # {}
         /\ \A z \in Extend(w, ext, x) :
              /\ Appending(h, z)
              /\ \/ z = x
                 \/ \E id \in x.g.purged .. x.g.head :
                       /\ [del |-> FALSE, id |-> id] \in Operation
                       /\ z.ops = Append(x.ops, [del |-> FALSE, id |-> id])
                       /\ z.g.head = (IF id = x.g.head THEN id + 1 ELSE x.g.head)
<1>1. /\ x.g \in Gen /\ InBounds(x.g) /\ x.ops \in Seq(Operation)
      /\ x.g.head \in Nat /\ x.g.purged \in Nat /\ x.g.purged <= x.g.head /\ h.head \in Nat
      /\ h.head <= x.g.head /\ x.g.head <= w.universe
  BY Fields DEF Appending, InBounds
<1>2. w.universe \in Nat \ {0} /\ Ids = 0 .. w.universe - 1
  BY Sizes
<1> DEFINE late  == IF x.g.head > 0 THEN LateIds(w, x.g) ELSE {}
           fixed == IF late = {} THEN {x}
                    ELSE {[g |-> y.g, ops |-> Append(x.ops, y.op)] : y \in Puts(x.g, late)}
           more  == {[g |-> [y.g EXCEPT !.head = @ + 1, !.sub = IF ext THEN @ ELSE @ + 1],
                      ops |-> Append(x.ops, y.op)] : y \in Puts(x.g, {x.g.head})}
           Good(z) == /\ Appending(h, z)
                      /\ \/ z = x
                         \/ \E id \in x.g.purged .. x.g.head :
                               /\ [del |-> FALSE, id |-> id] \in Operation
                               /\ z.ops = Append(x.ops, [del |-> FALSE, id |-> id])
                               /\ z.g.head = (IF id = x.g.head THEN id + 1 ELSE x.g.head)
<1>3. Extend(w, ext, x) = IF x.g.head = 0 THEN more
                          ELSE IF ext \/ x.g.head >= w.universe THEN fixed
                          ELSE more \cup fixed
  BY DEF Extend
<1>4. late \subseteq x.g.purged .. x.g.head - 1
  BY <1>1, LateIdsAreLive
<1> HIDE DEF late
<1>5. fixed # {} /\ \A z \in fixed : Good(z)
  <2>1. CASE late = {}
    BY <2>1
  <2>2. CASE late # {}
    <3>1. late \subseteq Ids
      BY <1>1, <1>2, <1>4
    <3>2. fixed = {[g |-> AddPut(x.g, id).g, ops |-> Append(x.ops, AddPut(x.g, id).op)] : id \in late}
      BY <2>2 DEF Puts
    <3>3. ASSUME NEW id \in late
          PROVE  Good([g |-> AddPut(x.g, id).g, ops |-> Append(x.ops, AddPut(x.g, id).op)])
      <4> DEFINE y == AddPut(x.g, id)
                 z == [g |-> y.g, ops |-> Append(x.ops, y.op)]
      <4>1. Fits(x.g, y)
        BY <1>1, <3>1, AddFits
      <4>2. y.op = [del |-> FALSE, id |-> id] /\ y.g.head = x.g.head
        BY <1>1, PutIs
      <4> HIDE DEF y
      <4>3. y.op \in Operation /\ InBounds(y.g) /\ Alike(x.g, y.g) /\ y.g \in Gen
        BY <4>1 DEF Fits, InBounds
      <4>4. z \in [g : Gen, ops : Seq(Operation)] /\ z.g = y.g /\ z.ops = Append(x.ops, y.op)
        BY <1>1, <4>3
      <4> HIDE DEF z
      <4>5. Alike(h, y.g)
        BY <4>3 DEF Appending, Alike
      <4>6. Appending(h, z)
        BY <1>1, <4>2, <4>3, <4>4, <4>5 DEF Appending
      <4>7. id \in x.g.purged .. x.g.head /\ id # x.g.head
        BY <1>1, <1>4
      <4>8. Good(z)
        BY <4>2, <4>3, <4>4, <4>6, <4>7
      <4> QED
        BY <4>8 DEF y, z
    <3> HIDE DEF fixed, Good
    <3> QED
      BY <2>2, <3>2, <3>3
  <2> QED
    BY <2>1, <2>2
<1>6. ASSUME x.g.head < w.universe
      PROVE  more # {} /\ \A z \in more : Good(z)
  <2> DEFINE id == x.g.head
             y == AddPut(x.g, id)
             u == [y.g EXCEPT !.head = @ + 1, !.sub = IF ext THEN @ ELSE @ + 1]
             z == [g |-> u, ops |-> Append(x.ops, y.op)]
  <2>1. more = {z}
    <3>1. Puts(x.g, {x.g.head}) = {y}
      BY DEF Puts
    <3> HIDE DEF y
    <3> QED
      BY <3>1, Zenon
  <2>2. id \in Ids
    BY <1>1, <1>2, <1>6
  <2>3. Fits(x.g, y)
    BY <1>1, <2>2, AddFits
  <2>4. y.op = [del |-> FALSE, id |-> id] /\ y.g.head = x.g.head
    BY <1>1, PutIs
  <2> HIDE DEF y
  <2>5. y.op \in Operation /\ InBounds(y.g) /\ Alike(x.g, y.g) /\ y.g \in Gen
    BY <2>3 DEF Fits, InBounds
  <2>6. /\ u \in Gen /\ u.head = x.g.head + 1 /\ Alike(y.g, u) /\ u.maxWritten = y.g.maxWritten
    <3> DEFINE s == IF ext THEN y.g.sub ELSE y.g.sub + 1
    <3>1. y.g.sub \in Nat /\ y.g.head \in Nat
      BY <2>5, Fields
    <3>2. u = [y.g EXCEPT !.head = y.g.head + 1, !.sub = s] /\ s \in Nat
      BY <2>5, <3>1 DEF Gen
    <3> HIDE DEF u, s
    <3>3. u \in Gen
      <4>1. [y.g EXCEPT !.head = y.g.head + 1] \in Gen
        BY <2>5, <3>1 DEF Gen
      <4>2. \A v \in Gen : [v EXCEPT !.sub = s] \in Gen
        BY <3>2 DEF Gen
      <4>3. u = [[y.g EXCEPT !.head = y.g.head + 1] EXCEPT !.sub = s]
        BY <3>2
      <4> QED
        BY <4>1, <4>2, <4>3
    <3>4. u.head = y.g.head + 1 /\ u.maxWritten = y.g.maxWritten
      BY <2>5, <3>2 DEF Gen
    <3>5. Alike(y.g, u)
      BY <2>5, <3>2 DEF Gen, Alike
    <3> QED
      BY <2>4, <3>3, <3>4, <3>5
  <2> HIDE DEF u
  <2>7. InBounds(u)
    <3>1. u.head <= w.universe /\ u.purged <= u.head
      <4>1. u.purged = x.g.purged
        BY <2>5, <2>6 DEF Alike
      <4> QED
        BY <1>1, <1>2, <1>6, <2>6, <4>1
    <3> QED
      BY <2>5, <2>6, <3>1 DEF InBounds, Alike
  <2>8. Alike(h, u)
    BY <2>5, <2>6 DEF Appending, Alike
  <2>9. z \in [g : Gen, ops : Seq(Operation)] /\ z.g = u /\ z.ops = Append(x.ops, y.op)
    BY <1>1, <2>5, <2>6
  <2> HIDE DEF z
  <2>10. Appending(h, z)
    BY <1>1, <2>6, <2>7, <2>8, <2>9 DEF Appending
  <2>11. id \in x.g.purged .. x.g.head
    BY <1>1
  <2>12. Good(z)
    BY <2>4, <2>5, <2>6, <2>9, <2>10, <2>11
  <2> HIDE DEF more, Good
  <2> QED
    BY <2>1, <2>12
<1> HIDE DEF more, fixed, Good
<1>7. Extend(w, ext, x) # {} /\ \A z \in Extend(w, ext, x) : Good(z)
  BY <1>1, <1>2, <1>3, <1>5, <1>6
<1> QED
  BY <1>7 DEF Good

\* The deletions of n ids from p on.
Deletions(p, n) == [i \in 1 .. n |-> [del |-> TRUE, id |-> p + i - 1]]

\* They are a batch, and n + 1 of them have one more.
LEMMA DeletionsGrow ==
  ASSUME w \in Workloads, NEW p \in Nat, NEW n \in Nat, p + n <= w.universe
  PROVE  /\ Deletions(p, n) \in Seq(Operation)
         /\ Len(Deletions(p, n)) = n
         /\ n > 0 => Deletions(p, n) = Append(Deletions(p, n - 1), [del |-> TRUE, id |-> p + n - 1])
<1>1. w.universe \in Nat /\ Ids = 0 .. w.universe - 1
  BY Sizes
<1>2. \A i \in 1 .. n : [del |-> TRUE, id |-> p + i - 1] \in Operation
  <2>1. \A i \in 1 .. n : p + i - 1 \in Ids
    BY <1>1
  <2> QED
    BY <2>1 DEF Operation
<1>3. Deletions(p, n) \in [1 .. n -> Operation]
  BY <1>2 DEF Deletions
<1>4. Deletions(p, n) \in Seq(Operation) /\ Len(Deletions(p, n)) = n
  BY <1>3
<1>5. ASSUME n > 0
      PROVE  Deletions(p, n) = Append(Deletions(p, n - 1), [del |-> TRUE, id |-> p + n - 1])
  <2>1. Deletions(p, n - 1) \in [1 .. n - 1 -> Operation]
    BY <1>2 DEF Deletions
  <2>2. Deletions(p, n - 1) \in Seq(Operation) /\ Len(Deletions(p, n - 1)) = n - 1
    BY <1>5, <2>1
  <2>3. \A i \in 1 .. n - 1 : Deletions(p, n)[i] = Deletions(p, n - 1)[i]
    BY DEF Deletions
  <2> DEFINE op == [del |-> TRUE, id |-> p + n - 1]
  <2>4. Deletions(p, n)[n] = op /\ op \in Operation
    BY <1>2, <1>5 DEF Deletions
  <2> HIDE DEF op
  <2>5. Deletions(p, n) = Append(Deletions(p, n - 1), op)
    BY <1>4, <1>5, <2>2, <2>3, <2>4
  <2> QED
    BY <2>5 DEF op
<1> QED
  BY <1>4, <1>5

\* They leave the other ids as they are.
LEMMA PurgeReplayed ==
  ASSUME w \in Workloads, NEW ops \in Seq(Operation), NEW p \in Nat, NEW n \in Nat, p + n <= w.universe
  PROVE  /\ ops \o Deletions(p, n) \in Seq(Operation)
         /\ \A m \in Models : Live(ReplayBatch(m, ops \o Deletions(p, n)).ver)
                                = Live(ReplayBatch(m, ops).ver) \ (p .. p + n - 1)
<1> DEFINE Cut(k) == ops \o Deletions(p, k)
           Good(k) == /\ Cut(k) \in Seq(Operation)
                      /\ \A m \in Models : Live(ReplayBatch(m, Cut(k)).ver)
                                             = Live(ReplayBatch(m, ops).ver) \ (p .. p + k - 1)
           Bad == {k \in 0 .. n : ~Good(k)}
<1>1. \A k \in 0 .. n : Cut(k) \in Seq(Operation)
  <2> TAKE k \in 0 .. n
  <2>1. w.universe \in Nat /\ k \in Nat /\ p + k <= w.universe
    BY Sizes
  <2>2. Deletions(p, k) \in Seq(Operation)
    BY <2>1, DeletionsGrow
  <2> QED
    BY <2>2
<1>2. Good(0)
  <2>1. Deletions(p, 0) = <<>>
    BY DEF Deletions
  <2>2. Cut(0) = ops
    BY <2>1
  <2>3. p .. p + 0 - 1 = {}
    OBVIOUS
  <2> HIDE DEF Cut
  <2> QED
    BY <2>2, <2>3
<1>3. ASSUME NEW k \in 1 .. n, Good(k - 1)
      PROVE  Good(k)
  <2> DEFINE op == [del |-> TRUE, id |-> p + k - 1]
  <2>1. op \in Operation
    <3>1. w.universe \in Nat /\ Ids = 0 .. w.universe - 1
      BY Sizes
    <3>2. p + k - 1 \in Ids
      BY <3>1
    <3> QED
      BY <3>2 DEF Operation
  <2>2. Cut(k) = Append(Cut(k - 1), op)
    <3>1. /\ w.universe \in Nat /\ k \in Nat /\ k - 1 \in Nat /\ k > 0
          /\ p + k <= w.universe /\ p + (k - 1) <= w.universe
      BY Sizes
    <3>2. Deletions(p, k - 1) \in Seq(Operation)
      BY <3>1, DeletionsGrow
    <3>3. Deletions(p, k) = Append(Deletions(p, k - 1), op)
      BY <3>1, DeletionsGrow
    <3>4. ASSUME NEW a \in Seq(Operation), NEW b \in Seq(Operation), NEW o \in Operation
          PROVE  a \o Append(b, o) = Append(a \o b, o)
      <4>1. a \o Append(b, o) \in Seq(Operation) /\ Append(a \o b, o) \in Seq(Operation)
        OBVIOUS
      <4>2. Len(a \o Append(b, o)) = Len(Append(a \o b, o))
        OBVIOUS
      <4>3. \A i \in 1 .. Len(a) + Len(b) + 1 : (a \o Append(b, o))[i] = Append(a \o b, o)[i]
        OBVIOUS
      <4> QED
        BY <4>1, <4>2, <4>3
    <3> HIDE DEF op
    <3> QED
      BY <2>1, <3>2, <3>3, <3>4
  <2>3. k - 1 \in 0 .. n /\ k \in 0 .. n
    OBVIOUS
  <2>4. Cut(k - 1) \in Seq(Operation) /\ Cut(k) \in Seq(Operation)
    BY <1>1, <2>3
  <2>5. op.del = TRUE /\ op.id = p + k - 1
    OBVIOUS
  <2> HIDE DEF Cut, op
  <2>6. ASSUME NEW m \in Models
        PROVE  Live(ReplayBatch(m, Cut(k)).ver) = Live(ReplayBatch(m, ops).ver) \ (p .. p + k - 1)
    <3>1. ReplayBatch(m, Cut(k)) = Apply(ReplayBatch(m, Cut(k - 1)), op)
      BY <2>1, <2>2, <2>4, ReplayAppend
    <3>2. ReplayBatch(m, Cut(k - 1)) \in Models
      BY <2>4, ReplayModel
    <3>3. Live(ReplayBatch(m, Cut(k)).ver) = Live(ReplayBatch(m, Cut(k - 1)).ver) \ {p + k - 1}
      BY <2>1, <2>5, <3>1, <3>2, ApplyModel
    <3>4. Live(ReplayBatch(m, Cut(k - 1)).ver) = Live(ReplayBatch(m, ops).ver) \ (p .. p + (k - 1) - 1)
      BY <1>3
    <3>5. p .. p + k - 1 = (p .. p + (k - 1) - 1) \cup {p + k - 1}
      OBVIOUS
    <3> QED
      BY <3>3, <3>4, <3>5
  <2> QED
    BY <2>4, <2>6
<1> HIDE DEF Good
<1>4. Bad = {}
  <2> SUFFICES ASSUME Bad # {} PROVE FALSE
    OBVIOUS
  <2>1. Bad \in SUBSET Nat
    OBVIOUS
  <2>2. PICK k \in Bad : \A j \in Bad : k <= j
    <3> HIDE DEF Bad
    <3> QED
      BY <2>1, LeastElement
  <2>3. k \in 0 .. n /\ k # 0
    BY <1>2
  <2>4. k \in 1 .. n /\ k - 1 \in 0 .. n /\ k - 1 \notin Bad
    <3> HIDE DEF Bad
    <3> QED
      BY <2>2, <2>3
  <2> QED
    BY <1>3, <2>4
<1>5. Good(n)
  <2>1. n \in 0 .. n
    OBVIOUS
  <2> QED
    BY <1>4, <2>1
<1> QED
  BY <1>5 DEF Good

\* What a batch leaves of its generator whatever its operations.
Steady(g, h) ==
  /\ h.phase = g.phase /\ h.inPhase = g.inPhase /\ h.hotLo = g.hotLo /\ h.delLo = g.delLo
  /\ h.burstLeft = g.burstLeft /\ h.lullLeft = g.lullLeft
  /\ h.didRead = g.didRead /\ h.pendingRead = g.pendingRead
  /\ h.snapPending = g.snapPending /\ h.snapCheckAt = g.snapCheckAt /\ h.snapTakenAt = g.snapTakenAt

\* The ids between the oldest that is not purged and the next one.
Window(g) == g.purged .. g.head - 1

\* The appends and corrections of a batch: the live ids grow with head.
LEMMA ExtendedFits ==
  ASSUME w \in Workloads, w.dist = "append", NEW h, InBounds(h), NEW ext
  PROVE  /\ Extended(w, h, ext) # {}
         /\ \A x \in Extended(w, h, ext) :
              /\ Appending(h, x) /\ Len(x.ops) <= w.batch /\ x.g.head <= h.head + w.batch
              /\ \A m \in Models : Live(m.ver) = Window(h) =>
                                     Live(ReplayBatch(m, x.ops).ver) = Window(x.g)
<1> DEFINE x0 == [g |-> h, ops |-> <<>>]
           Good(i, x) ==
             /\ Appending(h, x) /\ Len(x.ops) <= i /\ x.g.head <= h.head + i
             /\ \A m \in Models : Live(m.ver) = Window(h) =>
                                    Live(ReplayBatch(m, x.ops).ver) = Window(x.g)
<1>1. h \in Gen /\ h.head \in Nat /\ h.purged \in Nat /\ w.batch \in Nat
  BY Fields, Shape DEF InBounds
<1>2. Good(0, x0)
  <2>1. x0 \in [g : Gen, ops : Seq(Operation)] /\ x0.g = h /\ x0.ops = <<>> /\ Len(x0.ops) = 0
    BY <1>1
  <2>2. \A m \in Models : ReplayBatch(m, <<>>) = m
    <3>1. <<>> \in Seq({0}) /\ 0 \in {0}
      OBVIOUS
    <3> QED
      BY <3>1, ReplayAppend
  <2> HIDE DEF x0
  <2>3. Appending(h, x0)
    BY <1>1, <2>1 DEF Appending, Alike
  <2> QED
    BY <1>1, <2>1, <2>2, <2>3
<1>3. ASSUME NEW i \in 1 .. w.batch, NEW x, Good(i - 1, x)
      PROVE  Extend(w, ext, x) # {} /\ \A z \in Extend(w, ext, x) : Good(i, z)
  <2>1. /\ Extend(w, ext, x) # {}
        /\ \A z \in Extend(w, ext, x) :
              /\ Appending(h, z)
              /\ \/ z = x
                 \/ \E id \in x.g.purged .. x.g.head :
                       /\ [del |-> FALSE, id |-> id] \in Operation
                       /\ z.ops = Append(x.ops, [del |-> FALSE, id |-> id])
                       /\ z.g.head = (IF id = x.g.head THEN id + 1 ELSE x.g.head)
    BY <1>1, <1>3, ExtendFits
  <2>2. /\ x.g \in Gen /\ x.ops \in Seq(Operation) /\ Len(x.ops) \in Nat /\ Len(x.ops) <= i - 1
        /\ x.g.head <= h.head + (i - 1) /\ x.g.head \in Nat /\ x.g.purged \in Nat
        /\ x.g.purged <= x.g.head
    BY <1>3, Fields DEF Appending, InBounds
  <2>3. \A m \in Models : Live(m.ver) = Window(h) => Live(ReplayBatch(m, x.ops).ver) = Window(x.g)
    BY <1>3
  <2>4. ASSUME NEW z \in Extend(w, ext, x)
        PROVE  Good(i, z)
    <3>1. Appending(h, z)
      BY <2>1
    <3>2. CASE z = x
      <4>1. i \in Nat /\ h.head \in Nat
        BY <1>1
      <4>2. Len(x.ops) <= i /\ x.g.head <= h.head + i
        <5>1. \A a, b, c \in Nat : a <= b + (c - 1) => a <= b + c
          OBVIOUS
        <5>2. \A a, c \in Nat : a <= c - 1 => a <= c
          OBVIOUS
        <5> QED
          BY <2>2, <4>1, <5>1, <5>2
      <4>3. /\ Appending(h, x)
            /\ \A m \in Models : Live(m.ver) = Window(h) =>
                                     Live(ReplayBatch(m, x.ops).ver) = Window(x.g)
        BY <1>3
      <4> HIDE <1>3
      <4> QED
        BY <3>2, <4>2, <4>3
    <3>3. CASE z # x
      <4>1. PICK id \in x.g.purged .. x.g.head :
              /\ [del |-> FALSE, id |-> id] \in Operation
              /\ z.ops = Append(x.ops, [del |-> FALSE, id |-> id])
              /\ z.g.head = (IF id = x.g.head THEN id + 1 ELSE x.g.head)
        BY <2>1, <3>3
      <4> DEFINE op == [del |-> FALSE, id |-> id]
      <4>2. op \in Operation /\ z.ops = Append(x.ops, op) /\ op.id = id /\ op.del = FALSE
        BY <4>1
      <4> HIDE DEF op
      <4>3. Len(z.ops) <= i /\ z.g.head <= h.head + i
        <5>1. Len(z.ops) = Len(x.ops) + 1
          BY <2>2, <4>2
        <5>2. i \in Nat /\ h.head \in Nat
          BY <1>1
        <5>3. Len(z.ops) <= i
          BY <2>2, <5>1, <5>2
        <5>4. z.g.head <= x.g.head + 1
          BY <2>2, <4>1
        <5>5. z.g.head \in Nat
          BY <2>2, <4>1
        <5>6. \A a, b, c, d \in Nat : a <= b + 1 /\ b <= c + (d - 1) => a <= c + d
          OBVIOUS
        <5>7. z.g.head <= h.head + i
          BY <2>2, <5>2, <5>4, <5>5, <5>6
        <5> QED
          BY <5>3, <5>7
      <4>4. ASSUME NEW m \in Models, Live(m.ver) = Window(h)
            PROVE  Live(ReplayBatch(m, z.ops).ver) = Window(z.g)
        <5>1. ReplayBatch(m, x.ops) \in Models
          BY <2>2, ReplayModel
        <5>2. ReplayBatch(m, z.ops) = Apply(ReplayBatch(m, x.ops), op)
          BY <2>2, <4>2, ReplayAppend
        <5>3. Live(ReplayBatch(m, z.ops).ver) = Live(ReplayBatch(m, x.ops).ver) \cup {id}
          BY <4>2, <5>1, <5>2, ApplyModel
        <5>4. Live(ReplayBatch(m, x.ops).ver) = x.g.purged .. x.g.head - 1
          BY <2>3, <4>4 DEF Window
        <5>5. z.g.purged = x.g.purged
          BY <1>3, <3>1 DEF Appending, Alike
        <5>6. (x.g.purged .. x.g.head - 1) \cup {id} = x.g.purged .. z.g.head - 1
          <6>1. id \in Int /\ x.g.purged <= id /\ id <= x.g.head
            BY <2>2
          <6>2. CASE id = x.g.head
            <7>1. z.g.head - 1 = x.g.head
              BY <2>2, <4>1, <6>2
            <7> QED
              BY <2>2, <6>2, <7>1
          <6>3. CASE id # x.g.head
            <7>1. z.g.head = x.g.head /\ id \in x.g.purged .. x.g.head - 1
              BY <2>2, <4>1, <6>1, <6>3
            <7> QED
              BY <7>1
          <6> QED
            BY <6>2, <6>3
        <5> QED
          BY <5>3, <5>4, <5>5, <5>6 DEF Window
      <4> QED
        BY <3>1, <4>3, <4>4
    <3> QED
      BY <3>2, <3>3
  <2> QED
    BY <2>1, <2>4
<1>4. PICK G : /\ G[0] = {[g |-> h, ops |-> <<>>]}
               /\ \A i \in 1 .. w.batch : G[i] = Extends(ext, G[i - 1])
               /\ Extended(w, h, ext) = G[w.batch]
  BY <1>1, ExtendedRuns
<1> HIDE DEF Good
<1> DEFINE Bad == {i \in 0 .. w.batch : ~(G[i] # {} /\ \A x \in G[i] : Good(i, x))}
<1>5. Bad = {}
  <2> SUFFICES ASSUME Bad # {} PROVE FALSE
    OBVIOUS
  <2>1. Bad \in SUBSET Nat
    OBVIOUS
  <2>2. PICK k \in Bad : \A j \in Bad : k <= j
    <3> HIDE DEF Bad
    <3> QED
      BY <2>1, LeastElement
  <2>3. k \in 0 .. w.batch /\ k # 0
    BY <1>2, <1>4
  <2>4. k \in 1 .. w.batch /\ k - 1 \in 0 .. w.batch /\ k - 1 \notin Bad
    <3> HIDE DEF Bad
    <3> QED
      BY <1>1, <2>2, <2>3
  <2>5. G[k - 1] # {} /\ \A x \in G[k - 1] : Good(k - 1, x)
    BY <2>4
  <2>6. \A x \in G[k - 1] : Extend(w, ext, x) # {} /\ \A z \in Extend(w, ext, x) : Good(k, z)
    BY <1>3, <2>4, <2>5
  <2>7. G[k] = UNION {Extend(w, ext, x) : x \in G[k - 1]}
    BY <1>4, <2>4 DEF Extends
  <2>8. G[k] # {}
    <3>1. PICK x : x \in G[k - 1]
      BY <2>5
    <3>2. PICK z : z \in Extend(w, ext, x)
      BY <2>6, <3>1
    <3> QED
      BY <2>7, <3>1, <3>2
  <2>9. \A z \in G[k] : Good(k, z)
    BY <2>6, <2>7
  <2> QED
    BY <2>8, <2>9
<1>6. G[w.batch] # {} /\ \A x \in G[w.batch] : Good(w.batch, x)
  <2>1. w.batch \in 0 .. w.batch
    BY <1>1
  <2> QED
    BY <1>5, <2>1
<1> QED
  BY <1>4, <1>6 DEF Good

\* The whole batch: what is purged is not live, and the window is not exceeded.
LEMMA AppendFits ==
  ASSUME w \in Workloads, w.dist = "append", NEW h, InBounds(h), NEW ext
  PROVE  /\ AppendOps(w, h, ext) # {}
         /\ \A x \in AppendOps(w, h, ext) :
              /\ x.ops \in Seq(Operation) /\ InBounds(x.g) /\ Steady(h, x.g)
              /\ \A m \in Models : Live(m.ver) = Window(h) =>
                                     Live(ReplayBatch(m, x.ops).ver) = Window(x.g)
              /\ w.window > 0 /\ h.head - h.purged <= w.window
                   => x.g.head - x.g.purged <= w.window
<1>1. /\ h \in Gen /\ h.head \in Nat /\ h.purged \in Nat
      /\ w.window \in Nat /\ w.batch \in Nat /\ 2 * w.batch <= OpsMax /\ OpsMax \in Nat
  BY Fields, Shape, PeriodsAssumption DEF InBounds
<1>2. /\ Extended(w, h, ext) # {}
      /\ \A x \in Extended(w, h, ext) :
           /\ Appending(h, x) /\ Len(x.ops) <= w.batch /\ x.g.head <= h.head + w.batch
           /\ \A m \in Models : Live(m.ver) = Window(h) =>
                                  Live(ReplayBatch(m, x.ops).ver) = Window(x.g)
  BY ExtendedFits
<1>3. ASSUME NEW x \in Extended(w, h, ext)
      PROVE  /\ PurgeOldest(w, x).ops \in Seq(Operation) /\ InBounds(PurgeOldest(w, x).g)
             /\ Steady(h, PurgeOldest(w, x).g)
             /\ \A m \in Models : Live(m.ver) = Window(h) =>
                                     Live(ReplayBatch(m, PurgeOldest(w, x).ops).ver)
                                       = Window(PurgeOldest(w, x).g)
             /\ w.window > 0 /\ h.head - h.purged <= w.window
                   => PurgeOldest(w, x).g.head - PurgeOldest(w, x).g.purged <= w.window
  <2> DEFINE n == Surplus(w, x)
             u == [x.g EXCEPT !.purged = @ + n]
             ops == x.ops \o Deletions(x.g.purged, n)
  <2>1. PurgeOldest(w, x) = [g |-> u, ops |-> ops]
    BY DEF PurgeOldest, Deletions
  <2>2. /\ x.g \in Gen /\ InBounds(x.g) /\ x.ops \in Seq(Operation) /\ Len(x.ops) \in Nat
        /\ Alike(h, x.g) /\ h.head <= x.g.head /\ Len(x.ops) <= w.batch
        /\ x.g.head <= h.head + w.batch
    BY <1>2 DEF Appending
  <2>3. /\ x.g.head \in Nat /\ x.g.purged \in Nat /\ x.g.purged <= x.g.head
        /\ x.g.head <= w.universe /\ w.universe \in Nat /\ x.g.purged = h.purged
    BY <2>2, Fields, Sizes DEF InBounds, Alike
  <2>4. /\ n \in Nat /\ x.g.purged + n <= x.g.head
        /\ w.window > 0 /\ h.head - h.purged <= w.window
             => x.g.head - (x.g.purged + n) <= w.window
    <3> DEFINE over == x.g.head - x.g.purged - w.window
               room == OpsMax - Len(x.ops)
    <3>1. n = IF w.window = 0 \/ over <= 0 \/ room <= 0 THEN 0
              ELSE IF over < room THEN over ELSE room
      BY DEF Surplus
    <3>2. over \in Int /\ room \in Int /\ over <= x.g.head - x.g.purged /\ room >= w.batch
      <4>1. over \in Int /\ over <= x.g.head - x.g.purged
        BY <1>1, <2>3
      <4>2. \A a, b, c \in Nat : 2 * a <= b /\ c <= a => b - c >= a
        OBVIOUS
      <4>3. room \in Int
        BY <1>1, <2>2
      <4>4. room >= w.batch
        BY <1>1, <2>2, <4>2
      <4> QED
        BY <4>1, <4>3, <4>4
    <3>3. h.head - h.purged <= w.window => over <= w.batch
      <4>1. \A a, b, c, d, e \in Nat : a <= b + c /\ b - d <= e => a - d - e <= c
        OBVIOUS
      <4>2. /\ x.g.head \in Nat /\ h.head \in Nat /\ w.batch \in Nat /\ h.purged \in Nat
            /\ w.window \in Nat /\ x.g.head <= h.head + w.batch
        BY <1>1, <2>2, <2>3
      <4>3. h.head - h.purged <= w.window => x.g.head - h.purged - w.window <= w.batch
        BY <4>1, <4>2
      <4> QED
        BY <2>3, <4>3
    <3> HIDE DEF n
    <3>4. n \in Nat /\ n <= x.g.head - x.g.purged
      <4> HIDE DEF over, room
      <4> QED
        BY <2>3, <3>1, <3>2
    <3>5. w.window > 0 /\ h.head - h.purged <= w.window => over <= n
      <4> HIDE DEF over, room
      <4> QED
        BY <1>1, <3>1, <3>2, <3>3
    <3> QED
      BY <1>1, <2>3, <3>4, <3>5
  <2> HIDE DEF n
  <2>5. /\ u \in Gen /\ u.purged = x.g.purged + n /\ u.head = x.g.head
        /\ u.maxWritten = x.g.maxWritten /\ Steady(x.g, u)
    <3>1. u = [x.g EXCEPT !.purged = x.g.purged + n] /\ x.g.purged + n \in Nat
      BY <2>3, <2>4
    <3>2. u \in Gen
      BY <2>2, <3>1 DEF Gen
    <3>3. u.purged = x.g.purged + n /\ u.head = x.g.head /\ u.maxWritten = x.g.maxWritten
      BY <2>2, <3>1 DEF Gen
    <3>4. Steady(x.g, u)
      BY <2>2, <3>1 DEF Gen, Steady
    <3> QED
      BY <3>2, <3>3, <3>4
  <2> HIDE DEF u
  <2>6. InBounds(u)
    BY <2>2, <2>3, <2>4, <2>5 DEF InBounds, Steady
  <2>7. Steady(h, u)
    BY <2>2, <2>5 DEF Steady, Alike
  <2>8. /\ ops \in Seq(Operation)
        /\ \A m \in Models : Live(ReplayBatch(m, ops).ver)
                               = Live(ReplayBatch(m, x.ops).ver)
                                   \ (x.g.purged .. x.g.purged + n - 1)
    <3>1. PICK a, p : a = x.ops /\ p = x.g.purged
      OBVIOUS
    <3>2. a \in Seq(Operation) /\ p \in Nat /\ n \in Nat /\ p + n <= w.universe
      BY <2>2, <2>3, <2>4, <3>1
    <3>3. /\ a \o Deletions(p, n) \in Seq(Operation)
          /\ \A m \in Models : Live(ReplayBatch(m, a \o Deletions(p, n)).ver)
                                 = Live(ReplayBatch(m, a).ver) \ (p .. p + n - 1)
      BY <3>2, PurgeReplayed
    <3> QED
      BY <3>1, <3>3
  <2> HIDE DEF ops
  <2>9. ASSUME NEW m \in Models, Live(m.ver) = Window(h)
        PROVE  Live(ReplayBatch(m, ops).ver) = Window(u)
    <3>1. Live(ReplayBatch(m, x.ops).ver) = x.g.purged .. x.g.head - 1
      BY <1>2, <2>9 DEF Window
    <3>2. (x.g.purged .. x.g.head - 1) \ (x.g.purged .. x.g.purged + n - 1)
            = x.g.purged + n .. x.g.head - 1
      BY <2>3, <2>4
    <3> QED
      BY <2>5, <2>8, <3>1, <3>2 DEF Window
  <2>10. w.window > 0 /\ h.head - h.purged <= w.window => u.head - u.purged <= w.window
    BY <2>4, <2>5
  <2> QED
    BY <2>1, <2>6, <2>7, <2>8, <2>9, <2>10
<1>4. AppendOps(w, h, ext) = {PurgeOldest(w, x) : x \in Extended(w, h, ext)}
  BY DEF AppendOps
<1> QED
  BY <1>2, <1>3, <1>4

------------------------------------------------------------------------------
(* The steps of the generator.                                             *)

\* What the generator and the model that follows it have in common: in an
\* appending workload the live ids, in phases A and B of `mixed` the ids put.
Matches(g, m) ==
  /\ w.dist = "append" => Live(m.ver) = Window(g)
  /\ w.dist = "mixed" =>
       /\ g.phase = 0 => Live(m.ver) = {} /\ m.wseq = 0
       /\ g.phase = 1 => /\ g.sub <= w.load
                         /\ Live(m.ver) = 0 .. g.sub - 1 /\ m.wseq = g.sub
       /\ g.phase = 2 => /\ g.sub <= w.insert
                         /\ Live(m.ver) = (0 .. w.load - 1) \cup {w.load + w.perm[i] : i \in 0 .. g.sub - 1}
                         /\ m.wseq = w.load + g.sub
       /\ g.phase = 3 /\ g.inPhase = 0 =>
            /\ Live(m.ver) = (0 .. w.load - 1) \cup {w.load + w.perm[i] : i \in 0 .. w.insert - 1}
            /\ m.wseq = w.load + w.insert

\* The generator between two steps.
GenOk(g) ==
  /\ InBounds(g)
  /\ g.phase = 0 => g.head = 0 /\ g.purged = 0 /\ ~g.snapPending
  /\ g.snapPending => /\ g.inPhase > 0 /\ g.phase > 0
                      /\ Phases(w)[g.phase] \in (IF w.dist = "mixed" THEN {"C", "E"} ELSE {"B"})
  /\ w.dist = "append" /\ w.window > 0 => g.head - g.purged <= w.window

Kinds == {"batch", "get", "scan", "phase", "snapTake", "snapCheck"}

\* What a step of the generator does.
Generates(g, r) ==
  /\ GenOk(r.g)
  /\ r.step.kind \in Kinds /\ r.step.ops \in Seq(Operation)
  /\ r.step.kind = "snapTake" => r.g.snapPending
  /\ r.step.kind # "snapCheck" /\ g.snapPending => r.g.snapPending
  /\ \A m \in Models : Matches(g, m) =>
       Matches(r.g, IF r.step.kind = "batch" THEN ReplayBatch(m, r.step.ops) ELSE m)

\* A step that is no batch and leaves the generator's ranges alone.
Near(g, h) ==
  /\ h \in Gen /\ h.phase = g.phase /\ h.sub = g.sub /\ h.inPhase = g.inPhase
  /\ h.maxWritten = g.maxWritten /\ h.hotLo = g.hotLo /\ h.delLo = g.delLo
  /\ h.delNext = g.delNext /\ h.head = g.head /\ h.purged = g.purged

\* Such a step keeps the bounds and what the model has in common.
LEMMA NearBounds ==
  ASSUME NEW g, NEW h, Near(g, h), InBounds(g)
  PROVE  /\ InBounds(h)
         /\ \A m : Matches(g, m) => Matches(h, m)
<1>1. InBounds(h)
  BY DEF Near, InBounds
<1>2. \A m : Matches(g, m) => Matches(h, m)
  BY DEF Near, Matches, Window
<1> QED
  BY <1>1, <1>2

\* A step begins without operations.
LEMMA StepIs ==
  ASSUME NEW kind, NEW phase
  PROVE  /\ Step(kind, phase).kind = kind /\ Step(kind, phase).ops = <<>>
         /\ <<>> \in Seq(Operation)
<1>1. Step(kind, phase).kind = kind /\ Step(kind, phase).ops = <<>>
  BY DEF Step
<1>2. <<>> \in Seq(Operation)
  OBVIOUS
<1> QED
  BY <1>1, <1>2

\* A read.
LEMMA ReadsFit ==
  ASSUME NEW g, GenOk(g), NEW h, Near(g, h), h.snapPending = g.snapPending,
         NEW kind \in {"get", "scan"}, NEW phase
  PROVE  /\ Given(h, Step(kind, phase)) # {}
         /\ \A r \in Given(h, Step(kind, phase)) : Generates(g, r)
<1> DEFINE r == [g |-> h, step |-> Step(kind, phase)]
<1>1. Given(h, Step(kind, phase)) = {r}
  BY DEF Given
<1>2. r.g = h /\ r.step.kind = kind /\ r.step.ops \in Seq(Operation)
  BY StepIs
<1> HIDE DEF r
<1>3. InBounds(h) /\ \A m : Matches(g, m) => Matches(h, m)
  BY NearBounds DEF GenOk
<1>4. GenOk(h)
  BY <1>3 DEF GenOk, Near
<1>5. Generates(g, r)
  BY <1>2, <1>3, <1>4 DEF Generates, Kinds
<1> QED
  BY <1>1, <1>5

\* The taking of a snapshot, or its check.
LEMMA SnapStepsFit ==
  ASSUME NEW g, GenOk(g), g.phase > 0, SnapDue(g), NEW sample, w \in Workloads,
         Phases(w)[g.phase] \in (IF w.dist = "mixed" THEN {"C", "E"} ELSE {"B"}), NEW phase
  PROVE  /\ SnapStep(g, phase, sample) # {}
         /\ \A r \in SnapStep(g, phase, sample) : Generates(g, r)
<1>1. g \in Gen /\ g.inPhase \in Nat /\ g.snapPending \in BOOLEAN /\ InBounds(g)
  BY Fields DEF GenOk, InBounds
<1>2. CASE g.snapPending
  <2> DEFINE h == [g EXCEPT !.snapPending = FALSE]
             r == [g |-> h, step |-> Step("snapCheck", phase)]
  <2>1. SnapStep(g, phase, sample) = {r}
    BY <1>2 DEF SnapStep, SnapCheck, Given
  <2>2. Near(g, h) /\ h.snapPending = FALSE
    BY <1>1 DEF Near, Gen
  <2>3. r.g = h /\ r.step.kind = "snapCheck" /\ r.step.ops \in Seq(Operation)
    BY StepIs
  <2> HIDE DEF h, r
  <2>4. InBounds(h) /\ \A m : Matches(g, m) => Matches(h, m)
    BY <1>1, <2>2, NearBounds
  <2>5. GenOk(h)
    BY <2>2, <2>4 DEF GenOk, Near
  <2>6. Generates(g, r)
    BY <2>3, <2>4, <2>5 DEF Generates, Kinds
  <2> QED
    BY <2>1, <2>6
<1>3. CASE ~g.snapPending
  <2> DEFINE h == [g EXCEPT !.snapTakenAt = g.inPhase, !.snapPending = TRUE,
                            !.snapCheckAt = g.inPhase + SnapLag]
             s == [Step("snapTake", phase) EXCEPT !.ids = sample]
             r == [g |-> h, step |-> s]
  <2>1. SnapStep(g, phase, sample) = {r}
    BY <1>3 DEF SnapStep, Given
  <2>2. g.inPhase > 0
    BY <1>3 DEF SnapDue
  <2>3. Near(g, h) /\ h.snapPending = TRUE
    <3>1. g.inPhase \in Int /\ g.inPhase + SnapLag \in Nat
      BY <1>1, PeriodsAssumption
    <3> DEFINE h1 == [g EXCEPT !.snapTakenAt = g.inPhase]
               h2 == [h1 EXCEPT !.snapPending = TRUE]
    <3>2. h1 \in Gen
      BY <1>1, <3>1 DEF Gen
    <3>3. h2 \in Gen
      <4> HIDE DEF h1
      <4> QED
        BY <3>2 DEF Gen
    <3>4. h \in Gen
      <4>1. h = [h2 EXCEPT !.snapCheckAt = g.inPhase + SnapLag]
        OBVIOUS
      <4> HIDE DEF h, h2
      <4> QED
        BY <3>1, <3>3, <4>1 DEF Gen
    <3> QED
      BY <1>1, <3>4 DEF Near, Gen
  <2>4. r.g = h /\ r.step.kind = "snapTake" /\ r.step.ops \in Seq(Operation)
    <3>1. s.kind = "snapTake" /\ s.ops = <<>> /\ r.step = s /\ r.g = h
      BY DEF Step
    <3> QED
      BY <3>1, StepIs
  <2> HIDE DEF h, r
  <2>5. InBounds(h) /\ \A m : Matches(g, m) => Matches(h, m)
    BY <1>1, <2>3, NearBounds
  <2>6. GenOk(h)
    BY <2>2, <2>3, <2>5 DEF GenOk, Near
  <2>7. Generates(g, r)
    BY <2>3, <2>4, <2>5, <2>6 DEF Generates, Kinds
  <2> QED
    BY <2>1, <2>7
<1> QED
  BY <1>1, <1>2, <1>3

\* The ids put by the first k operations of phase A, or of A and then of B.
PutIds(kind, k) ==
  IF kind = "load" THEN 0 .. k - 1
  ELSE (0 .. w.load - 1) \cup {w.load + w.perm[i] : i \in 0 .. k - 1}
PutCount(kind, k) == IF kind = "load" THEN k ELSE w.load + k
PutBy(kind, g, m) == Live(m.ver) = PutIds(kind, g.sub) /\ m.wseq = PutCount(kind, g.sub)

\* A batch of phase A or B puts the next ids.
LEMMA PutsReplayed ==
  ASSUME w \in Workloads, w.dist = "mixed", NEW h, InBounds(h), NEW n \in Nat,
         NEW kind \in {"load", "insert"}, NEW quota, Ready(kind, quota, n, h)
  PROVE  \A x \in Batch(w, h, n, quota, kind) : \A m \in Models :
           PutBy(kind, h, m) => PutBy(kind, x.g, ReplayBatch(m, x.ops))
<1> DEFINE x0 == [g |-> h, ops |-> <<>>]
           J == {x \in [g : Gen, ops : Seq(Operation)] :
                   Growing(h, x) /\ \A m \in Models :
                     PutBy(kind, h, m) => PutBy(kind, x.g, ReplayBatch(m, x.ops))}
           I == [i \in 0 .. n |-> J]
<1>1. /\ h \in Gen /\ h.sub \in Nat /\ quota \in Nat /\ w.load \in Nat
      /\ quota = IF kind = "load" THEN w.load ELSE w.insert
  BY Fields, Sizes DEF InBounds, Ready
<1>2. x0 \in J
  <2>1. x0 \in [g : Gen, ops : Seq(Operation)] /\ x0.g = h /\ x0.ops = <<>> /\ Len(x0.ops) = 0
    BY <1>1
  <2>2. \A m \in Models : ReplayBatch(m, <<>>) = m
    <3>1. <<>> \in Seq({0}) /\ 0 \in {0}
      OBVIOUS
    <3> QED
      BY <3>1, ReplayAppend
  <2> HIDE DEF x0
  <2>3. Growing(h, x0)
    BY <1>1, <2>1 DEF Growing, Alike
  <2> QED
    BY <1>1, <2>1, <2>2, <2>3
<1>3. ASSUME NEW x \in J
      PROVE  Grow(w, kind, quota, x) # {} /\ Grow(w, kind, quota, x) \subseteq J
  <2>1. Growing(h, x) /\ InBounds(x.g) /\ x.g \in Gen /\ x.ops \in Seq(Operation)
    BY DEF Growing
  <2>2. x.g.sub \in Nat
    BY <2>1, Fields
  <2>3. x.g.sub < quota => Drawable(kind, x.g)
    BY <1>1 DEF Drawable
  <2>4. /\ Grow(w, kind, quota, x) # {}
        /\ \A z \in Grow(w, kind, quota, x) :
              /\ Growing(h, z)
              /\ z # x => /\ x.g.sub < quota
                          /\ \E y \in Ops(w, kind, x.g) :
                                z.ops = Append(x.ops, y.op) /\ Fits(x.g, y)
                          /\ kind = "purge" => z.g.delNext = x.g.delNext + 1
    BY <1>1, <2>1, <2>3, GrowFits
  <2>5. ASSUME NEW z \in Grow(w, kind, quota, x), z # x, NEW m \in Models, PutBy(kind, h, m)
        PROVE  PutBy(kind, z.g, ReplayBatch(m, z.ops))
    <3> DEFINE id == IF kind = "load" THEN x.g.sub ELSE w.load + w.perm[x.g.sub]
               op == [del |-> FALSE, id |-> id]
    <3>1. PICK y \in Ops(w, kind, x.g) : z.ops = Append(x.ops, y.op) /\ Fits(x.g, y)
      BY <2>4, <2>5
    <3>2. y.op = op
      <4>1. Ops(w, kind, x.g) = Puts(x.g, {id})
        BY DEF Ops
      <4>2. Puts(x.g, {id}) = {AddPut(x.g, id)}
        BY DEF Puts
      <4> HIDE DEF id
      <4>3. AddPut(x.g, id).op = [del |-> FALSE, id |-> id]
        BY <2>1, PutIs
      <4> QED
        BY <3>1, <4>1, <4>2, <4>3
    <3>3. op \in Operation /\ op.id = id /\ op.del = FALSE
      BY <3>1, <3>2 DEF Fits
    <3>4. x.g.sub < quota
      BY <2>4, <2>5
    <3>5. z.g.sub = x.g.sub + 1
      <4>1. Growing(h, z)
        BY <2>4
      <4>2. z.g.sub = h.sub + Len(z.ops) /\ x.g.sub = h.sub + Len(x.ops)
        BY <2>1, <4>1 DEF Growing
      <4>3. Len(z.ops) = Len(x.ops) + 1 /\ Len(x.ops) \in Nat
        <5> HIDE DEF op
        <5> QED
          BY <2>1, <3>1, <3>2, <3>3
      <4>4. \A a, b \in Nat : a + (b + 1) = (a + b) + 1
        OBVIOUS
      <4>5. z.g.sub = h.sub + (Len(x.ops) + 1)
        BY <4>2, <4>3
      <4> QED
        BY <1>1, <4>2, <4>3, <4>4, <4>5
    <3>6. PutBy(kind, x.g, ReplayBatch(m, x.ops))
      BY <2>5
    <3>7. /\ Live(ReplayBatch(m, z.ops).ver) = Live(ReplayBatch(m, x.ops).ver) \cup {id}
          /\ ReplayBatch(m, z.ops).wseq = ReplayBatch(m, x.ops).wseq + 1
      <4> HIDE DEF op, id
      <4>1. ReplayBatch(m, x.ops) \in Models
        BY <2>1, ReplayModel
      <4>2. ReplayBatch(m, z.ops) = Apply(ReplayBatch(m, x.ops), op)
        BY <2>1, <3>1, <3>2, <3>3, ReplayAppend
      <4>3. PICK u : u = ReplayBatch(m, x.ops)
        OBVIOUS
      <4>4. /\ Live(Apply(u, op).ver) = Live(u.ver) \cup {op.id}
            /\ Apply(u, op).wseq = u.wseq + 1
        BY <3>3, <4>1, <4>3, ApplyModel
      <4> QED
        BY <3>3, <4>2, <4>3, <4>4
    <3>8. PutIds(kind, x.g.sub + 1) = PutIds(kind, x.g.sub) \cup {id}
      <4>1. 0 .. (x.g.sub + 1) - 1 = (0 .. x.g.sub - 1) \cup {x.g.sub}
        BY <2>2
      <4> QED
        BY <4>1 DEF PutIds
    <3>9. PutCount(kind, x.g.sub + 1) = PutCount(kind, x.g.sub) + 1
      <4>1. x.g.sub \in Nat /\ w.load \in Nat
        BY <1>1, <2>2
      <4>2. \A a, b \in Nat : a + (b + 1) = (a + b) + 1
        OBVIOUS
      <4>3. CASE kind = "load"
        BY <4>3 DEF PutCount
      <4>4. CASE kind # "load"
        BY <4>1, <4>2, <4>4 DEF PutCount
      <4> QED
        BY <4>3, <4>4
    <3> HIDE DEF id, op
    <3> QED
      BY <3>5, <3>6, <3>7, <3>8, <3>9 DEF PutBy
  <2>6. ASSUME NEW z \in Grow(w, kind, quota, x)
        PROVE  z \in J
    <3>1. Growing(h, z) /\ z \in [g : Gen, ops : Seq(Operation)]
      BY <2>4 DEF Growing
    <3>2. CASE z = x
      BY <3>2
    <3>3. CASE z # x
      BY <2>5, <3>1, <3>3
    <3> QED
      BY <3>2, <3>3
  <2> HIDE DEF J
  <2> QED
    BY <2>4, <2>6
<1>4. x0 \in I[0] /\ \A i \in 1 .. n : \A x \in I[i - 1] :
           Grow(w, kind, quota, x) # {} /\ Grow(w, kind, quota, x) \subseteq I[i]
  <2>1. \A i \in 0 .. n : I[i] = J
    OBVIOUS
  <2> HIDE DEF I, J, x0
  <2>2. \A i \in 1 .. n : i \in 0 .. n /\ i - 1 \in 0 .. n
    OBVIOUS
  <2> QED
    BY <1>2, <1>3, <2>1, <2>2
<1>5. Batch(w, h, n, quota, kind) \subseteq I[n]
  <2> HIDE DEF I
  <2> QED
    BY <1>4, BatchWithin
<1>6. I[n] = J
  OBVIOUS
<1>7. \A x \in J : \A m \in Models : PutBy(kind, h, m) => PutBy(kind, x.g, ReplayBatch(m, x.ops))
  OBVIOUS
<1> HIDE DEF I, J
<1> QED
  BY <1>5, <1>6, <1>7

\* A batch of a workload that does not append.
LEMMA BatchStepsFit ==
  ASSUME w \in Workloads, w.dist # "append", NEW g, GenOk(g), g.phase > 0,
         NEW h, Near(g, h), h.snapPending = g.snapPending,
         NEW kind, NEW quota, Ready(kind, quota, w.batch, h), NEW phase,
         w.dist = "mixed" => g.phase > 2 \/ (g.phase = 2 /\ kind = "insert")
  PROVE  /\ BatchSteps(w, h, phase, quota, kind) # {}
         /\ \A r \in BatchSteps(w, h, phase, quota, kind) :
              /\ Generates(g, r) /\ r.g.snapPending = g.snapPending /\ r.step.kind = "batch"
              /\ r.g.phase = g.phase /\ r.g.inPhase = g.inPhase + 1
<1> DEFINE u == [h EXCEPT !.inPhase = @ + 1]
           B(n) == Batch(w, u, n, quota, kind)
           S == UNION {B(n) : n \in 1 .. w.batch}
           Made(x) == [g |-> x.g, step |-> [Step("batch", phase) EXCEPT !.ops = x.ops]]
<1>1. /\ h \in Gen /\ g.inPhase \in Nat /\ w.batch \in Nat \ {0} /\ InBounds(g) /\ InBounds(h)
      /\ g.phase \in Nat /\ quota \in Nat /\ h.inPhase = g.inPhase
      /\ \A m : Matches(g, m) => Matches(h, m)
  BY Fields, Shape, NearBounds DEF GenOk, Near, InBounds, Ready
<1>2. /\ u \in Gen /\ u.inPhase = g.inPhase + 1 /\ u.phase = g.phase /\ u.sub = h.sub
      /\ u.snapPending = g.snapPending /\ u.delNext = h.delNext
  BY <1>1 DEF Gen, Near
<1>3. InBounds(u)
  BY <1>1, <1>2 DEF InBounds, Gen
<1> HIDE DEF u
<1>4. ASSUME NEW n \in 1 .. w.batch
      PROVE  n \in Nat /\ Ready(kind, quota, n, u)
  <2>1. n \in Nat /\ n <= w.batch
    BY <1>1
  <2>2. /\ kind = "purge" /\ h.delNext + w.batch <= w.universe => h.delNext + n <= w.universe
    <3>1. h.delNext \in Nat /\ w.universe \in Nat
      BY <1>1, Fields, Sizes
    <3> QED
      BY <1>1, <2>1, <3>1
  <2> QED
    BY <1>2, <2>1, <2>2 DEF Ready
<1>5. ASSUME NEW n \in 1 .. w.batch
      PROVE  /\ B(n) # {}
             /\ \A x \in B(n) : Growing(u, x) /\ (u.sub <= quota => x.g.sub <= quota)
  BY <1>3, <1>4, BatchFits
<1>6. S # {}
  <2>1. 1 \in 1 .. w.batch
    BY <1>1
  <2> HIDE DEF B
  <2> QED
    BY <1>5, <2>1
<1>7. ASSUME NEW x \in S
      PROVE  /\ Growing(u, x) /\ (u.sub <= quota => x.g.sub <= quota)
             /\ kind = "insert" => \A m \in Models :
                  PutBy(kind, u, m) => PutBy(kind, x.g, ReplayBatch(m, x.ops))
  <2>1. PICK n \in 1 .. w.batch : x \in B(n)
    OBVIOUS
  <2>2. Growing(u, x) /\ (u.sub <= quota => x.g.sub <= quota)
    BY <1>5, <2>1
  <2>3. ASSUME kind = "insert", NEW m \in Models, PutBy(kind, u, m)
        PROVE  PutBy(kind, x.g, ReplayBatch(m, x.ops))
    <3>1. w.dist = "mixed" /\ kind \in {"load", "insert"}
      BY <2>3 DEF Ready
    <3>2. n \in Nat /\ Ready(kind, quota, n, u)
      BY <1>4
    <3> QED
      BY <1>3, <2>1, <2>3, <3>1, <3>2, PutsReplayed
  <2> QED
    BY <2>2, <2>3
<1>8. BatchSteps(w, h, phase, quota, kind) = {Made(x) : x \in S}
  BY DEF BatchSteps, u
<1> HIDE DEF S
<1>9. ASSUME NEW x \in S
      PROVE  /\ Generates(g, Made(x)) /\ Made(x).g.snapPending = g.snapPending
             /\ Made(x).step.kind = "batch"
             /\ Made(x).g.phase = g.phase /\ Made(x).g.inPhase = g.inPhase + 1
  <2> DEFINE r == Made(x)
  <2>1. r.g = x.g /\ r.step.ops = x.ops /\ r.step.kind = "batch"
    BY DEF Step
  <2> HIDE DEF r
  <2>2. /\ InBounds(x.g) /\ x.ops \in Seq(Operation) /\ x.g.phase = g.phase
        /\ x.g.inPhase = g.inPhase + 1 /\ x.g.snapPending = g.snapPending
    BY <1>2, <1>7 DEF Growing, Alike
  <2>3. GenOk(x.g)
    <3>1. g.snapPending => Phases(w)[x.g.phase] \in (IF w.dist = "mixed" THEN {"C", "E"} ELSE {"B"})
      BY <2>2 DEF GenOk
    <3>2. x.g.inPhase > 0 /\ x.g.phase > 0
      BY <1>1, <2>2
    <3> QED
      BY <2>2, <3>1, <3>2 DEF GenOk
  <2>4. ASSUME NEW m \in Models, Matches(g, m)
        PROVE  Matches(x.g, ReplayBatch(m, x.ops))
    <3>1. CASE w.dist # "mixed"
      BY <3>1 DEF Matches
    <3>2. CASE w.dist = "mixed" /\ g.phase > 2
      <4>1. x.g.inPhase # 0 /\ x.g.phase \notin {0, 1, 2}
        BY <1>1, <2>2, <3>2
      <4> QED
        BY <3>2, <4>1 DEF Matches
    <3>3. CASE w.dist = "mixed" /\ g.phase = 2 /\ kind = "insert"
      <4>1. quota = w.insert /\ u.sub = g.sub
        BY <1>2, <3>3 DEF Ready, Near
      <4>2. PutBy(kind, u, m) /\ g.sub <= w.insert
        BY <2>4, <3>3, <4>1 DEF Matches, PutBy, PutIds, PutCount
      <4>3. PutBy(kind, x.g, ReplayBatch(m, x.ops)) /\ x.g.sub <= w.insert
        BY <1>7, <3>3, <4>1, <4>2
      <4> QED
        BY <2>2, <3>3, <4>3 DEF Matches, PutBy, PutIds, PutCount
    <3> QED
      BY <3>1, <3>2, <3>3
  <2>5. Generates(g, r)
    BY <2>1, <2>2, <2>3, <2>4 DEF Generates, Kinds
  <2> QED
    BY <2>1, <2>2, <2>5 DEF r
<1> HIDE DEF Made
<1> QED
  BY <1>6, <1>8, <1>9

\* The flags that the reads set.
LEMMA Touched ==
  ASSUME NEW g \in Gen
  PROVE  /\ Near(g, g)
         /\ \A b \in BOOLEAN : /\ Near(g, [g EXCEPT !.didRead = b])
                               /\ [g EXCEPT !.didRead = b].snapPending = g.snapPending
         /\ \A n \in Nat : /\ Near(g, [g EXCEPT !.pendingRead = n])
                           /\ [g EXCEPT !.pendingRead = n].snapPending = g.snapPending
<1>1. Near(g, g)
  BY DEF Near
<1>2. ASSUME NEW b \in BOOLEAN
      PROVE  /\ Near(g, [g EXCEPT !.didRead = b])
             /\ [g EXCEPT !.didRead = b].snapPending = g.snapPending
  BY DEF Near, Gen
<1>3. ASSUME NEW n \in Nat
      PROVE  /\ Near(g, [g EXCEPT !.pendingRead = n])
             /\ [g EXCEPT !.pendingRead = n].snapPending = g.snapPending
  BY DEF Near, Gen
<1> QED
  BY <1>1, <1>2, <1>3

\* Phase A.
LEMMA LoadStepFits ==
  ASSUME w \in Workloads, w.dist # "append", NEW g, GenOk(g), g.phase = 1, Phases(w)[1] = "A"
  PROVE  /\ LoadStep(w, g) # {}
         /\ \A r \in LoadStep(w, g) : Generates(g, r)
<1> DEFINE S == Batch(w, g, LoadBatch, w.load, "load")
           Made(x) == [g |-> x.g, step |-> [Step("batch", "A") EXCEPT !.ops = x.ops]]
<1>1. /\ g \in Gen /\ g.inPhase \in Nat /\ LoadBatch \in Nat /\ w.load \in Nat /\ InBounds(g)
      /\ g.sub \in Nat /\ ~g.snapPending
  BY Fields, Sizes, PeriodsAssumption DEF GenOk, InBounds
<1>2. Ready("load", w.load, LoadBatch, g)
  BY <1>1 DEF Ready
<1>3. S # {} /\ \A x \in S : Growing(g, x) /\ (g.sub <= w.load => x.g.sub <= w.load)
  BY <1>1, <1>2, BatchFits
<1>4. LoadStep(w, g) = {Made(x) : x \in S}
  BY DEF LoadStep
<1>5. w.dist = "mixed" => \A x \in S, m \in Models :
        PutBy("load", g, m) => PutBy("load", x.g, ReplayBatch(m, x.ops))
  BY <1>1, <1>2, PutsReplayed
<1> HIDE DEF S
<1>6. ASSUME NEW x \in S
      PROVE  Generates(g, Made(x))
  <2> DEFINE r == Made(x)
  <2>1. r.g = x.g /\ r.step.ops = x.ops /\ r.step.kind = "batch"
    BY DEF Step
  <2> HIDE DEF r
  <2>2. /\ InBounds(x.g) /\ x.ops \in Seq(Operation) /\ x.g.phase = 1
        /\ x.g.snapPending = FALSE
    BY <1>1, <1>3 DEF Growing, Alike, Gen
  <2>3. GenOk(x.g)
    BY <2>2 DEF GenOk
  <2>4. ASSUME NEW m \in Models, Matches(g, m)
        PROVE  Matches(x.g, ReplayBatch(m, x.ops))
    <3>1. CASE w.dist # "mixed"
      BY <3>1 DEF Matches
    <3>2. CASE w.dist = "mixed"
      <4>1. PutBy("load", g, m) /\ g.sub <= w.load
        BY <2>4, <3>2 DEF Matches, PutBy, PutIds, PutCount
      <4>2. PutBy("load", x.g, ReplayBatch(m, x.ops)) /\ x.g.sub <= w.load
        BY <1>3, <1>5, <3>2, <4>1
      <4> QED
        BY <2>2, <3>2, <4>2 DEF Matches, PutBy, PutIds, PutCount
    <3> QED
      BY <3>1, <3>2
  <2>5. Generates(g, r)
    BY <1>1, <2>1, <2>2, <2>3, <2>4 DEF Generates, Kinds
  <2> QED
    BY <2>5 DEF r
<1> HIDE DEF Made
<1> QED
  BY <1>3, <1>4, <1>6

\* The steps of a phase are some, and what a step of the generator can be.
Fine(g, R) == R # {} /\ \A r \in R : Generates(g, r)

\* So are those of two sets of them.
LEMMA FineUnion ==
  ASSUME NEW g, NEW R, NEW T, Fine(g, R), Fine(g, T)
  PROVE  Fine(g, R \cup T)
BY DEF Fine

\* Phases B to E of `mixed`, and X.
LEMMA MixedPhasesFit ==
  ASSUME w \in Workloads, w.dist = "mixed", NEW g, GenOk(g)
  PROVE  /\ g.phase = 2 => Fine(g, InsertStep(w, g))
         /\ g.phase = 3 => Fine(g, UpdateStep(w, g))
         /\ g.phase = 4 /\ g.sub < w.deletes => Fine(g, DeleteStep(w, g))
         /\ g.phase = 5 => Fine(g, MixedStep(w, g))
         /\ g.phase = 6 => Fine(g, ExtensionStep(w, g))
<1>1. /\ g \in Gen /\ g.phase \in Nat /\ g.sub \in Nat /\ g.delNext \in Nat /\ g.delLo \in Nat
      /\ w.insert \in Nat /\ w.updates \in Nat /\ w.deletes \in Nat /\ w.mixed \in Nat
      /\ w.batch \in Nat /\ w.dist # "append"
  BY Fields, Shape DEF GenOk, InBounds
<1>2. ASSUME NEW h, Near(g, h), h.snapPending = g.snapPending, NEW kind, NEW quota, NEW phase,
             Ready(kind, quota, w.batch, h), g.phase > 2 \/ (g.phase = 2 /\ kind = "insert")
      PROVE  Fine(g, BatchSteps(w, h, phase, quota, kind))
  <2>1. g.phase > 0
    BY <1>1, <1>2
  <2> QED
    BY <1>1, <1>2, <2>1, BatchStepsFit DEF Fine
<1>2a. ASSUME NEW h, Near(g, h), h.snapPending = g.snapPending, NEW kind, NEW quota, NEW phase,
             Ready(kind, quota, w.batch, h), g.phase \in {3, 4, 5, 6}
      PROVE  Fine(g, BatchSteps(w, h, phase, quota, kind))
  <2>1. g.phase > 2 /\ g.phase > 0
    BY <1>2a
  <2>2. g.phase > 2 \/ (g.phase = 2 /\ kind = "insert")
    BY <2>1
  <2> QED
    BY <1>1, <1>2a, <2>1, <2>2, BatchStepsFit DEF Fine
<1>3. ASSUME NEW h, Near(g, h), h.snapPending = g.snapPending,
             NEW kind \in {"get", "scan"}, NEW phase
      PROVE  Fine(g, Given(h, Step(kind, phase)))
  BY <1>3, ReadsFit DEF Fine
<1>4. ASSUME SnapDue(g), NEW sample, NEW phase, g.phase \in {3, 5}
      PROVE  Fine(g, SnapStep(g, phase, sample))
  <2>1. Phases(w)[g.phase] \in (IF w.dist = "mixed" THEN {"C", "E"} ELSE {"B"})
    BY <1>4 DEF Phases
  <2> QED
    BY <1>4, <2>1, SnapStepsFit DEF Fine
<1>5. ASSUME g.phase = 2
      PROVE  Fine(g, InsertStep(w, g))
  <2>1. Ready("insert", w.insert, w.batch, [g EXCEPT !.didRead = FALSE])
    BY <1>1 DEF Ready
  <2>2. Fine(g, BatchSteps(w, [g EXCEPT !.didRead = FALSE], "B", w.insert, "insert"))
    BY <1>1, <1>2, <1>5, <2>1, Touched
  <2>3. Fine(g, Given([g EXCEPT !.didRead = TRUE], Step("get", "B")))
    BY <1>1, <1>3, Touched
  <2> QED
    BY <2>2, <2>3 DEF InsertStep
<1>6. ASSUME g.phase = 3
      PROVE  Fine(g, UpdateStep(w, g))
  <2> DEFINE h0 == [g EXCEPT !.pendingRead = 0]
             a == SnapStep(g, "C", HotId(w, g) \cup ExistingId(g))
             b == Given([g EXCEPT !.pendingRead = 1], Step("scan", "C"))
             c == Given([g EXCEPT !.pendingRead = 2], Step("get", "C"))
             d == BatchSteps(w, h0, "C", w.updates, "update")
  <2>1. Ready("update", w.updates, w.batch, h0)
    BY <1>1 DEF Ready
  <2>2. Fine(g, d)
    <3>1. Near(g, h0) /\ h0.snapPending = g.snapPending
      BY <1>1, Touched
    <3> HIDE DEF h0
    <3> QED
      BY <1>6, <1>2a, <2>1, <3>1
  <2>3. Fine(g, b) /\ Fine(g, c)
    BY <1>1, <1>3, Touched
  <2>4. SnapDue(g) => Fine(g, a)
    BY <1>4, <1>6
  <2> DEFINE due == SnapDue(g)
             scan == ~SnapDue(g) /\ g.inPhase > 0 /\ g.inPhase % ScanEvery = 0 /\ g.pendingRead = 0
             get == ~SnapDue(g) /\ g.inPhase > 0 /\ g.inPhase % GetEvery = 0 /\ g.pendingRead < 2
                      /\ ~(g.inPhase % ScanEvery = 0 /\ g.pendingRead = 0)
  <2>5. UpdateStep(w, g) = CASE due -> a [] scan -> b [] get -> c [] OTHER -> d
    BY Zenon DEF UpdateStep
  <2>6. ~(due /\ scan) /\ ~(due /\ get) /\ ~(scan /\ get)
    OBVIOUS
  <2>7. due => Fine(g, a)
    BY <2>4
  <2> HIDE DEF a, b, c, d, due, scan, get
  <2> QED
    BY <2>2, <2>3, <2>5, <2>6, <2>7
<1>7. ASSUME g.phase = 4, g.sub < w.deletes
      PROVE  Fine(g, DeleteStep(w, g))
  <2> DEFINE h0 == [g EXCEPT !.pendingRead = 0]
             b == Given([g EXCEPT !.pendingRead = 1], Step("get", "D"))
             c == BatchSteps(w, h0, "D", w.deletes, "delete")
             d == BatchSteps(w, h0, "D", w.deletes, "purge")
  <2>1. Fine(g, b)
    BY <1>1, <1>3, Touched
  <2>2. Ready("delete", w.deletes, w.batch, h0)
    BY <1>1 DEF Ready
  <2>3. Fine(g, c)
    <3>1. Near(g, h0) /\ h0.snapPending = g.snapPending
      BY <1>1, Touched
    <3> HIDE DEF h0
    <3> QED
      BY <1>7, <1>2a, <2>2, <3>1
  <2>4. g.delNext < g.delLo + DelRange(w) => Fine(g, d)
    <3> HAVE g.delNext < g.delLo + DelRange(w)
    <3>1. g.delLo + DelRange(w) < w.load + w.insert
      BY <1>1, <1>7 DEF GenOk, InBounds
    <3>2. /\ w.batch <= w.mixedNew + 2 /\ w.universe = w.load + w.insert + w.mixedNew
          /\ w.load \in Nat /\ w.mixedNew \in Nat /\ DelRange(w) \in Nat
      BY Shape
    <3>3. g.delNext + w.batch <= w.universe
      BY <1>1, <3>1, <3>2
    <3>4. h0.delNext = g.delNext
      BY <1>1 DEF Gen
    <3> HIDE DEF h0
    <3>5. Ready("purge", w.deletes, w.batch, h0)
      BY <1>1, <3>3, <3>4 DEF Ready
    <3>6. Near(g, h0) /\ h0.snapPending = g.snapPending
      BY <1>1, Touched DEF h0
    <3> QED
      BY <1>7, <1>2a, <3>5, <3>6
  <2>5. DeleteStep(w, g) = IF g.inPhase > 0 /\ g.inPhase % GetEvery = 0 /\ g.pendingRead = 0
                           THEN b ELSE c \cup (IF g.delNext < g.delLo + DelRange(w) THEN d ELSE {})
    BY Zenon DEF DeleteStep
  <2>6. c \cup {} = c
    OBVIOUS
  <2> HIDE DEF b, c, d
  <2> QED
    BY <2>1, <2>3, <2>4, <2>5, <2>6, FineUnion
<1>8. ASSUME g.phase = 5
      PROVE  Fine(g, MixedStep(w, g))
  <2> DEFINE a == SnapStep(g, "E", HotId(w, g) \cup ExistingId(g))
             b == Given(g, Step("get", "E"))
             c == Given(g, Step("scan", "E"))
             d == BatchSteps(w, g, "E", w.mixed, "mixed")
  <2>1. Fine(g, b) /\ Fine(g, c)
    BY <1>1, <1>3, Touched
  <2>2. Ready("mixed", w.mixed, w.batch, g)
    BY <1>1 DEF Ready
  <2>3. Fine(g, d)
    <3>1. Near(g, g)
      BY <1>1, Touched
    <3> QED
      BY <1>8, <1>2a, <2>2, <3>1
  <2>4. SnapDue(g) => Fine(g, a)
    BY <1>4, <1>8
  <2>5. MixedStep(w, g) = IF SnapDue(g) THEN a ELSE b \cup c \cup d
    BY Zenon DEF MixedStep
  <2> HIDE DEF a, b, c, d
  <2>6. Fine(g, b \cup c)
    BY <2>1, FineUnion
  <2> QED
    BY <2>3, <2>4, <2>5, <2>6, FineUnion
<1>9. ASSUME g.phase = 6
      PROVE  Fine(g, ExtensionStep(w, g))
  <2> DEFINE b == Given(g, Step("get", "X"))
             c == Given(g, Step("scan", "X"))
             d == BatchSteps(w, g, "X", g.sub + w.batch, "extend")
  <2>1. Fine(g, b) /\ Fine(g, c)
    BY <1>1, <1>3, Touched
  <2>2. Ready("extend", g.sub + w.batch, w.batch, g)
    BY <1>1 DEF Ready
  <2>3. Fine(g, d)
    <3>1. Near(g, g)
      BY <1>1, Touched
    <3> QED
      BY <1>9, <1>2a, <2>2, <3>1
  <2>4. ExtensionStep(w, g) = b \cup c \cup d
    BY DEF ExtensionStep
  <2> HIDE DEF b, c, d
  <2>5. Fine(g, b \cup c)
    BY <2>1, FineUnion
  <2> QED
    BY <2>3, <2>4, <2>5, FineUnion
<1> QED
  BY <1>5, <1>6, <1>7, <1>8, <1>9

\* The batches that are steps of an appending workload.
AppendSteps(h, ext, phase) ==
  {[g |-> [x.g EXCEPT !.inPhase = @ + 1],
    step |-> [Step("batch", phase) EXCEPT !.ops = x.ops]] : x \in AppendOps(w, h, ext)}

\* They are some, and what a step of the generator can be.
LEMMA AppendStepFits ==
  ASSUME w \in Workloads, w.dist = "append", NEW g, GenOk(g), g.phase > 0,
         NEW h, Near(g, h), h.snapPending = g.snapPending, NEW ext, NEW phase
  PROVE  Fine(g, AppendSteps(h, ext, phase))
<1> DEFINE Made(x) == [g |-> [x.g EXCEPT !.inPhase = @ + 1],
                       step |-> [Step("batch", phase) EXCEPT !.ops = x.ops]]
<1>1. /\ InBounds(g) /\ InBounds(h) /\ g.inPhase \in Nat /\ h.inPhase = g.inPhase
      /\ \A m : Matches(g, m) => Matches(h, m)
      /\ g.phase \in Nat /\ h.phase = g.phase /\ h.head = g.head /\ h.purged = g.purged
  BY NearBounds, Fields DEF GenOk, InBounds, Near
<1>2. /\ AppendOps(w, h, ext) # {}
      /\ \A x \in AppendOps(w, h, ext) :
           /\ x.ops \in Seq(Operation) /\ InBounds(x.g) /\ Steady(h, x.g)
           /\ \A m \in Models : Live(m.ver) = Window(h) =>
                                  Live(ReplayBatch(m, x.ops).ver) = Window(x.g)
           /\ w.window > 0 /\ h.head - h.purged <= w.window
                => x.g.head - x.g.purged <= w.window
  BY <1>1, AppendFits
<1>3. ASSUME NEW x \in AppendOps(w, h, ext)
      PROVE  Generates(g, Made(x))
  <2> DEFINE u == [x.g EXCEPT !.inPhase = @ + 1]
             r == Made(x)
  <2>1. /\ x.ops \in Seq(Operation) /\ InBounds(x.g) /\ x.g \in Gen
        /\ x.g.phase = g.phase /\ x.g.inPhase = g.inPhase /\ x.g.snapPending = g.snapPending
    BY <1>1, <1>2 DEF Steady, InBounds
  <2>2. /\ u \in Gen /\ u.phase = g.phase /\ u.inPhase = g.inPhase + 1
        /\ u.snapPending = g.snapPending /\ u.head = x.g.head /\ u.purged = x.g.purged
        /\ u.maxWritten = x.g.maxWritten /\ u.hotLo = x.g.hotLo /\ u.delLo = x.g.delLo
    <3>1. u = [x.g EXCEPT !.inPhase = g.inPhase + 1] /\ g.inPhase + 1 \in Nat
      BY <1>1, <2>1
    <3> HIDE DEF u
    <3>2. u \in Gen
      BY <2>1, <3>1 DEF Gen
    <3>3. /\ u.phase = x.g.phase /\ u.inPhase = g.inPhase + 1
          /\ u.snapPending = x.g.snapPending /\ u.head = x.g.head /\ u.purged = x.g.purged
          /\ u.maxWritten = x.g.maxWritten /\ u.hotLo = x.g.hotLo /\ u.delLo = x.g.delLo
      BY <2>1, <3>1 DEF Gen
    <3> QED
      BY <2>1, <3>2, <3>3
  <2>3. r.g = u /\ r.step.ops = x.ops /\ r.step.kind = "batch"
    BY DEF Step
  <2> HIDE DEF u, r
  <2>4. InBounds(u)
    BY <2>1, <2>2 DEF InBounds
  <2>5. GenOk(u)
    <3>1. u.inPhase > 0 /\ u.phase > 0
      BY <1>1, <2>2
    <3>2. w.window > 0 => u.head - u.purged <= w.window
      BY <1>1, <1>2, <2>2 DEF GenOk
    <3> QED
      BY <2>2, <2>4, <3>1, <3>2 DEF GenOk
  <2>6. ASSUME NEW m \in Models, Matches(g, m)
        PROVE  Matches(u, ReplayBatch(m, x.ops))
    <3>1. Live(m.ver) = Window(h)
      BY <1>1, <2>6 DEF Matches
    <3>2. Live(ReplayBatch(m, x.ops).ver) = Window(x.g)
      BY <1>2, <3>1
    <3>3. Window(x.g) = Window(u)
      BY <2>2 DEF Window
    <3> QED
      BY <3>2, <3>3 DEF Matches
  <2>7. Generates(g, r)
    BY <2>1, <2>2, <2>3, <2>5, <2>6 DEF Generates, Kinds
  <2> QED
    BY <2>7 DEF r
<1> HIDE DEF Made
<1>4. Fine(g, {Made(x) : x \in AppendOps(w, h, ext)})
  BY <1>2, <1>3 DEF Fine
<1> QED
  BY <1>4 DEF Made, AppendSteps

\* The main phase of the other workloads, and their phase X.
LEMMA OtherMainFits ==
  ASSUME w \in Workloads, w.dist # "mixed", NEW g, GenOk(g), g.phase > 0,
         NEW phase, phase = Phases(w)[g.phase], phase \in {"B", "X"}
  PROVE  Fine(g, OtherMainStep(w, g, phase))
<1> DEFINE ext    == phase = "X"
           quota  == IF ext THEN g.sub + w.batch ELSE w.updates
           begins == w.burst > 0 /\ g.burstLeft = 0
           h == IF w.burst = 0 THEN g
                ELSE [g EXCEPT !.burstLeft = (IF begins THEN w.burst ELSE @) - 1,
                               !.lullLeft = IF begins THEN w.burst \div 4 + 1 ELSE @]
           appended == AppendSteps(h, ext, phase)
           written == {[x EXCEPT !.g.sub = IF ext THEN g.sub ELSE @] :
                         x \in BatchSteps(w, h, phase, quota, "other")}
           batches_ == IF w.dist = "append" THEN appended ELSE written
           snap == SnapStep(g, phase, SnapSampleId(w, g))
           lull == Given([g EXCEPT !.lullLeft = @ - 1], Step("get", phase))
           reads == Given(g, Step("get", phase)) \cup Given(g, Step("scan", phase))
           due == w.snapshots /\ ~ext /\ SnapDue(g)
           quiet == ~due /\ w.burst > 0 /\ g.lullLeft > 0
<1>1. /\ g \in Gen /\ InBounds(g) /\ g.phase \in Nat /\ g.sub \in Nat /\ g.lullLeft \in Nat
      /\ g.burstLeft \in Nat /\ w.burst \in Nat /\ w.batch \in Nat /\ w.updates \in Nat
  BY Fields, Shape DEF GenOk, InBounds
<1>2. OtherMainStep(w, g, phase) =
        CASE due -> snap [] quiet -> lull
          [] OTHER -> batches_ \cup (IF w.burst > 0 THEN {} ELSE reads)
  BY Zenon DEF OtherMainStep, AppendSteps
<1>3. due => Fine(g, snap)
  BY SnapStepsFit DEF Fine
<1>4. quiet => Fine(g, lull)
  <2> HAVE quiet
  <2> DEFINE v == [g EXCEPT !.lullLeft = g.lullLeft - 1]
  <2>1. g.lullLeft - 1 \in Nat
    BY <1>1
  <2>2. Near(g, v) /\ v.snapPending = g.snapPending
    BY <1>1, <2>1 DEF Near, Gen
  <2> HIDE DEF v
  <2>3. Fine(g, Given(v, Step("get", phase)))
    BY <2>2, ReadsFit DEF Fine
  <2> QED
    BY <2>3 DEF v
<1>5. Fine(g, reads)
  <2>1. Near(g, g)
    BY <1>1, Touched
  <2>2. Fine(g, Given(g, Step("get", phase))) /\ Fine(g, Given(g, Step("scan", phase)))
    BY <2>1, ReadsFit DEF Fine
  <2> QED
    BY <2>2, FineUnion
<1>6. Near(g, h) /\ h.snapPending = g.snapPending
  <2>1. CASE w.burst = 0
    BY <1>1, <2>1, Touched
  <2>2. CASE w.burst # 0
    <3> DEFINE a == (IF begins THEN w.burst ELSE g.burstLeft) - 1
               b == IF begins THEN w.burst \div 4 + 1 ELSE g.lullLeft
               v == [g EXCEPT !.burstLeft = a]
    <3>1. a \in Nat /\ b \in Nat
      BY <1>1, <2>2
    <3>2. h = [v EXCEPT !.lullLeft = b]
      BY <2>2
    <3> HIDE DEF a, b, h
    <3>3. /\ v \in Gen /\ Near(g, v) /\ v.snapPending = g.snapPending
      BY <1>1, <3>1 DEF Gen, Near
    <3> HIDE DEF v
    <3>4. h \in Gen /\ Near(v, h) /\ h.snapPending = v.snapPending
      BY <3>1, <3>2, <3>3 DEF Gen, Near
    <3> QED
      BY <3>3, <3>4 DEF Near
  <2> QED
    BY <2>1, <2>2
<1> HIDE DEF h
<1>7. w.dist = "append" => Fine(g, appended)
  <2> HIDE DEF ext
  <2> QED
    BY <1>6, AppendStepFits
<1>8. w.dist # "append" => Fine(g, written)
  <2> HAVE w.dist # "append"
  <2> DEFINE S == BatchSteps(w, h, phase, quota, "other")
             v(x) == IF ext THEN g.sub ELSE x.g.sub
             Moved(x) == [g |-> [x.g EXCEPT !.sub = v(x)], step |-> x.step]
  <2>1. Ready("other", quota, w.batch, h)
    BY <1>1 DEF Ready
  <2>2. S # {} /\ \A x \in S : Generates(g, x)
    BY <1>6, <2>1, BatchStepsFit
  <2>3. \A x \in S : x = [g |-> x.g, step |-> x.step]
    BY DEF BatchSteps
  <2> HIDE DEF S
  <2>4. ASSUME NEW x \in S
        PROVE  [x EXCEPT !.g.sub = IF ext THEN g.sub ELSE @] = Moved(x)
    <3>1. PICK a, b : a = x.g /\ b = x.step
      OBVIOUS
    <3>2. x = [g |-> a, step |-> b]
      BY <2>3, <3>1
    <3>3. [x EXCEPT !.g.sub = v(x)] = [g |-> [a EXCEPT !.sub = v(x)], step |-> b]
      <4> HIDE DEF v
      <4> QED
        BY <3>2
    <3> QED
      BY <3>1, <3>3
  <2>5. ASSUME NEW x \in S
        PROVE  Generates(g, Moved(x))
    <3> DEFINE u == [x.g EXCEPT !.sub = v(x)]
    <3>1. Generates(g, x) /\ x.g \in Gen /\ x.g.sub \in Nat
      BY <2>2, Fields DEF Generates, GenOk, InBounds
    <3>2. /\ u \in Gen /\ u.phase = x.g.phase /\ u.inPhase = x.g.inPhase
          /\ u.snapPending = x.g.snapPending /\ u.head = x.g.head /\ u.purged = x.g.purged
          /\ u.maxWritten = x.g.maxWritten /\ u.hotLo = x.g.hotLo /\ u.delLo = x.g.delLo
      <4>1. v(x) \in Nat
        BY <1>1, <3>1
      <4> HIDE DEF v
      <4> QED
        BY <3>1, <4>1 DEF Gen
    <3>3. Moved(x).g = u /\ Moved(x).step = x.step
      OBVIOUS
    <3> HIDE DEF u, Moved
    <3>4. InBounds(u) /\ GenOk(u)
      BY <3>1, <3>2 DEF Generates, GenOk, InBounds
    <3>5. \A m : Matches(u, m)
      BY DEF Matches
    <3> QED
      BY <3>1, <3>2, <3>3, <3>4, <3>5 DEF Generates
  <2>6. written = {Moved(x) : x \in S}
    <3> DEFINE Set(x) == [x EXCEPT !.g.sub = IF ext THEN g.sub ELSE @]
    <3>1. written = {Set(x) : x \in S}
      BY DEF S
    <3>2. \A x \in S : Set(x) = Moved(x)
      BY <2>4
    <3> HIDE DEF written, Moved, Set
    <3> QED
      BY <3>1, <3>2
  <2> HIDE DEF Moved, written
  <2> QED
    BY <2>2, <2>5, <2>6 DEF Fine
<1> HIDE DEF appended, written, snap, lull, reads, due
<1>9. Fine(g, batches_)
  BY <1>7, <1>8
<1>10. batches_ \cup {} = batches_
  OBVIOUS
<1> HIDE DEF batches_
<1>11. Fine(g, batches_ \cup reads)
  BY <1>5, <1>9, FineUnion
<1> QED
  BY <1>2, <1>3, <1>4, <1>9, <1>10, <1>11

\* The phases of a workload; the last is X.
LEMMA PhasesAre ==
  ASSUME w \in Workloads
  PROVE  /\ w.dist = "mixed" => Phases(w) = <<"A", "B", "C", "D", "E", "X">>
         /\ w.dist = "append" => Phases(w) = <<"B", "X">>
         /\ w.dist \notin {"mixed", "append"} => Phases(w) = <<"A", "B", "X">>
         /\ w.dist = "mixed" =>
              /\ Len(Phases(w)) = 6 /\ Phases(w)[1] = "A" /\ Phases(w)[2] = "B" /\ Phases(w)[3] = "C"
              /\ Phases(w)[4] = "D" /\ Phases(w)[5] = "E" /\ Phases(w)[6] = "X"
         /\ w.dist = "append" => Len(Phases(w)) = 2 /\ Phases(w)[1] = "B" /\ Phases(w)[2] = "X"
         /\ w.dist \notin {"mixed", "append"} =>
              Len(Phases(w)) = 3 /\ Phases(w)[1] = "A" /\ Phases(w)[2] = "B" /\ Phases(w)[3] = "X"
<1>1. w.dist = "append" => w.load = 0
  BY Shape
<1>2. w.dist # "append" => w.load # 0
  <2>1. w.dist # "append" => w.load \in 1 .. w.universe
    BY Shape
  <2>2. w.universe \in Nat
    BY Shape
  <2> QED
    BY <2>1, <2>2
<1> QED
  BY <1>1, <1>2 DEF Phases

\* The marker of the next phase.
LEMMA MarkerFits ==
  ASSUME w \in Workloads, NEW g, GenOk(g), ~g.snapPending, g.phase < Len(Phases(w)),
         w.dist = "mixed" => /\ g.phase = 1 => g.sub >= w.load
                             /\ g.phase = 2 => g.sub >= w.insert
  PROVE  Fine(g, Marker(w, g))
<1> DEFINE phase == Phases(w)[g.phase + 1]
           mixedNew == IF phase = "E" THEN w.load + w.insert ELSE g.mixedNew
           taken    == IF phase = "E" THEN NoSnap ELSE g.snapTakenAt
           head     == IF phase = "B" THEN w.load ELSE g.head
           h == [g EXCEPT !.phase = g.phase + 1, !.sub = 0, !.inPhase = 0, !.mixedNew = mixedNew,
                          !.snapTakenAt = taken, !.head = head]
           r == [g |-> h, step |-> Step("phase", phase)]
<1>1. /\ g \in Gen /\ InBounds(g) /\ g.phase \in Nat /\ g.sub \in Nat /\ w.load \in Nat
      /\ w.insert \in Nat
  BY Fields, Shape DEF GenOk, InBounds
<1>2. Marker(w, g) = {r}
  BY DEF Marker, Given
<1>3. /\ h \in Gen /\ h.phase = g.phase + 1 /\ h.sub = 0 /\ h.inPhase = 0 /\ h.head = head
      /\ h.maxWritten = g.maxWritten /\ h.hotLo = g.hotLo /\ h.delLo = g.delLo
      /\ h.purged = g.purged /\ h.snapPending = g.snapPending
  <2>1. /\ g.phase + 1 \in Nat /\ mixedNew \in Nat /\ taken \in Int /\ head \in Nat
    <3>1. /\ g.mixedNew \in Nat /\ g.snapTakenAt \in Int /\ g.head \in Nat /\ NoSnap \in Int
          /\ w.load + w.insert \in Nat
      <4>1. g.mixedNew \in Nat /\ g.snapTakenAt \in Int /\ g.head \in Nat
        BY <1>1 DEF Gen
      <4>2. NoSnap \in Int /\ w.load + w.insert \in Nat
        BY <1>1 DEF NoSnap
      <4> QED
        BY <4>1, <4>2
    <3>2. g.phase + 1 \in Nat
      BY <1>1
    <3> HIDE DEF phase
    <3> QED
      BY <1>1, <3>1, <3>2
  <2> HIDE DEF mixedNew, taken, head, phase
  <2> DEFINE h1 == [g EXCEPT !.phase = g.phase + 1]
             h2 == [h1 EXCEPT !.sub = 0]
             h3 == [h2 EXCEPT !.inPhase = 0]
             h4 == [h3 EXCEPT !.mixedNew = mixedNew]
             h5 == [h4 EXCEPT !.snapTakenAt = taken]
             h6 == [h5 EXCEPT !.head = head]
  <2>2. h = h6
    OBVIOUS
  <2>3. h1 \in Gen /\ h1.phase = g.phase + 1 /\ h1.head = g.head
        /\ h1.maxWritten = g.maxWritten /\ h1.hotLo = g.hotLo /\ h1.delLo = g.delLo
        /\ h1.purged = g.purged /\ h1.snapPending = g.snapPending
    BY <1>1, <2>1 DEF Gen
  <2> HIDE DEF h1
  <2>4. h2 \in Gen /\ h2.sub = 0 /\ h2.phase = h1.phase
        /\ h2.maxWritten = h1.maxWritten /\ h2.hotLo = h1.hotLo /\ h2.delLo = h1.delLo
        /\ h2.purged = h1.purged /\ h2.snapPending = h1.snapPending
    BY <2>3 DEF Gen
  <2> HIDE DEF h2
  <2>5. h3 \in Gen /\ h3.inPhase = 0 /\ h3.sub = h2.sub /\ h3.phase = h2.phase
        /\ h3.maxWritten = h2.maxWritten /\ h3.hotLo = h2.hotLo /\ h3.delLo = h2.delLo
        /\ h3.purged = h2.purged /\ h3.snapPending = h2.snapPending
    BY <2>4 DEF Gen
  <2> HIDE DEF h3
  <2>6. h4 \in Gen /\ h4.inPhase = h3.inPhase /\ h4.sub = h3.sub /\ h4.phase = h3.phase
        /\ h4.maxWritten = h3.maxWritten /\ h4.hotLo = h3.hotLo /\ h4.delLo = h3.delLo
        /\ h4.purged = h3.purged /\ h4.snapPending = h3.snapPending
    BY <2>1, <2>5 DEF Gen
  <2> HIDE DEF h4
  <2>7. h5 \in Gen /\ h5.inPhase = h4.inPhase /\ h5.sub = h4.sub /\ h5.phase = h4.phase
        /\ h5.maxWritten = h4.maxWritten /\ h5.hotLo = h4.hotLo /\ h5.delLo = h4.delLo
        /\ h5.purged = h4.purged /\ h5.snapPending = h4.snapPending
    BY <2>1, <2>6 DEF Gen
  <2> HIDE DEF h5
  <2>8. h6 \in Gen /\ h6.inPhase = h5.inPhase /\ h6.sub = h5.sub /\ h6.phase = h5.phase
        /\ h6.maxWritten = h5.maxWritten /\ h6.hotLo = h5.hotLo /\ h6.delLo = h5.delLo
        /\ h6.purged = h5.purged /\ h6.snapPending = h5.snapPending /\ h6.head = head
    BY <2>1, <2>7 DEF Gen
  <2> HIDE DEF h, h6
  <2> QED
    BY <2>2, <2>3, <2>4, <2>5, <2>6, <2>7, <2>8
<1>4. r.g = h /\ r.step.kind = "phase" /\ r.step.ops \in Seq(Operation)
  <2>1. PICK p : p = phase
    OBVIOUS
  <2>2. r.g = h /\ r.step = Step("phase", phase)
    OBVIOUS
  <2> HIDE DEF r, h, phase
  <2>3. r.step = Step("phase", p)
    BY <2>1, <2>2
  <2>4. Step("phase", p).kind = "phase" /\ Step("phase", p).ops = <<>>
    BY DEF Step
  <2>5. <<>> \in Seq(Operation)
    OBVIOUS
  <2> QED
    BY <2>2, <2>3, <2>4, <2>5
<1>5. w.dist = "append" => head = g.head
  <2>1. w.dist = "append" => Phases(w) = <<"B", "X">> /\ w.load = 0
    BY PhasesAre, Shape
  <2>2. w.dist = "append" /\ phase = "B" => g.phase = 0
    <3>1. w.dist = "append" => Len(Phases(w)) = 2 /\ Phases(w)[2] = "X"
      BY <2>1
    <3>2. \A n \in Nat : n < 2 => n = 0 \/ n = 1
      OBVIOUS
    <3>3. w.dist = "append" => g.phase = 0 \/ g.phase = 1
      BY <1>1, <3>1, <3>2
    <3> QED
      BY <3>1, <3>3
  <2>3. g.phase = 0 => g.head = 0
    BY DEF GenOk
  <2> HIDE DEF phase
  <2> QED
    BY <2>1, <2>2, <2>3
<1> HIDE DEF head, h, r, phase
<1>6. InBounds(h)
  <2>1. h.phase <= Len(Phases(w))
    <3>1. Len(Phases(w)) \in Nat
      BY PhasesAre
    <3> QED
      BY <1>1, <1>3, <3>1
  <2> QED
    BY <1>1, <1>3, <1>5, <2>1 DEF InBounds
<1>7. GenOk(h)
  <2>1. h.phase # 0
    BY <1>1, <1>3
  <2> QED
    BY <1>3, <1>5, <1>6, <2>1 DEF GenOk
<1>8. ASSUME NEW m \in Models, Matches(g, m)
      PROVE  Matches(h, m)
  <2>1. w.dist = "append" => Live(m.ver) = Window(h)
    BY <1>3, <1>5, <1>8 DEF Matches, Window
  <2>2. ASSUME w.dist = "mixed"
        PROVE  /\ h.phase = 0 => Live(m.ver) = {} /\ m.wseq = 0
               /\ h.phase = 1 => /\ h.sub <= w.load
                                 /\ Live(m.ver) = 0 .. h.sub - 1 /\ m.wseq = h.sub
    <3>1. h.phase # 0 /\ (h.phase = 1 => g.phase = 0)
      BY <1>1, <1>3
    <3>2. 0 .. 0 - 1 = {}
      OBVIOUS
    <3> QED
      BY <1>1, <1>3, <1>8, <2>2, <3>1, <3>2 DEF Matches
  <2>3. ASSUME w.dist = "mixed", h.phase = 2
        PROVE  /\ h.sub <= w.insert
               /\ Live(m.ver) = (0 .. w.load - 1) \cup {w.load + w.perm[i] : i \in 0 .. h.sub - 1}
               /\ m.wseq = w.load + h.sub
    <3>1. g.phase = 1
      BY <1>1, <1>3, <2>3
    <3>2. g.sub = w.load /\ Live(m.ver) = 0 .. w.load - 1 /\ m.wseq = w.load
      BY <1>1, <1>8, <2>3, <3>1 DEF Matches
    <3>3. 0 .. h.sub - 1 = {}
      BY <1>3
    <3> DEFINE P(S) == {w.load + w.perm[i] : i \in S}
    <3>4. P({}) = {}
      OBVIOUS
    <3>5. P(0 .. h.sub - 1) = {}
      <4> HIDE DEF P
      <4> QED
        BY <3>3, <3>4
    <3> QED
      BY <1>1, <1>3, <3>2, <3>5
  <2>4. ASSUME w.dist = "mixed", h.phase = 3
        PROVE  /\ Live(m.ver) = (0 .. w.load - 1) \cup {w.load + w.perm[i] : i \in 0 .. w.insert - 1}
               /\ m.wseq = w.load + w.insert
    <3>1. g.phase = 2
      BY <1>1, <1>3, <2>4
    <3>2. g.sub = w.insert
      BY <1>1, <1>8, <2>4, <3>1 DEF Matches
    <3> QED
      BY <1>8, <2>4, <3>1, <3>2 DEF Matches
  <2> QED
    BY <2>1, <2>2, <2>3, <2>4 DEF Matches
<1>9. Generates(g, r)
  BY <1>3, <1>4, <1>7, <1>8 DEF Generates, Kinds
<1> QED
  BY <1>2, <1>9 DEF Fine

\* The check of a snapshot at the end of its phase.
LEMMA LastCheckFits ==
  ASSUME NEW g, GenOk(g), g.snapPending, NEW phase
  PROVE  Fine(g, SnapCheck(g, phase))
<1> DEFINE h == [g EXCEPT !.snapPending = FALSE]
           r == [g |-> h, step |-> Step("snapCheck", phase)]
<1>1. g \in Gen /\ InBounds(g)
  BY DEF GenOk, InBounds
<1>2. SnapCheck(g, phase) = {r}
  BY DEF SnapCheck, Given
<1>3. Near(g, h) /\ h.snapPending = FALSE
  BY <1>1 DEF Near, Gen
<1>4. r.g = h /\ r.step.kind = "snapCheck" /\ r.step.ops \in Seq(Operation)
  BY StepIs
<1> HIDE DEF h, r
<1>5. InBounds(h) /\ \A m : Matches(g, m) => Matches(h, m)
  BY <1>1, <1>3, NearBounds
<1>6. GenOk(h)
  BY <1>3, <1>5 DEF GenOk, Near
<1>7. Generates(g, r)
  BY <1>3, <1>4, <1>5, <1>6 DEF Generates, Kinds
<1> QED
  BY <1>2, <1>7 DEF Fine

\* The steps of the phase the generator is in, which is not over.
LEMMA PhaseStepFits ==
  ASSUME w \in Workloads, NEW g, GenOk(g), g.phase > 0, NEW phase, phase = Phases(w)[g.phase],
         phase # "X" => g.sub < Quota(w, phase)
  PROVE  Fine(g, PhaseStep(w, g, phase))
<1>1. g.phase \in Nat /\ g.phase <= Len(Phases(w))
  BY Fields DEF GenOk, InBounds
<1>2. CASE w.dist = "mixed"
  <2>0. Len(Phases(w)) = 6 /\ \A n \in Nat : n > 0 /\ n <= 6 => n \in {1, 2, 3, 4, 5, 6}
    BY <1>2, PhasesAre
  <2>1. Phases(w) = <<"A", "B", "C", "D", "E", "X">> /\ g.phase \in {1, 2, 3, 4, 5, 6}
    BY <1>1, <1>2, <2>0, PhasesAre
  <2>2. CASE g.phase = 1
    <3>1. phase = "A" /\ Phases(w)[1] = "A" /\ w.dist # "append"
      BY <1>2, <2>1, <2>2
    <3> QED
      BY <1>2, <2>2, <3>1, LoadStepFits DEF PhaseStep, Fine
  <2>3. CASE g.phase = 2
    <3>1. phase = "B"
      BY <2>1, <2>3
    <3> QED
      BY <1>2, <2>3, <3>1, MixedPhasesFit DEF PhaseStep
  <2>4. CASE g.phase = 3
    <3>1. phase = "C"
      BY <2>1, <2>4
    <3> QED
      BY <1>2, <2>4, <3>1, MixedPhasesFit DEF PhaseStep
  <2>5. CASE g.phase = 4
    <3>1. phase = "D"
      BY <2>1, <2>5
    <3>2. g.sub < w.deletes
      BY <3>1 DEF Quota
    <3> QED
      BY <1>2, <2>5, <3>1, <3>2, MixedPhasesFit DEF PhaseStep
  <2>6. CASE g.phase = 5
    <3>1. phase = "E"
      BY <2>1, <2>6
    <3> QED
      BY <1>2, <2>6, <3>1, MixedPhasesFit DEF PhaseStep
  <2>7. CASE g.phase = 6
    <3>1. phase = "X"
      BY <2>1, <2>7
    <3> QED
      BY <1>2, <2>7, <3>1, MixedPhasesFit DEF PhaseStep
  <2> QED
    BY <2>1, <2>2, <2>3, <2>4, <2>5, <2>6, <2>7
<1>3. CASE w.dist # "mixed"
  <2>1. \/ w.dist = "append" /\ phase \in {"B", "X"}
        \/ w.dist # "append" /\ phase \in {"B", "X"}
        \/ w.dist # "append" /\ g.phase = 1 /\ phase = "A" /\ Phases(w)[1] = "A"
    <3>1. w.dist = "append" => Len(Phases(w)) = 2 /\ Phases(w)[1] = "B" /\ Phases(w)[2] = "X"
      BY PhasesAre
    <3>2. w.dist # "append" => Len(Phases(w)) = 3 /\ Phases(w)[1] = "A" /\ Phases(w)[2] = "B"
                               /\ Phases(w)[3] = "X"
      BY <1>3, PhasesAre
    <3>3. CASE w.dist = "append"
      <4>1. \A n \in Nat : n > 0 /\ n <= 2 => n = 1 \/ n = 2
        OBVIOUS
      <4>2. g.phase = 1 \/ g.phase = 2
        BY <1>1, <3>1, <3>3, <4>1
      <4> QED
        BY <3>1, <3>3, <4>2
    <3>4. CASE w.dist # "append"
      <4>1. g.phase = 1 \/ g.phase = 2 \/ g.phase = 3
        BY <1>1, <3>2, <3>4
      <4> QED
        BY <3>2, <3>4, <4>1
    <3> QED
      BY <3>3, <3>4
  <2>2. CASE phase \in {"B", "X"}
    BY <1>3, <2>2, OtherMainFits DEF PhaseStep
  <2>3. CASE w.dist # "append" /\ g.phase = 1 /\ phase = "A" /\ Phases(w)[1] = "A"
    BY <1>3, <2>3, LoadStepFits DEF PhaseStep, Fine
  <2> QED
    BY <2>1, <2>2, <2>3
<1> QED
  BY <1>2, <1>3

\* The operations of a phase are a number.
LEMMA QuotaIs ==
  ASSUME w \in Workloads, NEW phase \in {"A", "B", "C", "D", "E"}
  PROVE  Quota(w, phase) \in Nat
<1>1. /\ w.load \in Nat /\ w.insert \in Nat /\ w.updates \in Nat /\ w.deletes \in Nat
      /\ w.mixed \in Nat
  BY Shape
<1> QED
  BY <1>1 DEF Quota

\* What Next may return; something, while a snapshot is to be checked.
LEMMA NextStepFits ==
  ASSUME w \in Workloads, NEW g, GenOk(g), NEW ext
  PROVE  /\ \A r \in NextStep(w, g, ext) : Generates(g, r)
         /\ g.snapPending => NextStep(w, g, ext) # {}
<1>1. g.phase \in Nat /\ g.phase <= Len(Phases(w)) /\ g.sub \in Nat /\ g.snapPending \in BOOLEAN
  BY Fields DEF GenOk, InBounds
<1>2. Len(Phases(w)) \in Nat \ {0}
  BY PhasesAre
<1>3. CASE g.phase = 0
  <2>1. ~g.snapPending /\ g.phase < Len(Phases(w)) /\ g.phase # 1 /\ g.phase # 2
    BY <1>1, <1>2, <1>3 DEF GenOk
  <2>2. Fine(g, Marker(w, g))
    BY <2>1, MarkerFits
  <2> QED
    BY <1>3, <2>1, <2>2 DEF NextStep, Fine
<1>4. CASE g.phase > 0
  <2> DEFINE phase == Phases(w)[g.phase]
             over  == phase # "X" /\ g.sub >= Quota(w, phase)
  <2>1. NextStep(w, g, ext) = IF over THEN PhaseEnd(w, g, ext) ELSE PhaseStep(w, g, phase)
    BY <1>1, <1>4 DEF NextStep
  <2>2. phase \in {"A", "B", "C", "D", "E", "X"} /\ (phase # "X" => g.phase < Len(Phases(w)))
    <3>1. CASE w.dist = "mixed"
      <4>1. Len(Phases(w)) = 6 /\ \A n \in Nat : n > 0 /\ n <= 6 => n \in {1, 2, 3, 4, 5, 6}
        BY <3>1, PhasesAre
      <4>2. g.phase \in {1, 2, 3, 4, 5, 6}
        BY <1>1, <1>4, <4>1
      <4> QED
        BY <3>1, <4>1, <4>2, PhasesAre
    <3>2. CASE w.dist = "append"
      <4>1. Len(Phases(w)) = 2
        BY <3>2, PhasesAre
      <4>2. g.phase = 1 \/ g.phase = 2
        BY <1>1, <1>4, <4>1
      <4> QED
        BY <3>2, <4>1, <4>2, PhasesAre
    <3>3. CASE w.dist \notin {"mixed", "append"}
      <4>1. Len(Phases(w)) = 3
        BY <3>3, PhasesAre
      <4>2. g.phase = 1 \/ g.phase = 2 \/ g.phase = 3
        BY <1>1, <1>4, <4>1
      <4> QED
        BY <3>3, <4>1, <4>2, PhasesAre
    <3> QED
      BY <3>1, <3>2, <3>3
  <2>3. CASE ~over
    <3>1. phase # "X" => g.sub < Quota(w, phase)
      <4>1. phase # "X" => Quota(w, phase) \in Nat
        BY <2>2, QuotaIs
      <4> HIDE DEF phase
      <4> QED
        BY <1>1, <2>3, <4>1
    <3>2. PICK p : p = phase
      OBVIOUS
    <3>3. Fine(g, PhaseStep(w, g, p))
      BY <1>4, <3>1, <3>2, PhaseStepFits
    <3> QED
      BY <2>1, <2>3, <3>2, <3>3 DEF Fine
  <2>4. CASE over /\ g.snapPending
    <3>1. Fine(g, SnapCheck(g, phase))
      BY <2>4, LastCheckFits
    <3> QED
      BY <2>1, <2>4, <3>1 DEF PhaseEnd, Fine
  <2>5. CASE over /\ ~g.snapPending
    <3>1. w.dist = "mixed" => /\ g.phase = 1 => g.sub >= w.load
                              /\ g.phase = 2 => g.sub >= w.insert
      <4>1. w.dist = "mixed" => /\ g.phase = 1 => phase = "A"
                                /\ g.phase = 2 => phase = "B"
        BY PhasesAre
      <4> HIDE DEF phase
      <4> QED
        BY <2>5, <4>1 DEF Quota
    <3>2. Fine(g, Marker(w, g))
      BY <2>2, <2>5, <3>1, MarkerFits
    <3>3. PhaseEnd(w, g, ext) = {} \/ PhaseEnd(w, g, ext) = Marker(w, g)
      BY <2>5 DEF PhaseEnd
    <3> QED
      BY <2>1, <2>5, <3>2, <3>3 DEF Fine
  <2> QED
    BY <2>3, <2>4, <2>5
<1> QED
  BY <1>1, <1>3, <1>4

\* The generator and the model at first.
LEMMA NewGensFit ==
  ASSUME w \in Workloads
  PROVE  /\ NewModel(w) \in Models /\ Live(NewModel(w).ver) = {}
         /\ Contents(NewModel(w).ver) = EmptyDb
         /\ \A g \in NewGens(w) : GenOk(g) /\ Matches(g, NewModel(w))
<1>1. /\ w.load \in Nat /\ w.insert \in Nat /\ w.hot \in Nat /\ DelRange(w) \in Nat
      /\ w.universe \in Nat \ {0} /\ w.deletes \in Nat /\ w.window \in Nat
  BY Shape
<1>2. /\ NewModel(w) \in Models /\ Live(NewModel(w).ver) = {} /\ NewModel(w).wseq = 0
      /\ Contents(NewModel(w).ver) = EmptyDb
  <2>1. NewModel(w) \in Models /\ NewModel(w).wseq = 0
    BY DEF NewModel, Models, Ids
  <2>2. NewModel(w).ver = [id \in Ids |-> 0]
    BY DEF NewModel, Ids
  <2>3. Live([id \in Ids |-> 0]) = {} /\ Contents([id \in Ids |-> 0]) = [id \in Ids |-> 0]
    BY DEF Live, Contents
  <2> QED
    BY <2>1, <2>2, <2>3 DEF EmptyDb
<1>3. ASSUME NEW g \in NewGens(w)
      PROVE  GenOk(g) /\ Matches(g, NewModel(w))
  <2>1. PICK hot \in (IF w.hot = 0 THEN {0} ELSE Below(w.load + w.insert - w.hot)),
             del \in (IF w.deletes = 0 THEN {0} ELSE Below(w.load + w.insert - DelRange(w))) :
          g = [phase |-> 0, sub |-> 0, inPhase |-> 0, maxWritten |-> 0,
               hotLo |-> hot, delLo |-> del, delNext |-> del, mixedNew |-> 0,
               head |-> 0, purged |-> 0, cursor |-> 0, burstLeft |-> 0, lullLeft |-> 0,
               didRead |-> FALSE, pendingRead |-> 0,
               snapPending |-> FALSE, snapCheckAt |-> 0, snapTakenAt |-> NoSnap]
    BY DEF NewGens
  <2>2. hot \in Nat /\ (w.hot > 0 => hot + w.hot <= w.load + w.insert)
    <3>1. \A a, b \in Nat : \A c \in Below(a - b) : c \in Nat /\ c + b <= a
      BY DEF Below
    <3>2. PICK a : a = w.load + w.insert
      OBVIOUS
    <3>3. PICK b : b = w.hot
      OBVIOUS
    <3>4. a \in Nat /\ b \in Nat
      BY <1>1, <3>2, <3>3
    <3>5. hot \in Nat /\ (b > 0 => hot + b <= a)
      <4>1. CASE b = 0
        BY <2>1, <3>3, <4>1
      <4>2. CASE b # 0
        <5>1. hot \in Below(a - b)
          BY <1>1, <2>1, <3>2, <3>3, <3>4, <4>2
        <5> QED
          BY <3>1, <3>4, <5>1
      <4> QED
        BY <4>1, <4>2
    <3> QED
      BY <3>2, <3>3, <3>5
  <2>3. del \in Nat /\ (w.deletes > 0 => del + DelRange(w) < w.load + w.insert)
    <3>1. w.deletes > 0 => w.dist = "mixed"
      BY <1>1, Shape
    <3>2. w.deletes > 0 => DelRange(w) < w.load + w.insert
      BY <3>1, Shape
    <3>3. \A a, b \in Nat : b < a => \A c \in Below(a - b) : c \in Nat /\ c + b < a
      BY DEF Below
    <3>4. PICK a : a = w.load + w.insert
      OBVIOUS
    <3>7. PICK b : b = DelRange(w)
      OBVIOUS
    <3>8. a \in Nat /\ b \in Nat
      BY <1>1, <3>4, <3>7
    <3>5. CASE w.deletes = 0
      BY <2>1, <3>5
    <3>6. CASE w.deletes > 0
      <4>1. w.deletes # 0 /\ b < a
        BY <3>2, <3>4, <3>6, <3>7
      <4>2. del \in Below(a - b)
        BY <1>1, <2>1, <3>4, <3>7, <3>8, <4>1
      <4>3. del \in Nat /\ del + b < a
        BY <3>3, <3>8, <4>1, <4>2
      <4> QED
        BY <3>4, <3>7, <4>3
    <3> QED
      BY <1>1, <3>5, <3>6
  <2>4. g \in Gen /\ g.phase = 0
    BY <2>1, <2>2, <2>3 DEF Gen, NoSnap
  <2>5. InBounds(g)
    <3>1. 0 <= Len(Phases(w))
      BY PhasesAre
    <3>2. /\ g.maxWritten = 0 /\ g.hotLo = hot /\ g.delLo = del /\ g.head = 0 /\ g.purged = 0
          /\ g.phase = 0
      BY <2>1
    <3> QED
      BY <1>1, <2>2, <2>3, <2>4, <3>1, <3>2 DEF InBounds
  <2>6. g.head = 0 /\ g.purged = 0 /\ ~g.snapPending
    BY <2>1
  <2>7. GenOk(g)
    BY <1>1, <2>4, <2>5, <2>6 DEF GenOk
  <2>8. Window(g) = {}
    BY <2>6 DEF Window
  <2> QED
    BY <1>2, <2>4, <2>7, <2>8 DEF Matches
<1> QED
  BY <1>2, <1>3

------------------------------------------------------------------------------
(* Reads of a database that holds what the model does.                     *)

\* The values of a model's live ids are what the database shows.
LEMMA Shown ==
  ASSUME NEW ver \in [Ids -> Int]
  PROVE  /\ Live(ver) \subseteq Ids /\ DOMAIN ver = Ids
         /\ Visible(Contents(ver)) = Live(ver)
         /\ \A id \in Live(ver) : Contents(ver)[id] = ver[id]
         /\ Contents(ver) \in [Ids -> Nat]
<1>1. DOMAIN ver = Ids /\ Live(ver) = {id \in Ids : ver[id] > 0}
  BY DEF Live
<1>2. Contents(ver) = [id \in Ids |-> IF ver[id] > 0 THEN ver[id] ELSE 0]
  BY DEF Contents
<1>3. \A id \in Ids : ver[id] \in Int
  OBVIOUS
<1> QED
  BY <1>1, <1>2, <1>3 DEF Visible

\* The next live id, or one past the universe.
LEMMA NextLiveIs ==
  ASSUME w \in Workloads, NEW ver \in [Ids -> Int], NEW f \in Nat, NEW x, x = NextLive(ver, f)
  PROVE  \/ x \in Live(ver) /\ f <= x /\ \A id \in Live(ver) : id < f \/ x <= id
         \/ x \notin Ids /\ \A id \in Live(ver) : id < f
<1> DEFINE L == {id \in Live(ver) : id >= f}
<1>1. w.universe \in Nat \ {0} /\ Ids = 0 .. w.universe - 1
  BY Sizes
<1>2. Live(ver) \subseteq Ids /\ DOMAIN ver = Ids /\ Live(ver) \subseteq Nat
  BY <1>1, Shown
<1>3. CASE L = {}
  <2>1. x = Max(Ids) + 1
    BY <1>2, <1>3 DEF NextLive
  <2>2. \E top \in Ids : \A id \in Ids : id <= top
    BY <1>1
  <2>3. Max(Ids) \in Ids /\ \A id \in Ids : id <= Max(Ids)
    BY <2>2 DEF Max
  <2>4. Max(Ids) + 1 \notin Ids
    BY <1>1, <2>3
  <2> QED
    BY <1>2, <1>3, <2>1, <2>4
<1>4. CASE L # {}
  <2>1. x = Min(L)
    BY <1>4 DEF NextLive
  <2>2. L \in SUBSET Nat
    BY <1>2
  <2>3. \E least \in L : \A id \in L : least <= id
    <3> HIDE DEF L
    <3> QED
      BY <1>4, <2>2, LeastElement
  <2>4. Min(L) \in L /\ \A id \in L : Min(L) <= id
    <3> HIDE DEF L
    <3> QED
      BY <2>3 DEF Min
  <2>5. x \in L /\ \A id \in L : x <= id
    BY <2>1, <2>4
  <2> QED
    BY <1>2, <2>5
<1> QED
  BY <1>3, <1>4

\* The live id before, or -1.
LEMMA PrevLiveIs ==
  ASSUME w \in Workloads, NEW ver \in [Ids -> Int], NEW f \in Nat, NEW x, x = PrevLive(ver, f)
  PROVE  \/ x \in Live(ver) /\ x <= f /\ \A id \in Live(ver) : id > f \/ id <= x
         \/ x = -1 /\ \A id \in Live(ver) : id > f
<1> DEFINE L == {id \in Live(ver) : id <= f}
<1>1. w.universe \in Nat \ {0} /\ Ids = 0 .. w.universe - 1
  BY Sizes
<1>2. Live(ver) \subseteq Ids /\ Live(ver) \subseteq Nat
  BY <1>1, Shown
<1>3. CASE L = {}
  <2>1. x = -1
    BY <1>3 DEF PrevLive
  <2> QED
    BY <1>2, <1>3, <2>1
<1>4. CASE L # {}
  <2>1. x = Max(L)
    BY <1>4 DEF PrevLive
  <2>2. L \in SUBSET Nat /\ \A id \in L : id <= f
    BY <1>2
  <2>3. \E top \in L : \A id \in L : id <= top
    <3> HIDE DEF L
    <3> QED
      BY <1>4, <2>2, GreatestElement
  <2>4. Max(L) \in L /\ \A id \in L : id <= Max(L)
    <3> HIDE DEF L
    <3> QED
      BY <2>3 DEF Max
  <2>5. x \in L /\ \A id \in L : id <= x
    BY <2>1, <2>4
  <2> QED
    BY <1>2, <2>5
<1> QED
  BY <1>3, <1>4

\* A scan from an id on.
LEMMA ScanFits ==
  ASSUME w \in Workloads, NEW ver \in [Ids -> Int], NEW from \in Nat, NEW n \in Nat
  PROVE  ScanMatches(Contents(ver), ver, from, n)
<1> DEFINE S == {id \in Live(ver) : id >= from}
<1>1. /\ Live(ver) \subseteq Ids /\ DOMAIN ver = Ids /\ Visible(Contents(ver)) = Live(ver)
      /\ \A id \in Live(ver) : Contents(ver)[id] = ver[id]
  BY Shown
<1>2. Ids \subseteq Nat
  BY Sizes
<1>3. PICK g : WalksUp(g, ver, from, n)
  BY ExpectedRuns
<1> DEFINE Walked(i, x) ==
             IF x \in Ids
             THEN /\ x \in S /\ \A j \in 0 .. i - 1 : g[j] \in Ids /\ g[j] < x
                  /\ \A id \in S : id < x => \E j \in 0 .. i - 1 : g[j] = id
             ELSE \A id \in S : \E j \in 0 .. i - 1 : g[j] = id
           T == {i \in Nat : Walked(i, g[i])}
<1>4. 0 \in T
  <2>1. PICK x : x = g[0]
    OBVIOUS
  <2>2. x = NextLive(ver, from)
    BY <1>3, <2>1 DEF WalksUp
  <2>3. \/ x \in Live(ver) /\ from <= x /\ \A id \in Live(ver) : id < from \/ x <= id
        \/ x \notin Ids /\ \A id \in Live(ver) : id < from
    BY <2>2, NextLiveIs
  <2>4. Walked(0, x)
    <3>1. 0 .. 0 - 1 = {}
      OBVIOUS
    <3>2. CASE x \in Live(ver) /\ from <= x /\ \A id \in Live(ver) : id < from \/ x <= id
      <4>1. x \in S /\ x \in Ids /\ x \in Nat
        BY <1>1, <1>2, <3>2
      <4>2. \A id \in S : id \in Nat /\ x <= id
        <5> TAKE id \in S
        <5>1. id \in Nat /\ id \in Live(ver) /\ id >= from
          BY <1>1, <1>2
        <5>2. id < from \/ x <= id
          BY <3>2, <5>1
        <5> QED
          BY <5>1, <5>2
      <4>3. \A id \in S : ~(id < x)
        BY <4>1, <4>2
      <4> HIDE DEF S
      <4> QED
        BY <3>1, <4>1, <4>3
    <3>3. CASE x \notin Ids /\ \A id \in Live(ver) : id < from
      <4>1. \A id \in Live(ver) : id \in Nat /\ ~(id >= from)
        <5> TAKE id \in Live(ver)
        <5>1. id \in Nat /\ id < from
          BY <1>1, <1>2, <3>3
        <5> QED
          BY <5>1
      <4>2. S = {}
        BY <4>1
      <4> HIDE DEF S
      <4> QED
        BY <3>1, <3>3, <4>2
    <3> QED
      BY <2>3, <3>2, <3>3
  <2> HIDE DEF Walked
  <2> QED
    BY <2>1, <2>4
<1>5. ASSUME NEW i \in 1 .. n, i - 1 \in T
      PROVE  i \in T
  <2>1. PICK k, x, y : k = i - 1 /\ x = g[k] /\ y = g[i]
    OBVIOUS
  <2>2. k \in Nat /\ i = k + 1 /\ Walked(k, x)
    <3> HIDE DEF Walked
    <3> QED
      BY <1>5, <2>1
  <2>3. y = IF x \in Ids THEN NextLive(ver, x + 1) ELSE x
    BY <1>1, <1>3, <2>1 DEF WalksUp, Up
  <2>4. Walked(i, y)
    <3>1. CASE x \notin Ids
      <4>1. y = x /\ \A j \in 0 .. k - 1 : j \in 0 .. i - 1
        BY <2>2, <2>3, <3>1
      <4> QED
        BY <2>2, <3>1, <4>1
    <3>2. CASE x \in Ids
      <4>1. x \in Nat /\ x + 1 \in Nat /\ y = NextLive(ver, x + 1)
        BY <1>2, <2>3, <3>2
      <4>2. \/ y \in Live(ver) /\ x + 1 <= y /\ \A id \in Live(ver) : id < x + 1 \/ y <= id
            \/ y \notin Ids /\ \A id \in Live(ver) : id < x + 1
        BY <4>1, NextLiveIs
      <4>3. /\ x \in S /\ \A j \in 0 .. k - 1 : g[j] \in Ids /\ g[j] < x
            /\ \A id \in S : id < x => \E j \in 0 .. k - 1 : g[j] = id
        BY <2>2, <3>2
      <4>4. \A j \in 0 .. i - 1 : g[j] \in Ids /\ g[j] <= x
        <5> TAKE j \in 0 .. i - 1
        <5>1. j \in 0 .. k - 1 \/ j = k
          BY <2>2
        <5>2. (\A a \in Nat : a < x => a <= x) /\ x <= x
          BY <4>1
        <5>3. CASE j = k
          BY <2>1, <3>2, <5>2, <5>3
        <5>4. CASE j \in 0 .. k - 1
          <6>1. g[j] \in Ids /\ g[j] < x
            BY <4>3, <5>4
          <6> QED
            BY <1>2, <5>2, <6>1
        <5> QED
          BY <5>1, <5>3, <5>4
      <4>5. \A id \in S : id <= x => \E j \in 0 .. i - 1 : g[j] = id
        <5> TAKE id \in S
        <5> HAVE id <= x
        <5>0. id \in Nat
          BY <1>1, <1>2
        <5>1. id \in Nat /\ (id < x \/ id = x)
          BY <4>1, <5>0
        <5>2. CASE id = x
          <6>1. k \in 0 .. i - 1
            BY <2>2
          <6> QED
            BY <2>1, <5>2, <6>1
        <5>3. CASE id < x
          <6>1. PICK j \in 0 .. k - 1 : g[j] = id
            BY <4>3, <5>3
          <6>2. j \in 0 .. i - 1
            BY <2>2
          <6> QED
            BY <6>1, <6>2
        <5> QED
          BY <5>1, <5>2, <5>3
      <4>6. CASE y \in Live(ver) /\ x + 1 <= y /\ \A id \in Live(ver) : id < x + 1 \/ y <= id
        <5>1. y \in Ids /\ y \in Nat /\ y \in S /\ x < y
          BY <1>1, <1>2, <4>1, <4>3, <4>6
        <5>2. \A j \in 0 .. i - 1 : g[j] \in Ids /\ g[j] < y
          <6> TAKE j \in 0 .. i - 1
          <6>1. g[j] \in Ids /\ g[j] <= x
            BY <4>4
          <6>2. \A a \in Nat : a <= x => a < y
            BY <4>1, <5>1
          <6> QED
            BY <1>2, <6>1, <6>2
        <5>3. \A id \in S : id < y => id <= x
          BY <1>1, <1>2, <4>1, <4>6, <5>1
        <5> QED
          BY <4>5, <5>1, <5>2, <5>3
      <4>7. CASE y \notin Ids /\ \A id \in Live(ver) : id < x + 1
        <5>1. \A id \in S : id \in Nat /\ id < x + 1
          BY <1>1, <1>2, <4>7
        <5>2. \A a \in Nat : a < x + 1 => a <= x
          BY <4>1
        <5>3. \A id \in S : id <= x
          BY <5>1, <5>2
        <5> QED
          BY <4>5, <4>7, <5>3
      <4> QED
        BY <4>2, <4>6, <4>7
    <3> QED
      BY <3>1, <3>2
  <2> HIDE DEF Walked
  <2> QED
    BY <1>5, <2>1, <2>4
<1>6. \A i \in 0 .. n : Walked(i, g[i])
  <2>1. \A i \in 0 .. n : i \in T
    <3> HIDE DEF T
    <3> QED
      BY <1>4, <1>5, UpTo
  <2> HIDE DEF Walked
  <2> QED
    BY <2>1
<1> DEFINE s == Expected(ver, from, n)
<1>7. /\ DOMAIN s = {j \in 1 .. n : g[j - 1] \in Ids}
      /\ \A i \in DOMAIN s : s[i] = g[i - 1]
  BY <1>1, <1>3 DEF WalksUp
<1> HIDE DEF s
<1>8. ASSUME NEW i \in DOMAIN s
      PROVE  /\ s[i] \in S
             /\ \A id \in S : id < s[i] => \E j \in 1 .. i - 1 : s[j] = id
             /\ \A j \in 1 .. i - 1 : j \in DOMAIN s /\ s[j] < s[i]
  <2>1. PICK k, x : k = i - 1 /\ x = g[k]
    OBVIOUS
  <2>2. k \in 0 .. n /\ k \in Nat /\ i = k + 1 /\ i <= n /\ x \in Ids /\ s[i] = x
    BY <1>7, <2>1
  <2>3. Walked(k, x)
    BY <1>6, <2>1, <2>2
  <2>4. ASSUME NEW j \in 1 .. i - 1
        PROVE  j \in DOMAIN s /\ s[j] < s[i] /\ s[j] = g[j - 1]
    <3>1. j - 1 \in 0 .. k - 1 /\ j \in 1 .. n
      BY <2>2
    <3>2. g[j - 1] \in Ids /\ g[j - 1] < x
      BY <2>2, <2>3, <3>1
    <3> QED
      BY <1>7, <2>2, <3>1, <3>2
  <2>5. ASSUME NEW id \in S, id < s[i]
        PROVE  \E j \in 1 .. i - 1 : s[j] = id
    <3>1. PICK j \in 0 .. k - 1 : g[j] = id
      BY <2>2, <2>3, <2>5
    <3>2. j + 1 \in 1 .. i - 1 /\ (j + 1) - 1 = j
      BY <2>2
    <3> QED
      BY <2>4, <3>1, <3>2
  <2> QED
    BY <2>2, <2>3, <2>4, <2>5
<1>9. ASSUME NEW i \in 1 .. n, i \notin DOMAIN s, NEW id \in S
      PROVE  \E j \in DOMAIN s : s[j] = id
  <2>1. PICK k, x : k = i - 1 /\ x = g[k]
    OBVIOUS
  <2>2. k \in 0 .. n /\ k \in Nat /\ i = k + 1 /\ i <= n /\ x \notin Ids
    BY <1>7, <1>9, <2>1
  <2>3. Walked(k, x)
    BY <1>6, <2>1, <2>2
  <2>4. PICK j \in 0 .. k - 1 : g[j] = id
    BY <2>2, <2>3
  <2>5. j + 1 \in 1 .. n /\ (j + 1) - 1 = j /\ id \in Ids
    BY <1>1, <2>2
  <2>6. j + 1 \in DOMAIN s
    BY <1>7, <2>4, <2>5
  <2> QED
    BY <1>7, <2>4, <2>5, <2>6
<1>10. DOMAIN s \subseteq 1 .. n
  BY <1>7
<1>11. \A i, j \in DOMAIN s : i < j => s[i] < s[j]
  <2> TAKE i, j \in DOMAIN s
  <2> HAVE i < j
  <2>1. i \in 1 .. j - 1
    BY <1>10
  <2> QED
    BY <1>8, <2>1
<1>12. Yields(s, S, n)
  <2> HIDE DEF S, Walked, T
  <2> QED
    BY <1>8, <1>9, <1>11 DEF Yields
<1>13. \A i \in DOMAIN s : Contents(ver)[s[i]] = ver[s[i]]
  BY <1>1, <1>8
<1> QED
  BY <1>1, <1>12, <1>13 DEF ScanMatches, s

\* A reverse scan from an id down.
LEMMA RScanFits ==
  ASSUME w \in Workloads, NEW ver \in [Ids -> Int], NEW from \in Nat, NEW n \in Nat
  PROVE  RScanMatches(Contents(ver), ver, from, n)
<1> DEFINE S == {id \in Live(ver) : id <= from}
<1>1. /\ Live(ver) \subseteq Ids /\ DOMAIN ver = Ids /\ Visible(Contents(ver)) = Live(ver)
      /\ \A id \in Live(ver) : Contents(ver)[id] = ver[id]
  BY Shown
<1>2. Ids \subseteq Nat
  BY Sizes
<1>2a. -1 \notin Ids
  BY <1>2
<1>3. PICK g : WalksDown(g, ver, from, n)
  BY ExpectedBackRuns
<1> DEFINE Walked(i, x) ==
             IF x \in Ids
             THEN /\ x \in S /\ \A j \in 0 .. i - 1 : g[j] \in Ids /\ g[j] > x
                  /\ \A id \in S : id > x => \E j \in 0 .. i - 1 : g[j] = id
             ELSE /\ x = -1
                  /\ \A id \in S : \E j \in 0 .. i - 1 : g[j] = id
           T == {i \in Nat : Walked(i, g[i])}
<1>4. 0 \in T
  <2>1. PICK x : x = g[0]
    OBVIOUS
  <2>2. x = PrevLive(ver, from)
    BY <1>3, <2>1 DEF WalksDown
  <2>3. \/ x \in Live(ver) /\ x <= from /\ \A id \in Live(ver) : id > from \/ id <= x
        \/ x = -1 /\ \A id \in Live(ver) : id > from
    BY <2>2, PrevLiveIs
  <2>4. Walked(0, x)
    <3>1. 0 .. 0 - 1 = {}
      OBVIOUS
    <3>2. CASE x \in Live(ver) /\ x <= from /\ \A id \in Live(ver) : id > from \/ id <= x
      <4>1. x \in S /\ x \in Ids /\ x \in Nat
        BY <1>1, <1>2, <3>2
      <4>2. \A id \in S : id \in Nat /\ id <= x
        <5> TAKE id \in S
        <5>1. id \in Nat /\ id \in Live(ver) /\ id <= from
          BY <1>1, <1>2
        <5>2. id > from \/ id <= x
          BY <3>2, <5>1
        <5> QED
          BY <5>1, <5>2
      <4>3. \A id \in S : ~(id > x)
        BY <4>1, <4>2
      <4> HIDE DEF S
      <4> QED
        BY <3>1, <4>1, <4>3
    <3>3. CASE x = -1 /\ \A id \in Live(ver) : id > from
      <4>1. \A id \in Live(ver) : id \in Nat /\ ~(id <= from)
        <5> TAKE id \in Live(ver)
        <5>1. id \in Nat /\ id > from
          BY <1>1, <1>2, <3>3
        <5> QED
          BY <5>1
      <4>2. S = {}
        BY <4>1
      <4> HIDE DEF S
      <4> QED
        BY <1>2a, <3>1, <3>3, <4>2
    <3> QED
      BY <2>3, <3>2, <3>3
  <2> HIDE DEF Walked
  <2> QED
    BY <2>1, <2>4
<1>5. ASSUME NEW i \in 1 .. n, i - 1 \in T
      PROVE  i \in T
  <2>1. PICK k, x, y : k = i - 1 /\ x = g[k] /\ y = g[i]
    OBVIOUS
  <2>2. k \in Nat /\ i = k + 1 /\ Walked(k, x)
    <3> HIDE DEF Walked
    <3> QED
      BY <1>5, <2>1
  <2>3. y = IF x > 0 THEN PrevLive(ver, x - 1) ELSE -1
    BY <1>3, <2>1 DEF WalksDown, Down
  <2>4. Walked(i, y)
    <3>1. CASE x \notin Ids
      <4>1. x = -1 /\ ~(x > 0)
        BY <2>2, <3>1
      <4>2. y = -1 /\ \A j \in 0 .. k - 1 : j \in 0 .. i - 1
        BY <2>2, <2>3, <4>1
      <4> QED
        BY <1>2a, <2>2, <3>1, <4>2
    <3>2. CASE x \in Ids
      <4>1. x \in Nat
        BY <1>2, <3>2
      <4>3. /\ x \in S /\ \A j \in 0 .. k - 1 : g[j] \in Ids /\ g[j] > x
            /\ \A id \in S : id > x => \E j \in 0 .. k - 1 : g[j] = id
        BY <2>2, <3>2
      <4>2. \/ y \in Live(ver) /\ y < x /\ \A id \in Live(ver) : id >= x \/ id <= y
            \/ y = -1 /\ \A id \in Live(ver) : id >= x
        <5>1. CASE x = 0
          <6>1. y = -1
            BY <2>3, <5>1
          <6>2. \A id \in Live(ver) : id \in Nat
            BY <1>1, <1>2
          <6> QED
            BY <5>1, <6>1, <6>2
        <5>2. CASE x > 0
          <6>1. x - 1 \in Nat /\ y = PrevLive(ver, x - 1)
            BY <2>3, <4>1, <5>2
          <6>2. \/ y \in Live(ver) /\ y <= x - 1 /\ \A id \in Live(ver) : id > x - 1 \/ id <= y
                \/ y = -1 /\ \A id \in Live(ver) : id > x - 1
            BY <6>1, PrevLiveIs
          <6>3. \A id \in Live(ver) : id \in Nat
            BY <1>1, <1>2
          <6>4. \A a \in Nat : (a > x - 1 => a >= x) /\ (a <= x - 1 => a < x)
            BY <4>1
          <6> QED
            BY <6>2, <6>3, <6>4
        <5> QED
          BY <4>1, <5>1, <5>2
      <4>4. \A j \in 0 .. i - 1 : g[j] \in Ids /\ g[j] >= x
        <5> TAKE j \in 0 .. i - 1
        <5>1. j \in 0 .. k - 1 \/ j = k
          BY <2>2
        <5>2. (\A a \in Nat : a > x => a >= x) /\ x >= x
          BY <4>1
        <5>3. CASE j = k
          BY <2>1, <3>2, <5>2, <5>3
        <5>4. CASE j \in 0 .. k - 1
          <6>1. g[j] \in Ids /\ g[j] > x
            BY <4>3, <5>4
          <6> QED
            BY <1>2, <5>2, <6>1
        <5> QED
          BY <5>1, <5>3, <5>4
      <4>5. \A id \in S : id >= x => \E j \in 0 .. i - 1 : g[j] = id
        <5> TAKE id \in S
        <5> HAVE id >= x
        <5>0. id \in Nat
          BY <1>1, <1>2
        <5>1. id \in Nat /\ (id > x \/ id = x)
          BY <4>1, <5>0
        <5>2. CASE id = x
          <6>1. k \in 0 .. i - 1
            BY <2>2
          <6> QED
            BY <2>1, <5>2, <6>1
        <5>3. CASE id > x
          <6>1. PICK j \in 0 .. k - 1 : g[j] = id
            BY <4>3, <5>3
          <6>2. j \in 0 .. i - 1
            BY <2>2
          <6> QED
            BY <6>1, <6>2
        <5> QED
          BY <5>1, <5>2, <5>3
      <4>6. CASE y \in Live(ver) /\ y < x /\ \A id \in Live(ver) : id >= x \/ id <= y
        <5>1. y \in Ids /\ y \in Nat /\ y \in S
          <6>1. y \in Nat /\ y \in Ids /\ y \in Live(ver) /\ x <= from
            BY <1>1, <1>2, <4>3, <4>6
          <6> QED
            BY <4>1, <4>6, <6>1
        <5>2. \A j \in 0 .. i - 1 : g[j] \in Ids /\ g[j] > y
          <6> TAKE j \in 0 .. i - 1
          <6>1. g[j] \in Ids /\ g[j] >= x
            BY <4>4
          <6>2. \A a \in Nat : a >= x => a > y
            BY <4>1, <4>6, <5>1
          <6> QED
            BY <1>2, <6>1, <6>2
        <5>3. \A id \in S : id > y => id >= x
          <6> TAKE id \in S
          <6>1. id \in Nat /\ (id >= x \/ id <= y)
            BY <1>1, <1>2, <4>6
          <6> QED
            BY <5>1, <6>1
        <5> QED
          BY <4>5, <5>1, <5>2, <5>3
      <4>7. CASE y = -1 /\ \A id \in Live(ver) : id >= x
        BY <1>2a, <4>5, <4>7
      <4> QED
        BY <4>2, <4>6, <4>7
    <3> QED
      BY <3>1, <3>2
  <2> HIDE DEF Walked
  <2> QED
    BY <1>5, <2>1, <2>4
<1>6. \A i \in 0 .. n : Walked(i, g[i])
  <2>1. \A i \in 0 .. n : i \in T
    <3> HIDE DEF T
    <3> QED
      BY <1>4, <1>5, UpTo
  <2> HIDE DEF Walked
  <2> QED
    BY <2>1
<1> DEFINE s == ExpectedBack(ver, from, n)
<1>7. /\ DOMAIN s = {j \in 1 .. n : g[j - 1] \in Ids}
      /\ \A i \in DOMAIN s : s[i] = g[i - 1]
  BY <1>1, <1>3 DEF WalksDown
<1> HIDE DEF s
<1>8. ASSUME NEW i \in DOMAIN s
      PROVE  /\ s[i] \in S
             /\ \A id \in S : id > s[i] => \E j \in 1 .. i - 1 : j \in DOMAIN s /\ s[j] = id
             /\ \A j \in 1 .. i - 1 : j \in DOMAIN s /\ s[j] > s[i]
  <2>1. PICK k, x : k = i - 1 /\ x = g[k]
    OBVIOUS
  <2>2. k \in 0 .. n /\ k \in Nat /\ i = k + 1 /\ i <= n /\ x \in Ids /\ s[i] = x
    BY <1>7, <2>1
  <2>3. Walked(k, x)
    BY <1>6, <2>1, <2>2
  <2>4. ASSUME NEW j \in 1 .. i - 1
        PROVE  j \in DOMAIN s /\ s[j] > s[i] /\ s[j] = g[j - 1]
    <3>1. j - 1 \in 0 .. k - 1 /\ j \in 1 .. n
      BY <2>2
    <3>2. g[j - 1] \in Ids /\ g[j - 1] > x
      BY <2>2, <2>3, <3>1
    <3> QED
      BY <1>7, <2>2, <3>1, <3>2
  <2>5. ASSUME NEW id \in S, id > s[i]
        PROVE  \E j \in 1 .. i - 1 : j \in DOMAIN s /\ s[j] = id
    <3>1. PICK j \in 0 .. k - 1 : g[j] = id
      BY <2>2, <2>3, <2>5
    <3>2. j + 1 \in 1 .. i - 1 /\ (j + 1) - 1 = j
      BY <2>2
    <3> QED
      BY <2>4, <3>1, <3>2
  <2> QED
    BY <2>2, <2>3, <2>4, <2>5
<1>9. ASSUME NEW i \in 1 .. n, i \notin DOMAIN s, NEW id \in S
      PROVE  \E j \in DOMAIN s : s[j] = id
  <2>1. PICK k, x : k = i - 1 /\ x = g[k]
    OBVIOUS
  <2>2. k \in 0 .. n /\ k \in Nat /\ i = k + 1 /\ i <= n /\ x \notin Ids
    BY <1>7, <1>9, <2>1
  <2>3. Walked(k, x)
    BY <1>6, <2>1, <2>2
  <2>4. PICK j \in 0 .. k - 1 : g[j] = id
    BY <2>2, <2>3
  <2>5. j + 1 \in 1 .. n /\ (j + 1) - 1 = j /\ id \in Ids
    BY <1>1, <2>2
  <2>6. j + 1 \in DOMAIN s
    BY <1>7, <2>4, <2>5
  <2> QED
    BY <1>7, <2>4, <2>5, <2>6
<1>10. DOMAIN s \subseteq 1 .. n /\ S \subseteq Nat
  BY <1>1, <1>2, <1>7
<1> HIDE DEF T, Walked
<1>12. YieldsBack(s, S, n)
  <2> DEFINE t == [i \in DOMAIN s |-> -s[i]]
             R == {-id : id \in S}
  <2>1. DOMAIN t = DOMAIN s /\ \A i \in DOMAIN s : t[i] = -s[i] /\ s[i] \in Nat
    BY <1>8, <1>10
  <2>2. \A id \in S : -id \in R
    OBVIOUS
  <2>3. \A x \in R : \E id \in S : x = -id
    OBVIOUS
  <2> HIDE DEF t, R, S
  <2>4. ASSUME NEW i \in DOMAIN t
        PROVE  t[i] \in R /\ \A x \in R : x < t[i] => \E j \in 1 .. i - 1 : t[j] = x
    <3>1. t[i] \in R
      BY <1>8, <2>1, <2>2
    <3>2. ASSUME NEW x \in R, x < t[i]
          PROVE  \E j \in 1 .. i - 1 : t[j] = x
      <4>1. PICK id \in S : x = -id
        BY <2>3
      <4>2. id \in Nat /\ s[i] \in Nat /\ -id < -s[i]
        BY <1>10, <2>1, <3>2, <4>1
      <4>3. id > s[i]
        BY <4>2
      <4>4. PICK j \in 1 .. i - 1 : j \in DOMAIN s /\ s[j] = id
        BY <1>8, <2>1, <4>3
      <4> QED
        BY <2>1, <4>1, <4>4
    <3> QED
      BY <3>1, <3>2
  <2>5. \A i, j \in DOMAIN t : i < j => t[i] < t[j]
    <3> TAKE i, j \in DOMAIN t
    <3> HAVE i < j
    <3>1. i \in 1 .. j - 1
      BY <1>10, <2>1
    <3>2. s[i] > s[j]
      BY <1>8, <2>1, <3>1
    <3> QED
      BY <2>1, <3>2
  <2>6. 1 .. n \subseteq DOMAIN t \/ \A x \in R : \E i \in DOMAIN t : t[i] = x
    BY <1>9, <2>1, <2>3
  <2>7. Yields(t, R, n)
    BY <2>4, <2>5, <2>6 DEF Yields
  <2> QED
    BY <2>7 DEF t, R, YieldsBack
<1>13. \A i \in DOMAIN s : Contents(ver)[s[i]] = ver[s[i]]
  BY <1>1, <1>8
<1> QED
  BY <1>1, <1>12, <1>13 DEF RScanMatches, s

------------------------------------------------------------------------------
(* The invariant of the runner.                                            *)

\* The batches whose effect the model has.
Executed == ack + (IF check.applied THEN 1 ELSE 0) + check.done

\* What is generated lies in its bounds, and the generator knows what the
\* batches do to a model.
GeneratedOk ==
  /\ w \in Workloads /\ GenOk(gen) /\ batches \in Seq(Seq(Operation))
  /\ Matches(gen, Replayed(Len(batches)))

RunnerTypes ==
  /\ model \in Models /\ db \in [Ids -> Nat] /\ left \in [Ids -> Nat]
  /\ ack \in Nat /\ executed \in Nat
  /\ check \in [next : Seq(Operation), before : {<<>>} \cup [Ids -> Int],
                applied : BOOLEAN, done : 0 .. Continue]
  /\ mode \in {"run", "read", "check", "continue"}

\* A batch that is under way is the last that was generated.
UnderWay ==
  /\ step.ops = batches[Executed + 1] /\ Len(batches) = Executed + 1
  /\ mode = "continue" => check.done < Continue

\* The model has the batches that were executed, the database too.
Running ==
  mode \in {"run", "continue"} =>
    /\ pc \in {"loop", "step", "written"} \/ (mode = "continue" /\ pc = "done")
    /\ IF mode = "run" THEN check = NoCheck /\ executed = ack ELSE executed = check.done
    /\ model = Replayed(Executed)
    /\ pc \in {"loop", "done"} => Len(batches) = Executed
    /\ pc = "step" => /\ step.kind \in Kinds
                      /\ IF step.kind = "batch" THEN UnderWay ELSE Len(batches) = Executed
    /\ pc = "written" => UnderWay
    /\ db = AfterBatches(IF pc = "written" THEN Executed + 1 ELSE Executed)

Reading ==
  mode = "read" =>
    /\ pc \in {"start", "done"}
    /\ Len(batches) = ack /\ executed = ack /\ check = NoCheck /\ db = AfterBatches(ack)

\* The check, until it goes on.
Checking ==
  mode = "check" =>
    /\ pc \in {"seek", "verify", "resume", "mismatch"}
    /\ executed = 0 /\ check.done = 0 /\ db = left
    /\ pc = "seek" => Len(batches) \in {ack, ack + 1} /\ check = NoCheck /\ model = Replayed(ack)
    /\ pc # "seek" => /\ Len(batches) = ack + 1 /\ check.next = batches[ack + 1]
                      /\ check.before = Replayed(ack).ver
    /\ pc = "verify" => model = Replayed(ack)
    /\ pc = "resume" => /\ model.wseq = Replayed(ack).wseq
                        /\ ~check.applied => model = Replayed(ack)
                        /\ left = AfterBatches(IF check.applied THEN ack + 1 ELSE ack)
    /\ pc = "mismatch" => left \notin {AfterBatches(ack), AfterBatches(ack + 1)}

\* What is remembered with a snapshot is what it holds; in a run one that is
\* held is still to be checked.
Snapshots ==
  /\ snapshot.held \in BOOLEAN
  /\ snapshot.held => \A id \in DOMAIN snapshot.sample :
                        snapshot.db[id] = Contents(snapshot.sample)[id]
  /\ mode = "run" /\ snapshot.held => gen.snapPending \/ (pc = "step" /\ step.kind = "snapCheck")
  /\ pc = "step" /\ step.kind = "snapTake" => gen.snapPending

RunnerInv == GeneratedOk /\ RunnerTypes /\ Running /\ Reading /\ Checking /\ Snapshots

\* While the workload and the batches stay, so do the models they give.
LEMMA Kept ==
  ASSUME w' = w
  PROVE  /\ Ids' = Ids /\ Models' = Models /\ Operation' = Operation
         /\ \A g : GenOk(g)' = GenOk(g)
         /\ \A g, m : Matches(g, m)' = Matches(g, m)
         /\ batches' = batches => \A n : Replayed(n)' = Replayed(n) /\ AfterBatches(n)' = AfterBatches(n)
<1>1. Ids' = Ids
  BY DEF Ids
<1>2. Models' = Models /\ Operation' = Operation
  BY <1>1 DEF Models, Operation
<1>3. \A g : GenOk(g)' = GenOk(g)
  BY DEF GenOk, InBounds
<1>4. \A g, m : Matches(g, m)' = Matches(g, m)
  BY DEF Matches
<1>5. batches' = batches => \A n : Replayed(n)' = Replayed(n) /\ AfterBatches(n)' = AfterBatches(n)
  BY DEF Replayed, AfterBatches
<1> QED
  BY <1>1, <1>2, <1>3, <1>4, <1>5

\* The invariant's first part, with nothing generated.
LEMMA StillGenerated ==
  ASSUME GeneratedOk, w' = w, gen' = gen, batches' = batches
  PROVE  GeneratedOk'
BY Kept DEF GeneratedOk

\* The models of the batches so far.
LEMMA ReplayedFits ==
  ASSUME GeneratedOk
  PROVE  \A n \in 0 .. Len(batches) :
           /\ Replayed(n) \in Models /\ AfterBatches(n) \in [Ids -> Nat]
           /\ n < Len(batches) => /\ batches[n + 1] \in Seq(Operation)
                                  /\ Replayed(n + 1) = ReplayBatch(Replayed(n), batches[n + 1])
<1> DEFINE T == {n \in Nat : Replayed(n) \in Models}
<1>1. /\ w \in Workloads /\ Len(batches) \in Nat
      /\ \A n \in 1 .. Len(batches) : batches[n] \in Seq(Operation)
  BY DEF GeneratedOk
<1>2. 0 \in T
  <2>1. Replayed(0) = NewModel(w) /\ NewModel(w) \in Models
    BY <1>1, ReplayAllStep, NewGensFit DEF Replayed
  <2> QED
    BY <2>1
<1>3. \A n \in Nat : Replayed(n + 1) = ReplayBatch(Replayed(n), batches[n + 1])
  BY ReplayAllStep DEF Replayed
<1>4. ASSUME NEW i \in 1 .. Len(batches), i - 1 \in T
      PROVE  i \in T
  <2>1. PICK k, m, ops : k = i - 1 /\ m = Replayed(k) /\ ops = batches[i]
    OBVIOUS
  <2>2. k \in Nat /\ k + 1 = i /\ m \in Models /\ ops \in Seq(Operation)
    BY <1>1, <1>4, <2>1
  <2>3. Replayed(i) = ReplayBatch(m, ops)
    BY <1>3, <2>1, <2>2
  <2>4. ReplayBatch(m, ops) \in Models
    BY <2>2, ReplayModel
  <2> QED
    BY <2>3, <2>4
<1>5. \A n \in 0 .. Len(batches) : Replayed(n) \in Models
  <2>1. \A n \in 0 .. Len(batches) : n \in T
    <3> HIDE DEF T
    <3> QED
      BY <1>1, <1>2, <1>4, UpTo
  <2> QED
    BY <2>1
<1>6. \A m \in Models : Contents(m.ver) \in [Ids -> Nat]
  <2> TAKE m \in Models
  <2>1. PICK ver \in [Ids -> Int] : ver = m.ver
    BY DEF Models
  <2> QED
    BY <2>1, Shown
<1>7. \A n \in 0 .. Len(batches) : n < Len(batches) => n + 1 \in 1 .. Len(batches)
  BY <1>1
<1>8. \A n \in 0 .. Len(batches) : AfterBatches(n) \in [Ids -> Nat]
  BY <1>5, <1>6 DEF AfterBatches
<1>9. \A n \in 0 .. Len(batches) :
        n < Len(batches) => /\ batches[n + 1] \in Seq(Operation)
                            /\ Replayed(n + 1) = ReplayBatch(Replayed(n), batches[n + 1])
  <2> TAKE n \in 0 .. Len(batches)
  <2>1. n \in Nat
    OBVIOUS
  <2> QED
    BY <1>1, <1>3, <1>7, <2>1
<1> QED
  BY <1>5, <1>8, <1>9

\* A step of the generator.
LEMMA GeneratedFits ==
  ASSUME GeneratedOk, w' = w, NEW ext, NEW r \in NextStep(w, gen, ext), Generated(r)
  PROVE  /\ GeneratedOk' /\ Generates(gen, r) /\ Len(batches) \in Nat
         /\ \A n \in 0 .. Len(batches) : Replayed(n)' = Replayed(n) /\ AfterBatches(n)' = AfterBatches(n)
         /\ \A n \in 1 .. Len(batches) : batches'[n] = batches[n]
         /\ r.step.kind = "batch" => /\ Len(batches') = Len(batches) + 1
                                     /\ batches'[Len(batches) + 1] = r.step.ops
         /\ r.step.kind # "batch" => batches' = batches
<1>1. /\ w \in Workloads /\ GenOk(gen) /\ batches \in Seq(Seq(Operation)) /\ Len(batches) \in Nat
      /\ Matches(gen, Replayed(Len(batches)))
  BY DEF GeneratedOk
<1>2. Generates(gen, r)
  BY <1>1, NextStepFits
<1>3. r.step.ops \in Seq(Operation)
  BY <1>2 DEF Generates
<1>4. /\ batches' \in Seq(Seq(Operation))
      /\ \A n \in 1 .. Len(batches) : batches'[n] = batches[n]
      /\ r.step.kind = "batch" => /\ Len(batches') = Len(batches) + 1
                                  /\ batches'[Len(batches) + 1] = r.step.ops
      /\ r.step.kind # "batch" => batches' = batches
  BY <1>1, <1>3 DEF Generated
<1>5. ASSUME NEW n \in 0 .. Len(batches)
      PROVE  Replayed(n)' = Replayed(n) /\ AfterBatches(n)' = AfterBatches(n)
  <2>1. \A i \in 1 .. n : batches'[i] = batches[i]
    BY <1>1, <1>4
  <2>2. ReplayAll(NewModel(w), batches', n) = ReplayAll(NewModel(w), batches, n)
    BY <1>1, <2>1, ReplayAllStep
  <2> QED
    BY <2>2 DEF Replayed, AfterBatches
<1>6. PICK m : m = Replayed(Len(batches))
  OBVIOUS
<1>7. m \in Models
  BY <1>1, <1>6, ReplayedFits
<1>8. Replayed(Len(batches))' = IF r.step.kind = "batch" THEN ReplayBatch(m, r.step.ops) ELSE m
  <2>1. CASE r.step.kind = "batch"
    <3>1. ReplayAll(NewModel(w), batches', Len(batches) + 1)
            = ReplayBatch(ReplayAll(NewModel(w), batches', Len(batches)), batches'[Len(batches) + 1])
      BY <1>1, ReplayAllStep
    <3>2. ReplayAll(NewModel(w), batches', Len(batches)) = m
      <4>1. ReplayAll(NewModel(w), batches', Len(batches)) = ReplayAll(NewModel(w), batches, Len(batches))
        BY <1>1, <1>4, ReplayAllStep
      <4> QED
        BY <1>6, <4>1 DEF Replayed
    <3>3. Replayed(Len(batches))' = ReplayAll(NewModel(w), batches', Len(batches'))
      BY DEF Replayed
    <3> QED
      BY <1>4, <2>1, <3>1, <3>2, <3>3
  <2>2. CASE r.step.kind # "batch"
    <3>1. batches' = batches
      BY <1>4, <2>2
    <3> QED
      BY <1>6, <2>2, <3>1 DEF Replayed
  <2> QED
    BY <2>1, <2>2
<1>9. GenOk(r.g) /\ Matches(r.g, IF r.step.kind = "batch" THEN ReplayBatch(m, r.step.ops) ELSE m)
  BY <1>1, <1>2, <1>6, <1>7 DEF Generates
<1>10. gen' = r.g
  BY DEF Generated
<1>11. GeneratedOk'
  BY <1>1, <1>4, <1>8, <1>9, <1>10, Kept DEF GeneratedOk
<1> QED
  BY <1>1, <1>2, <1>4, <1>5, <1>11

\* The number of executed batches is one.
LEMMA ExecutedIs ==
  ASSUME RunnerTypes
  PROVE  Executed \in Nat
<1>1. ack \in Nat /\ check.done \in Nat /\ check.applied \in BOOLEAN
  BY RunnerAssumption DEF RunnerTypes
<1> QED
  BY <1>1 DEF Executed

\* A process that is in its loop, at a step or in a write runs.
LEMMA IsRunning ==
  ASSUME RunnerInv, pc \in {"loop", "step", "written"}
  PROVE  mode \in {"run", "continue"}
BY DEF RunnerInv, RunnerTypes, Reading, Checking

\* Generate.
LEMMA GenerateKeeps ==
  ASSUME RunnerInv, Generate
  PROVE  RunnerInv'
<1>1. /\ pc = "loop" /\ pc' = "step" /\ mode \in {"run", "continue"}
      /\ w' = w /\ mode' = mode /\ model' = model /\ snapshot' = snapshot /\ executed' = executed
      /\ ack' = ack /\ db' = db /\ left' = left /\ check' = check
      /\ (mode = "continue" => check.done < Continue)
  BY IsRunning DEF Generate
<1>2. PICK r \in NextStep(w, gen, mode = "continue") : Generated(r)
  BY DEF Generate
<1>3. PICK ext : ext = (mode = "continue")
  OBVIOUS
<1>4. r \in NextStep(w, gen, ext)
  BY <1>2, <1>3, Zenon
<1>5. /\ GeneratedOk' /\ Generates(gen, r) /\ Len(batches) \in Nat
      /\ \A n \in 0 .. Len(batches) : Replayed(n)' = Replayed(n) /\ AfterBatches(n)' = AfterBatches(n)
      /\ r.step.kind = "batch" => /\ Len(batches') = Len(batches) + 1
                                  /\ batches'[Len(batches) + 1] = r.step.ops
      /\ r.step.kind # "batch" => batches' = batches
  BY <1>1, <1>2, <1>4, GeneratedFits DEF RunnerInv
<1>6. PICK n : n = Executed
  OBVIOUS
<1>7. /\ n = Len(batches) /\ model = Replayed(n) /\ db = AfterBatches(n)
      /\ IF mode = "run" THEN check = NoCheck /\ executed = ack ELSE executed = check.done
  BY <1>1, <1>6 DEF RunnerInv, Running
<1>8. Executed' = n /\ n \in 0 .. Len(batches)
  BY <1>1, <1>5, <1>6, <1>7 DEF Executed
<1>9. RunnerTypes'
  BY <1>1, Kept DEF RunnerInv, RunnerTypes
<1>10. step' = r.step /\ gen' = r.g
  BY <1>2 DEF Generated
<1>11. Running'
  <2>1. model' = Replayed(Executed)' /\ db' = AfterBatches(Executed)'
    BY <1>1, <1>5, <1>7, <1>8
  <2>2. step'.kind \in Kinds
    BY <1>5, <1>10 DEF Generates
  <2>3. CASE r.step.kind = "batch"
    <3>1. UnderWay'
      BY <1>1, <1>5, <1>7, <1>8, <1>10, <2>3 DEF UnderWay
    <3> QED
      BY <1>1, <1>7, <1>10, <2>1, <2>2, <2>3, <3>1 DEF Running, NoCheck
  <2>4. CASE r.step.kind # "batch"
    <3>1. Len(batches') = Executed'
      BY <1>5, <1>7, <1>8, <2>4
    <3> QED
      BY <1>1, <1>7, <1>10, <2>1, <2>2, <2>4, <3>1 DEF Running, NoCheck
  <2> QED
    BY <2>3, <2>4
<1>12. Reading' /\ Checking'
  BY <1>1 DEF Reading, Checking
<1>13. Snapshots'
  BY <1>1, <1>5, <1>10 DEF RunnerInv, Snapshots, Generates
<1> QED
  BY <1>5, <1>9, <1>11, <1>12, <1>13 DEF RunnerInv

\* BatchWrite.
LEMMA BatchWriteKeeps ==
  ASSUME RunnerInv, BatchWrite
  PROVE  RunnerInv'
<1>1. /\ pc = "step" /\ step.kind = "batch" /\ pc' = "written" /\ mode \in {"run", "continue"}
      /\ w' = w /\ mode' = mode /\ batches' = batches /\ gen' = gen /\ step' = step /\ model' = model
      /\ snapshot' = snapshot /\ executed' = executed /\ ack' = ack /\ left' = left /\ check' = check
  BY IsRunning DEF BatchWrite, In
<1>2. /\ UnderWay /\ model = Replayed(Executed) /\ db = Contents(model.ver)
      /\ IF mode = "run" THEN check = NoCheck /\ executed = ack ELSE executed = check.done
  BY <1>1 DEF RunnerInv, Running, AfterBatches
<1>3. PICK n, m, ops, m1 : /\ n = Executed /\ m = Replayed(n) /\ ops = step.ops
                           /\ m1 = ReplayBatch(model, step.ops)
  OBVIOUS
<1>4. /\ n \in Nat /\ Len(batches) = n + 1 /\ ops = batches[n + 1] /\ m = model
      /\ m \in Models /\ ops \in Seq(Operation) /\ Replayed(n + 1) = ReplayBatch(m, ops)
  <2>1. n \in Nat /\ Len(batches) = n + 1 /\ ops = batches[n + 1] /\ m = model
    BY <1>2, <1>3, ExecutedIs DEF RunnerInv, UnderWay
  <2>2. n \in 0 .. Len(batches) /\ n < Len(batches)
    BY <2>1
  <2> QED
    BY <1>3, <2>1, <2>2, ReplayedFits DEF RunnerInv
<1>5. m1 = Replayed(n + 1) /\ m1 \in Models /\ \A id \in Ids \ IdsOf(ops) : m1.ver[id] = m.ver[id]
  BY <1>3, <1>4, ReplayModel
<1>6. db' = Contents(m1.ver)
  <2>1. db' = [id \in Ids |-> IF \E i \in DOMAIN ops : ops[i].id = id
                              THEN Contents(m1.ver)[id] ELSE db[id]]
    BY <1>3 DEF BatchWrite
  <2>2. /\ m.ver \in [Ids -> Int] /\ m1.ver \in [Ids -> Int] /\ db = Contents(m.ver)
    BY <1>2, <1>3, <1>4, <1>5 DEF Models
  <2>3. PICK v, v1 : v = m.ver /\ v1 = m1.ver
    OBVIOUS
  <2>4. \A u \in [Ids -> Int] : Contents(u) = [id \in Ids |-> IF u[id] > 0 THEN u[id] ELSE 0]
    BY DEF Contents
  <2>5. \A id \in Ids : (\E i \in DOMAIN ops : ops[i].id = id) \/ v1[id] = v[id]
    BY <1>5, <2>3 DEF IdsOf
  <2>6. Contents(v1) = [id \in Ids |-> IF v1[id] > 0 THEN v1[id] ELSE 0]
        /\ Contents(v) = [id \in Ids |-> IF v[id] > 0 THEN v[id] ELSE 0]
    BY <2>2, <2>3, <2>4
  <2>7. ASSUME NEW id \in Ids
        PROVE  (IF \E i \in DOMAIN ops : ops[i].id = id THEN Contents(v1)[id] ELSE Contents(v)[id])
                 = Contents(v1)[id]
    BY <2>5, <2>6
  <2>8. db' = [id \in Ids |-> Contents(v1)[id]]
    BY <2>1, <2>2, <2>3, <2>7
  <2> QED
    BY <2>3, <2>6, <2>8
<1>7. Executed' = n /\ AfterBatches(n + 1)' = Contents(m1.ver) /\ Replayed(n)' = Replayed(n)
  BY <1>1, <1>3, <1>5, Kept DEF Executed, AfterBatches
<1>8. RunnerTypes'
  <2>1. db' \in [Ids -> Nat]
    <3>1. PICK u \in [Ids -> Int] : u = m1.ver
      BY <1>5 DEF Models
    <3> QED
      BY <1>6, <3>1, Shown
  <2> QED
    BY <1>1, <2>1, Kept DEF RunnerInv, RunnerTypes
<1>9. Running'
  <2>1. UnderWay'
    BY <1>1, <1>2, <1>3, <1>7 DEF UnderWay
  <2>2. model' = Replayed(Executed)' /\ db' = AfterBatches(Executed + 1)'
    BY <1>1, <1>3, <1>4, <1>6, <1>7
  <2> QED
    BY <1>1, <1>2, <2>1, <2>2 DEF Running, NoCheck
<1>10. Reading' /\ Checking'
  BY <1>1 DEF Reading, Checking
<1>11. Snapshots' /\ GeneratedOk'
  BY <1>1, StillGenerated DEF RunnerInv, Snapshots
<1> QED
  BY <1>8, <1>9, <1>10, <1>11 DEF RunnerInv

\* BatchDone.
LEMMA BatchDoneKeeps ==
  ASSUME RunnerInv, BatchDone
  PROVE  RunnerInv'
<1>1. /\ pc = "written" /\ pc' = "loop" /\ mode \in {"run", "continue"}
      /\ model' = ReplayBatch(model, step.ops) /\ executed' = executed + 1
      /\ ack' = (IF mode = "run" THEN executed + 1 ELSE ack)
      /\ check' = (IF mode = "continue" THEN [check EXCEPT !.done = @ + 1] ELSE check)
      /\ (snapshot' = snapshot \/ snapshot' = NoSnapshot)
      /\ w' = w /\ mode' = mode /\ batches' = batches /\ gen' = gen /\ db' = db /\ left' = left
  BY IsRunning DEF BatchDone, GoOn
<1>2. /\ UnderWay /\ model = Replayed(Executed) /\ db = AfterBatches(Executed + 1)
      /\ IF mode = "run" THEN check = NoCheck /\ executed = ack ELSE executed = check.done
  BY <1>1 DEF RunnerInv, Running
<1>3. PICK n, m, ops : n = Executed /\ m = Replayed(n) /\ ops = step.ops
  OBVIOUS
<1>4. /\ n \in Nat /\ Len(batches) = n + 1 /\ m = model
      /\ Replayed(n + 1) = ReplayBatch(m, ops) /\ Replayed(n + 1) \in Models
  <2>1. n \in Nat /\ Len(batches) = n + 1 /\ ops = batches[n + 1] /\ m = model
    BY <1>2, <1>3, ExecutedIs DEF RunnerInv, UnderWay
  <2>2. n \in 0 .. Len(batches) /\ n < Len(batches) /\ n + 1 \in 0 .. Len(batches)
    BY <2>1
  <2> QED
    BY <1>3, <2>1, <2>2, ReplayedFits DEF RunnerInv
<1>5. model' = Replayed(n + 1) /\ db' = AfterBatches(n + 1)
  BY <1>1, <1>2, <1>3, <1>4
<1>6. /\ check \in [next : Seq(Operation), before : {<<>>} \cup [Ids -> Int], applied : BOOLEAN,
                    done : 0 .. Continue]
      /\ ack \in Nat /\ executed \in Nat /\ Continue \in Nat
  BY RunnerAssumption DEF RunnerInv, RunnerTypes
<1>7. /\ check' \in [next : Seq(Operation), before : {<<>>} \cup [Ids -> Int], applied : BOOLEAN,
                     done : 0 .. Continue]
      /\ check'.applied = check.applied
      /\ check'.done = (IF mode = "continue" THEN check.done + 1 ELSE check.done)
  <2>1. CASE mode = "continue"
    <3>1. check.done + 1 \in 0 .. Continue
      BY <1>2, <1>6, <2>1 DEF UnderWay
    <3> QED
      BY <1>1, <1>6, <2>1, <3>1
  <2>2. CASE mode # "continue"
    BY <1>1, <1>6, <2>2
  <2> QED
    BY <2>1, <2>2
<1>8. Executed' = n + 1
  <2>1. n = ack + (IF check.applied THEN 1 ELSE 0) + check.done
        /\ Executed' = ack' + (IF check'.applied THEN 1 ELSE 0) + check'.done
    BY <1>3 DEF Executed
  <2>2. ack \in Nat /\ check.done \in Nat /\ check.applied \in BOOLEAN
    BY <1>6
  <2>3. CASE mode = "run"
    BY <1>1, <1>2, <1>7, <2>1, <2>2, <2>3
  <2>4. CASE mode = "continue"
    BY <1>1, <1>2, <1>7, <2>1, <2>2, <2>4
  <2> QED
    BY <1>1, <2>3, <2>4
<1>9. RunnerTypes'
  <2>1. ack' \in Nat /\ executed' \in Nat /\ model' \in Models
    BY <1>1, <1>4, <1>5, <1>6
  <2> QED
    BY <1>1, <1>7, <2>1, Kept DEF RunnerInv, RunnerTypes
<1>10. Running'
  <2>1. model' = Replayed(Executed)' /\ db' = AfterBatches(Executed)'
    BY <1>1, <1>5, <1>8, Kept
  <2>2. Len(batches') = Executed'
    BY <1>1, <1>4, <1>8
  <2>3. IF mode' = "run" THEN check' = NoCheck /\ executed' = ack' ELSE executed' = check'.done
    BY <1>1, <1>2, <1>7
  <2>4. mode' \in {"run", "continue"} /\ pc' = "loop"
    BY <1>1
  <2> QED
    BY <2>1, <2>2, <2>3, <2>4 DEF Running, NoCheck
<1>11. Reading' /\ Checking'
  BY <1>1 DEF Reading, Checking
<1>12. Snapshots' /\ GeneratedOk'
  <2>1. mode = "run" /\ snapshot.held => gen.snapPending
    BY <1>1 DEF RunnerInv, Snapshots
  <2>2. GeneratedOk'
    BY <1>1, StillGenerated DEF RunnerInv
  <2>0. pc' = "loop" /\ mode' = mode /\ gen' = gen
    BY <1>1
  <2>3. CASE snapshot' = snapshot
    BY <2>0, <2>1, <2>2, <2>3 DEF RunnerInv, Snapshots
  <2>4. CASE snapshot' = NoSnapshot
    <3>1. snapshot'.held = FALSE
      BY <2>4 DEF NoSnapshot
    <3> QED
      BY <2>0, <2>2, <3>1 DEF Snapshots
  <2> QED
    BY <1>1, <2>2, <2>3, <2>4
<1> QED
  BY <1>9, <1>10, <1>11, <1>12 DEF RunnerInv

\* A step that reads or that takes or checks a snapshot: nothing is written.
LEMMA NothingWritten ==
  ASSUME RunnerInv, pc = "step", step.kind # "batch", pc' = "loop",
         w' = w, mode' = mode, batches' = batches, gen' = gen, model' = model, executed' = executed,
         ack' = ack, db' = db, left' = left, check' = check
  PROVE  GeneratedOk' /\ RunnerTypes' /\ Running' /\ Reading' /\ Checking'
<1>1. mode \in {"run", "continue"}
  BY IsRunning
<1>2. GeneratedOk' /\ RunnerTypes'
  BY StillGenerated, Kept DEF RunnerInv, RunnerTypes
<1>3. /\ Len(batches) = Executed /\ model = Replayed(Executed) /\ db = AfterBatches(Executed)
      /\ IF mode = "run" THEN check = NoCheck /\ executed = ack ELSE executed = check.done
  BY <1>1 DEF RunnerInv, Running
<1>4. Executed' = Executed
  BY DEF Executed
<1>5. model' = Replayed(Executed)' /\ db' = AfterBatches(Executed)'
  BY <1>3, <1>4, Kept
<1>6. Running'
  BY <1>1, <1>3, <1>4, <1>5 DEF Running, NoCheck
<1>7. Reading' /\ Checking'
  BY <1>1 DEF Reading, Checking
<1> QED
  BY <1>2, <1>6, <1>7

\* A model's reads match the database that has what it has.
LEMMA ReadsMatch ==
  ASSUME w \in Workloads, NEW m \in Models, db = Contents(m.ver)
  PROVE  /\ \A id \in ReadIds : GetMatches(db, m.ver, id)
         /\ \A from \in ReadIds, n \in ScanLens : ScanMatches(db, m.ver, from, n)
         /\ PhaseFMatches(m.ver)
<1>1. PICK v \in [Ids -> Int] : v = m.ver
  BY DEF Models
<1>2. ReadIds \subseteq Nat /\ ScanLens \subseteq Nat
  BY Sizes, RunnerAssumption DEF ReadIds
<1>3. \A id \in ReadIds : GetMatches(db, v, id)
  BY <1>1 DEF GetMatches
<1>4. \A from \in ReadIds, n \in ScanLens : ScanMatches(db, v, from, n) /\ RScanMatches(db, v, from, n)
  <2> TAKE from \in ReadIds, n \in ScanLens
  <2>1. from \in Nat /\ n \in Nat
    BY <1>2
  <2> QED
    BY <1>1, <2>1, ScanFits, RScanFits
<1>5. PhaseFMatches(v)
  BY <1>1, <1>3, <1>4 DEF PhaseFMatches
<1> QED
  BY <1>1, <1>3, <1>4, <1>5

\* Read.
LEMMA ReadKeeps ==
  ASSUME RunnerInv, Read
  PROVE  RunnerInv'
<1>1. /\ pc = "step" /\ step.kind \in {"get", "scan", "phase"}
      /\ w' = w /\ mode' = mode /\ batches' = batches /\ gen' = gen /\ model' = model
      /\ snapshot' = snapshot /\ executed' = executed /\ ack' = ack /\ db' = db /\ left' = left
      /\ check' = check
  BY DEF Read, In
<1>2. w \in Workloads /\ model \in Models /\ db = Contents(model.ver)
  <2>1. mode \in {"run", "continue"}
    BY <1>1, IsRunning
  <2>2. model = Replayed(Executed) /\ db = AfterBatches(Executed)
    BY <1>1, <2>1 DEF RunnerInv, Running
  <2> QED
    BY <2>2 DEF AfterBatches, RunnerInv, GeneratedOk, RunnerTypes
<1>3. PICK m \in Models : m = model
  BY <1>2
<1>4. /\ \A id \in ReadIds : GetMatches(db, model.ver, id)
      /\ \A from \in ReadIds, n \in ScanLens : ScanMatches(db, model.ver, from, n)
  BY <1>2, <1>3, ReadsMatch
<1>5. pc' = "loop"
  <2>1. CASE step.kind = "get"
    BY <1>4, <2>1 DEF Read, GoOn
  <2>2. CASE step.kind = "scan"
    BY <1>4, <2>2 DEF Read, GoOn
  <2>3. CASE step.kind = "phase"
    BY <2>3 DEF Read, GoOn
  <2> QED
    BY <1>1, <2>1, <2>2, <2>3
<1>6. Snapshots'
  BY <1>1, <1>5 DEF RunnerInv, Snapshots
<1>7. step.kind # "batch"
  BY <1>1
<1> QED
  BY <1>1, <1>5, <1>6, <1>7, NothingWritten DEF RunnerInv

\* DoSnapTake.
LEMMA SnapTakeKeeps ==
  ASSUME RunnerInv, DoSnapTake
  PROVE  RunnerInv'
<1>1. /\ pc = "step" /\ step.kind = "snapTake" /\ pc' = "loop"
      /\ w' = w /\ mode' = mode /\ batches' = batches /\ gen' = gen /\ model' = model
      /\ executed' = executed /\ ack' = ack /\ db' = db /\ left' = left /\ check' = check
  BY DEF DoSnapTake, In, GoOn
<1>2. mode \in {"run", "continue"}
  BY <1>1, IsRunning
<1>3. db = Contents(model.ver) /\ model \in Models
  BY <1>1, <1>2 DEF RunnerInv, Running, AfterBatches, RunnerTypes
<1>4. PICK v \in [Ids -> Int] : v = model.ver
  BY <1>3 DEF Models
<1>5. PICK S : S = step.ids \cap Ids
  OBVIOUS
<1>6. PICK sample : sample = [id \in S |-> v[id]]
  OBVIOUS
<1>7. \A id \in S : db[id] = Contents(sample)[id]
  <2>1. \A id \in S : Contents(sample)[id] = IF v[id] > 0 THEN v[id] ELSE 0
    BY <1>6 DEF Contents
  <2>2. \A id \in S : Contents(v)[id] = IF v[id] > 0 THEN v[id] ELSE 0
    BY <1>4, <1>5 DEF Contents
  <2> QED
    BY <1>3, <1>4, <2>1, <2>2
<1>8. Snapshots'
  <2>1. gen.snapPending
    BY <1>1 DEF RunnerInv, Snapshots
  <2>2. /\ snapshot'.held = TRUE /\ snapshot'.db = db /\ snapshot'.sample = sample
        /\ DOMAIN sample = S
    BY <1>4, <1>5, <1>6 DEF DoSnapTake
  <2> QED
    BY <1>1, <1>7, <2>1, <2>2 DEF Snapshots
<1>9. step.kind # "batch"
  BY <1>1
<1> QED
  BY <1>1, <1>8, <1>9, NothingWritten DEF RunnerInv

\* DoSnapCheck.
LEMMA SnapCheckKeeps ==
  ASSUME RunnerInv, DoSnapCheck
  PROVE  RunnerInv'
<1>1. /\ pc = "step" /\ step.kind = "snapCheck" /\ snapshot' = NoSnapshot
      /\ w' = w /\ mode' = mode /\ batches' = batches /\ gen' = gen /\ model' = model
      /\ executed' = executed /\ ack' = ack /\ db' = db /\ left' = left /\ check' = check
  BY DEF DoSnapCheck, In
<1>2. pc' = "loop"
  BY DEF DoSnapCheck, GoOn, RunnerInv, Snapshots
<1>3. snapshot'.held = FALSE
  BY <1>1 DEF NoSnapshot
<1>4. Snapshots'
  BY <1>2, <1>3 DEF Snapshots
<1>5. step.kind # "batch"
  BY <1>1
<1> QED
  BY <1>1, <1>2, <1>4, <1>5, NothingWritten DEF RunnerInv

\* RunEnds.
LEMMA RunEndsKeeps ==
  ASSUME RunnerInv, RunEnds
  PROVE  RunnerInv'
<1>1. /\ mode = "run" /\ pc = "loop" /\ mode' = "read" /\ pc' = "start" /\ snapshot' = NoSnapshot
      /\ w' = w /\ batches' = batches /\ gen' = gen /\ step' = step /\ model' = model
      /\ executed' = executed /\ ack' = ack /\ db' = db /\ left' = left /\ check' = check
  BY DEF RunEnds
<1>2. GeneratedOk' /\ RunnerTypes'
  BY <1>1, StillGenerated, Kept DEF RunnerInv, RunnerTypes
<1>3. /\ Len(batches) = Executed /\ db = AfterBatches(Executed) /\ check = NoCheck /\ executed = ack
      /\ ack \in Nat
  BY <1>1 DEF RunnerInv, Running, RunnerTypes
<1>4. Executed = ack
  BY <1>3 DEF Executed, NoCheck
<1>5. Reading'
  BY <1>1, <1>3, <1>4, Kept DEF Reading, NoCheck
<1>6. Running' /\ Checking'
  BY <1>1 DEF Running, Checking
<1>7. snapshot'.held = FALSE
  BY <1>1 DEF NoSnapshot
<1>8. Snapshots'
  BY <1>1, <1>7 DEF Snapshots
<1> QED
  BY <1>2, <1>5, <1>6, <1>8 DEF RunnerInv

\* ReadPhaseF.
LEMMA ReadPhaseFKeeps ==
  ASSUME RunnerInv, ReadPhaseF
  PROVE  RunnerInv'
<1>1. /\ mode = "read" /\ pc = "start" /\ model' = Replayed(Len(batches))
      /\ w' = w /\ mode' = mode /\ batches' = batches /\ gen' = gen /\ step' = step
      /\ snapshot' = snapshot
      /\ executed' = executed /\ ack' = ack /\ db' = db /\ left' = left /\ check' = check
  BY DEF ReadPhaseF
<1>2. Len(batches) = ack /\ executed = ack /\ check = NoCheck /\ db = AfterBatches(ack)
  BY <1>1 DEF RunnerInv, Reading
<1>3. PICK m : m = Replayed(Len(batches))
  OBVIOUS
<1>4. m \in Models /\ w \in Workloads
  <2>1. Len(batches) \in 0 .. Len(batches) /\ w \in Workloads
    BY DEF RunnerInv, GeneratedOk
  <2> QED
    BY <1>3, <2>1, ReplayedFits DEF RunnerInv
<1>5. PhaseFMatches(m.ver)
  BY <1>2, <1>3, <1>4, ReadsMatch DEF AfterBatches
<1>6. pc' = "done"
  BY <1>3, <1>5 DEF ReadPhaseF
<1>7. GeneratedOk' /\ RunnerTypes'
  <2>1. model' \in Models
    BY <1>1, <1>3, <1>4
  <2> QED
    BY <1>1, <2>1, StillGenerated, Kept DEF RunnerInv, RunnerTypes
<1>8. Reading'
  BY <1>1, <1>2, <1>6, Kept DEF Reading, NoCheck
<1>9. Running' /\ Checking' /\ Snapshots'
  BY <1>1, <1>6 DEF RunnerInv, Running, Checking, Snapshots
<1> QED
  BY <1>7, <1>8, <1>9 DEF RunnerInv

\* Crash.
LEMMA CrashKeeps ==
  ASSUME RunnerInv, Crash
  PROVE  RunnerInv'
<1>1. /\ mode = "run" /\ pc \in {"loop", "step", "written"}
      /\ \E d \in Left : db' = d /\ left' = d
      /\ model' = Replayed(ack) /\ mode' = "check" /\ pc' = "seek"
      /\ snapshot' = NoSnapshot /\ executed' = 0
      /\ w' = w /\ batches' = batches /\ gen' = gen /\ ack' = ack /\ check' = check
  BY DEF Crash
<1>2. /\ db \in [Ids -> Nat] /\ ack \in Nat /\ model \in Models /\ Len(batches) \in Nat
      /\ check = NoCheck /\ executed = ack
  BY <1>1 DEF RunnerInv, RunnerTypes, Running, GeneratedOk
<1>3. Executed = ack
  BY <1>2 DEF Executed, NoCheck
<1>4. Len(batches) = ack \/ Len(batches) = ack + 1
  BY <1>1, <1>3 DEF RunnerInv, Running, UnderWay
<1>5. Replayed(ack) \in Models /\ (ack > 0 => AfterBatches(ack - 1) \in [Ids -> Nat])
  <2>1. ack \in 0 .. Len(batches) /\ (ack > 0 => ack - 1 \in 0 .. Len(batches))
    BY <1>2, <1>4
  <2> QED
    BY <2>1, ReplayedFits DEF RunnerInv
<1>6. ASSUME NEW d \in Left
      PROVE  d \in [Ids -> Nat]
  <2>1. PICK v \in [Ids -> Int] : v = model.ver
    BY <1>2 DEF Models
  <2>2. Contents(v) \in [Ids -> Nat]
    BY Shown
  <2> DEFINE Parts == {[id \in Ids |-> IF id \in S THEN db[id] ELSE Contents(v)[id]] :
                         S \in SUBSET {step.ops[i].id : i \in DOMAIN step.ops}}
             Lost == {Contents(Replayed(ack - 1).ver)}
  <2>3. d = db \/ (ack > 0 /\ d \in Lost) \/ d \in Parts
    <3>1. Left = {db} \cup (IF Faulty /\ ack > 0 /\ ~InFlight THEN Lost ELSE {})
                      \cup (IF Faulty /\ InFlight THEN Parts ELSE {})
      BY <2>1 DEF Left
    <3> HIDE DEF Lost, Parts
    <3> QED
      BY <3>1
  <2>4. CASE d \in Parts
    BY <1>2, <2>2, <2>4
  <2>5. CASE ack > 0 /\ d \in Lost
    BY <1>5, <2>5 DEF AfterBatches
  <2> QED
    BY <1>2, <2>3, <2>4, <2>5
<1>7. db' \in [Ids -> Nat] /\ left' = db'
  BY <1>1, <1>6
<1>8. GeneratedOk' /\ RunnerTypes'
  <2>1. GeneratedOk'
    BY <1>1, StillGenerated DEF RunnerInv
  <2>2. model' \in Models
    BY <1>1, <1>5
  <2> QED
    BY <1>1, <1>7, <2>1, <2>2, Kept DEF RunnerInv, RunnerTypes
<1>9. Checking'
  <2>1. model' = Replayed(ack)' /\ check'.done = 0
    BY <1>1, <1>2, Kept DEF NoCheck
  <2> QED
    BY <1>1, <1>2, <1>4, <1>7, <2>1 DEF Checking, NoCheck
<1>10. Running' /\ Reading'
  BY <1>1 DEF Running, Reading
<1>11. Snapshots'
  <2>1. snapshot'.held = FALSE
    BY <1>1 DEF NoSnapshot
  <2> QED
    BY <1>1, <2>1 DEF Snapshots
<1> QED
  BY <1>8, <1>9, <1>10, <1>11 DEF RunnerInv

\* SeekNext.
LEMMA SeekNextKeeps ==
  ASSUME RunnerInv, SeekNext
  PROVE  RunnerInv'
<1>1. /\ pc = "seek" /\ mode = "check"
      /\ w' = w /\ mode' = mode /\ model' = model /\ snapshot' = snapshot /\ executed' = executed
      /\ ack' = ack /\ db' = db /\ left' = left
      /\ check' = IF pc' = "verify"
                  THEN [check EXCEPT !.next = batches'[ack + 1], !.before = model.ver] ELSE check
  BY DEF SeekNext, RunnerInv, RunnerTypes, Running, Reading
<1>2. /\ executed = 0 /\ check.done = 0 /\ db = left /\ Len(batches) \in {ack, ack + 1}
      /\ check = NoCheck /\ model = Replayed(ack) /\ ack \in Nat /\ GeneratedOk
      /\ model \in Models /\ model.ver \in [Ids -> Int]
      /\ check \in [next : Seq(Operation), before : {<<>>} \cup [Ids -> Int],
                    applied : BOOLEAN, done : 0 .. Continue]
  BY <1>1 DEF RunnerInv, RunnerTypes, Checking, Models
<1>3. /\ GeneratedOk' /\ Replayed(ack)' = Replayed(ack)
      /\ \/ pc' = "seek" /\ batches' = batches
         \/ pc' = "verify" /\ Len(batches') = ack + 1
  <2>1. CASE Len(batches) > ack
    <3>1. batches' = batches /\ gen' = gen /\ pc' = "verify"
      BY <2>1 DEF SeekNext
    <3> QED
      BY <1>1, <1>2, <2>1, <3>1, StillGenerated, Kept
  <2>2. CASE ~(Len(batches) > ack)
    <3>1. PICK r \in NextStep(w, gen, TRUE) :
            Generated(r) /\ pc' = IF r.step.kind = "batch" THEN "verify" ELSE "seek"
      BY <2>2 DEF SeekNext
    <3>2. Len(batches) = ack /\ ack \in 0 .. Len(batches)
      BY <1>2, <2>2
    <3>3. /\ GeneratedOk' /\ Replayed(ack)' = Replayed(ack)
          /\ r.step.kind = "batch" => Len(batches') = ack + 1
          /\ r.step.kind # "batch" => batches' = batches
      BY <1>1, <1>2, <3>1, <3>2, GeneratedFits
    <3> QED
      BY <3>1, <3>3
  <2> QED
    BY <2>1, <2>2
<1>4. pc' = "verify" => batches'[ack + 1] \in Seq(Operation)
  <2> SUFFICES ASSUME pc' = "verify"
               PROVE  batches'[ack + 1] \in Seq(Operation)
    OBVIOUS
  <2>1. batches' \in Seq(Seq(Operation)) /\ ack + 1 \in 1 .. Len(batches')
    BY <1>1, <1>2, <1>3, Kept DEF GeneratedOk
  <2> QED
    BY <2>1
<1>5. /\ check' \in [next : Seq(Operation), before : {<<>>} \cup [Ids -> Int],
                     applied : BOOLEAN, done : 0 .. Continue]
      /\ check'.done = 0
      /\ pc' = "seek" => check' = NoCheck
      /\ pc' = "verify" => check'.next = batches'[ack + 1] /\ check'.before = Replayed(ack).ver
  <2>1. CASE pc' = "verify"
    <3>1. PICK ops, ver : ops = batches'[ack + 1] /\ ver = model.ver
      OBVIOUS
    <3>2. check' = [[check EXCEPT !.next = ops] EXCEPT !.before = ver]
      BY <1>1, <2>1, <3>1
    <3>3. ops \in Seq(Operation) /\ ver \in {<<>>} \cup [Ids -> Int]
      BY <1>2, <1>4, <2>1, <3>1
    <3>4. check'.done = check.done /\ check'.next = ops /\ check'.before = ver
          /\ check' \in [next : Seq(Operation), before : {<<>>} \cup [Ids -> Int],
                         applied : BOOLEAN, done : 0 .. Continue]
      BY <1>2, <3>2, <3>3
    <3> QED
      BY <1>2, <2>1, <3>1, <3>4
  <2>2. CASE pc' # "verify"
    BY <1>1, <1>2, <2>2
  <2> QED
    BY <2>1, <2>2
<1>6. RunnerTypes'
  BY <1>1, <1>5, Kept DEF RunnerInv, RunnerTypes
<1>7. Checking'
  <2>1. CASE pc' = "seek"
    BY <1>1, <1>2, <1>3, <1>5, <2>1 DEF Checking, NoCheck
  <2>2. CASE pc' = "verify"
    BY <1>1, <1>2, <1>3, <1>5, <2>2 DEF Checking, NoCheck
  <2> QED
    BY <1>3, <2>1, <2>2
<1>8. Running' /\ Reading'
  BY <1>1 DEF Running, Reading
<1>9. Snapshots'
  BY <1>1, <1>3 DEF RunnerInv, Snapshots
<1> QED
  BY <1>3, <1>6, <1>7, <1>8, <1>9 DEF RunnerInv

\* decide tells the state of the ids of a batch.
LEMMA DecideIs ==
  ASSUME NEW before, NEW after, NEW ids, NEW state, state = Decide(before, after, ids)
  PROVE  /\ state = "new" => \A id \in ids : db[id] = after[id]
         /\ state \notin {"new", "mismatch"} => \A id \in ids : db[id] = before[id]
         /\ state = "mismatch" => /\ \E id \in ids : db[id] # before[id]
                                  /\ \E id \in ids : db[id] # after[id]
<1> DEFINE old == {id \in ids : db[id] = before[id]}
           new == {id \in ids : db[id] = after[id]}
           partly == ids \ (old \cup new) # {} \/ (old \ new # {} /\ new \ old # {})
<1>1. state = IF partly THEN "mismatch" ELSE IF new \ old # {} THEN "new"
              ELSE IF old \ new # {} THEN "old" ELSE "unknown"
  BY DEF Decide
<1>2. state = "mismatch" <=> partly
  BY <1>1
<1>3. state = "new" => ids \subseteq new
  BY <1>1
<1>4. state \notin {"new", "mismatch"} => ids \subseteq old
  BY <1>1
<1>5. partly => (\E id \in ids : id \notin old) /\ (\E id \in ids : id \notin new)
  OBVIOUS
<1> QED
  BY <1>2, <1>3, <1>4, <1>5

\* Verify: the batch counts as applied when the database has it, and the
\* comparison fails only on a database that is in neither state.
LEMMA VerifyKeeps ==
  ASSUME RunnerInv, Verify
  PROVE  RunnerInv'
<1> DEFINE after0   == ReplayBatch(model, check.next)
           ids0     == {check.next[i].id : i \in DOMAIN check.next}
           state0   == Decide(Contents(model.ver), Contents(after0.ver), ids0)
           patched0 == [id \in Ids |-> IF state0 = "new" /\ id \in ids0
                                       THEN after0.ver[id] ELSE model.ver[id]]
<1>1. /\ pc = "verify" /\ mode = "check"
      /\ w' = w /\ mode' = mode /\ batches' = batches /\ gen' = gen /\ step' = step
      /\ snapshot' = snapshot /\ executed' = executed /\ ack' = ack /\ db' = db /\ left' = left
  BY DEF Verify, RunnerInv, RunnerTypes, Running, Reading
<1>2. /\ executed = 0 /\ check.done = 0 /\ db = left /\ Len(batches) = ack + 1
      /\ check.next = batches[ack + 1] /\ check.before = Replayed(ack).ver
      /\ model = Replayed(ack) /\ ack \in Nat /\ GeneratedOk /\ w \in Workloads
      /\ model \in Models /\ db \in [Ids -> Nat]
      /\ check \in [next : Seq(Operation), before : {<<>>} \cup [Ids -> Int],
                    applied : BOOLEAN, done : 0 .. Continue]
  BY <1>1 DEF RunnerInv, RunnerTypes, Checking, GeneratedOk
<1>3. PICK after, ids, state, patched, ver, applied, ok :
        /\ after = after0 /\ ids = ids0 /\ state = state0 /\ patched = patched0 /\ ver = model.ver
        /\ applied = (state = "new")
        /\ ok = /\ state # "mismatch" /\ (\A id \in Ids \ ids : db[id] = Contents(ver)[id])
                /\ RScanMatches(db, patched, w.universe - 1, w.universe)
  OBVIOUS
<1>4. /\ model' = [model EXCEPT !.ver = patched]
      /\ check' = [check EXCEPT !.applied = applied]
      /\ pc' = IF ok THEN "resume" ELSE "mismatch"
  BY <1>3 DEF Verify
<1>5. /\ after = Replayed(ack + 1) /\ after \in Models /\ after.ver \in [Ids -> Int]
      /\ ver \in [Ids -> Int] /\ ids = IdsOf(check.next)
      /\ \A id \in Ids \ ids : after.ver[id] = ver[id]
  <2>1. ack \in 0 .. Len(batches) /\ ack < Len(batches)
    BY <1>2
  <2>2. check.next \in Seq(Operation) /\ Replayed(ack + 1) = ReplayBatch(model, check.next)
    BY <1>2, <2>1, ReplayedFits
  <2>3. PICK m, ops : m = model /\ ops = check.next
    OBVIOUS
  <2>4. /\ ReplayBatch(m, ops) \in Models
        /\ \A id \in Ids \ IdsOf(ops) : ReplayBatch(m, ops).ver[id] = m.ver[id]
    BY <1>2, <2>2, <2>3, ReplayModel
  <2>5. after = ReplayBatch(m, ops) /\ ver = m.ver /\ ids = IdsOf(ops)
    BY <1>3, <2>3 DEF IdsOf
  <2>6. m \in Models
    BY <1>2, <2>3
  <2>7. \A u \in Models : u.ver \in [Ids -> Int]
    BY DEF Models
  <2> HIDE DEF IdsOf, Models, after0, ids0, state0, patched0
  <2>8. after \in Models /\ \A id \in Ids \ ids : after.ver[id] = ver[id]
    BY <2>4, <2>5
  <2>9. after = Replayed(ack + 1) /\ ids = IdsOf(check.next)
    BY <2>2, <2>3, <2>5
  <2> QED
    BY <2>5, <2>6, <2>7, <2>8, <2>9
<1> HIDE DEF after0, ids0, patched0
<1>6. PICK aft : aft = after.ver
  OBVIOUS
<1>7. /\ state = Decide(Contents(ver), Contents(aft), ids)
      /\ patched = [id \in Ids |-> IF applied /\ id \in ids THEN aft[id] ELSE ver[id]]
  BY <1>3, <1>6 DEF patched0
<1>8. /\ state = "new" => \A id \in ids : db[id] = Contents(aft)[id]
      /\ state \notin {"new", "mismatch"} => \A id \in ids : db[id] = Contents(ver)[id]
      /\ state = "mismatch" => /\ \E id \in ids : db[id] # Contents(ver)[id]
                               /\ \E id \in ids : db[id] # Contents(aft)[id]
  BY <1>7, DecideIs
<1>9. /\ aft \in [Ids -> Int] /\ ver \in [Ids -> Int] /\ Contents(aft) \in [Ids -> Nat]
      /\ Contents(ver) \in [Ids -> Nat]
      /\ \A id \in Ids \ ids : Contents(aft)[id] = Contents(ver)[id]
  <2>1. \A u \in [Ids -> Int] : Contents(u) = [id \in Ids |-> IF u[id] > 0 THEN u[id] ELSE 0]
    BY DEF Contents
  <2>2. aft \in [Ids -> Int] /\ ver \in [Ids -> Int] /\ \A id \in Ids \ ids : aft[id] = ver[id]
    BY <1>5, <1>6
  <2> QED
    BY <2>1, <2>2, Shown
<1>10. /\ AfterBatches(ack) = Contents(ver) /\ AfterBatches(ack + 1) = Contents(aft)
  BY <1>2, <1>3, <1>5, <1>6 DEF AfterBatches
<1>11. /\ patched \in [Ids -> Int] /\ applied \in BOOLEAN
       /\ ~applied => patched = ver
       /\ applied => patched = aft
  <2>1. patched \in [Ids -> Int] /\ applied \in BOOLEAN
    BY <1>3, <1>7, <1>9
  <2>2. ~applied => patched = ver
    BY <1>7, <1>9
  <2>3. applied => \A id \in Ids : (IF applied /\ id \in ids THEN aft[id] ELSE ver[id]) = aft[id]
    BY <1>5, <1>6
  <2>4. applied => patched = aft
    BY <1>7, <1>9, <2>3
  <2> QED
    BY <2>1, <2>2, <2>4
<1>12. ok => db = Contents(IF applied THEN aft ELSE ver)
  <2> SUFFICES ASSUME ok
               PROVE  db = Contents(IF applied THEN aft ELSE ver)
    OBVIOUS
  <2>1. state # "mismatch" /\ \A id \in Ids \ ids : db[id] = Contents(ver)[id]
    BY <1>3
  <2>2. CASE applied
    <3>1. \A id \in Ids : db[id] = Contents(aft)[id]
      BY <1>3, <1>8, <1>9, <2>1, <2>2
    <3> QED
      BY <1>2, <1>9, <2>2, <3>1
  <2>3. CASE ~applied
    <3>1. \A id \in Ids : db[id] = Contents(ver)[id]
      BY <1>3, <1>8, <2>1, <2>3
    <3> QED
      BY <1>2, <1>9, <2>3, <3>1
  <2> QED
    BY <1>11, <2>2, <2>3
<1>13. ~ok => db # Contents(ver) /\ db # Contents(aft)
  <2> SUFFICES ASSUME ~ok, db = Contents(ver) \/ db = Contents(aft)
               PROVE  FALSE
    OBVIOUS
  <2>1. ids \subseteq Ids
    <3>1. \A i \in DOMAIN check.next : check.next[i] \in Operation
      BY <1>2
    <3> QED
      BY <1>5, <3>1 DEF IdsOf, Operation
  <2>2. state # "mismatch"
    BY <1>8
  <2>3. \A id \in Ids \ ids : db[id] = Contents(ver)[id]
    BY <1>9
  <2>4. db = Contents(patched)
    <3>1. CASE applied
      <4>1. \A id \in Ids : db[id] = Contents(aft)[id]
        BY <1>3, <1>8, <1>9, <2>3, <3>1
      <4> QED
        BY <1>2, <1>9, <1>11, <3>1, <4>1
    <3>2. CASE ~applied
      <4>1. \A id \in Ids : db[id] = Contents(ver)[id]
        BY <1>3, <1>8, <2>2, <2>3, <3>2
      <4> QED
        BY <1>2, <1>9, <1>11, <3>2, <4>1
    <3> QED
      BY <1>11, <3>1, <3>2
  <2>5. w.universe - 1 \in Nat /\ w.universe \in Nat
    BY <1>2, Sizes
  <2>6. RScanMatches(db, patched, w.universe - 1, w.universe)
    <3>1. PICK from, n : from = w.universe - 1 /\ n = w.universe
      OBVIOUS
    <3>2. RScanMatches(Contents(patched), patched, from, n)
      BY <1>2, <1>11, <2>5, <3>1, RScanFits
    <3> QED
      BY <2>4, <3>1, <3>2
  <2>7. ok
    BY <1>3, <2>2, <2>3, <2>6, Zenon
  <2> QED
    BY <2>7
<1>14. ok \in BOOLEAN
  BY <1>3
<1> HIDE DEF state0
<1>15. /\ model' \in Models /\ model'.wseq = model.wseq /\ (~applied => model' = model)
  <2>1. model = [ver |-> ver, wseq |-> model.wseq] /\ model.wseq \in Nat
    BY <1>2, <1>3 DEF Models
  <2>2. model' = [ver |-> patched, wseq |-> model.wseq]
    BY <1>4, <2>1
  <2> QED
    BY <1>11, <2>1, <2>2 DEF Models
<1>16. /\ check' \in [next : Seq(Operation), before : {<<>>} \cup [Ids -> Int],
                      applied : BOOLEAN, done : 0 .. Continue]
       /\ check'.next = check.next /\ check'.before = check.before /\ check'.done = check.done
       /\ check'.applied = applied
  BY <1>2, <1>4, <1>11
<1>17. GeneratedOk' /\ RunnerTypes'
  BY <1>1, <1>2, <1>15, <1>16, StillGenerated, Kept DEF RunnerInv, RunnerTypes
<1>18. pc' \in {"resume", "mismatch"} /\ (pc' = "resume" <=> ok)
  BY <1>4, <1>14
<1>19. /\ pc' = "resume" => left' = AfterBatches(IF check'.applied THEN ack + 1 ELSE ack)
       /\ pc' = "mismatch" => left' \notin {AfterBatches(ack), AfterBatches(ack + 1)}
  BY <1>1, <1>2, <1>10, <1>11, <1>12, <1>13, <1>16, <1>18
<1>20. Checking'
  <2>1. \A n : Replayed(n)' = Replayed(n) /\ AfterBatches(n)' = AfterBatches(n)
    BY <1>1, Kept
  <2>2. pc' = "resume" => /\ model'.wseq = Replayed(ack)'.wseq
                          /\ ~check'.applied => model' = Replayed(ack)'
    BY <1>1, <1>2, <1>15, <1>16, <2>1
  <2>3. pc' # "seek" /\ pc' # "verify"
    BY <1>18
  <2>4. /\ executed' = 0 /\ check'.done = 0 /\ db' = left' /\ Len(batches') = ack' + 1
        /\ check'.next = batches'[ack' + 1] /\ check'.before = Replayed(ack)'.ver
    BY <1>1, <1>2, <1>16, <2>1
  <2> QED
    BY <1>1, <1>18, <1>19, <2>1, <2>2, <2>3, <2>4 DEF Checking
<1>21. Running' /\ Reading'
  BY <1>1 DEF Running, Reading
<1>22. Snapshots'
  BY <1>1, <1>18 DEF RunnerInv, Snapshots
<1> QED
  BY <1>17, <1>20, <1>21, <1>22 DEF RunnerInv

\* Resume.
LEMMA ResumeKeeps ==
  ASSUME RunnerInv, Resume
  PROVE  RunnerInv'
<1>1. /\ pc = "resume" /\ mode = "check" /\ mode' = "continue"
      /\ w' = w /\ batches' = batches /\ gen' = gen
      /\ snapshot' = snapshot /\ executed' = executed /\ ack' = ack /\ db' = db /\ left' = left
      /\ check' = check
  BY DEF Resume, RunnerInv, RunnerTypes, Running, Reading
<1>2. /\ executed = 0 /\ check.done = 0 /\ db = left /\ Len(batches) = ack + 1
      /\ check.next = batches[ack + 1] /\ check.before = Replayed(ack).ver
      /\ model.wseq = Replayed(ack).wseq /\ (~check.applied => model = Replayed(ack))
      /\ left = AfterBatches(IF check.applied THEN ack + 1 ELSE ack)
      /\ ack \in Nat /\ GeneratedOk /\ model \in Models /\ check.applied \in BOOLEAN
      /\ check.done < Continue
  <2>1. 0 < Continue
    BY RunnerAssumption
  <2> QED
    BY <1>1, <2>1 DEF RunnerInv, RunnerTypes, Checking
<1>3. Executed = (IF check.applied THEN ack + 1 ELSE ack) /\ Executed' = Executed
  BY <1>1, <1>2 DEF Executed
<1>4. /\ Replayed(ack) \in Models /\ Replayed(ack + 1) \in Models
      /\ Replayed(ack + 1) = ReplayBatch(Replayed(ack), check.next)
  <2>1. ack \in 0 .. Len(batches) /\ ack < Len(batches) /\ ack + 1 \in 0 .. Len(batches)
    BY <1>2
  <2> QED
    BY <1>2, <2>1, ReplayedFits
<1>5. \A n : Replayed(n)' = Replayed(n) /\ AfterBatches(n)' = AfterBatches(n)
  BY <1>1, Kept
<1>6. CASE check.applied
  <2>1. model' = ReplayBatch([model EXCEPT !.ver = check.before], check.next) /\ pc' = "loop"
    BY <1>6 DEF Resume
  <2>2. [model EXCEPT !.ver = check.before] = Replayed(ack)
    <3>1. PICK m, ver : m = Replayed(ack) /\ ver = m.ver
      OBVIOUS
    <3>2. /\ m = [ver |-> m.ver, wseq |-> m.wseq]
          /\ model = [ver |-> model.ver, wseq |-> model.wseq]
      BY <1>2, <1>4, <3>1 DEF Models
    <3>3. [model EXCEPT !.ver = ver] = [ver |-> ver, wseq |-> model.wseq]
      BY <3>2
    <3> QED
      BY <1>2, <3>1, <3>2, <3>3
  <2>3. model' = Replayed(ack + 1)
    BY <1>4, <2>1, <2>2
  <2>4. GeneratedOk' /\ RunnerTypes'
    <3>1. model' \in Models
      BY <1>4, <2>3
    <3> QED
      BY <1>1, <3>1, StillGenerated, Kept DEF RunnerInv, RunnerTypes
  <2>5. Running'
    <3>1. /\ model' = Replayed(Executed)' /\ db' = AfterBatches(Executed)'
          /\ Len(batches') = Executed' /\ executed' = check'.done
      BY <1>1, <1>2, <1>3, <1>5, <1>6, <2>3
    <3> QED
      BY <1>1, <2>1, <3>1 DEF Running
  <2>6. Snapshots'
    BY <1>1, <2>1 DEF RunnerInv, Snapshots
  <2>7. Reading' /\ Checking'
    BY <1>1 DEF Reading, Checking
  <2> QED
    BY <2>4, <2>5, <2>6, <2>7 DEF RunnerInv
<1>7. CASE ~check.applied
  <2>1. /\ model' = model /\ pc' = "step" /\ step'.kind = "batch" /\ step'.ops = check.next
    <3>1. /\ model' = model /\ pc' = "step"
          /\ step' = [Step("batch", "?") EXCEPT !.ops = check.next]
      BY <1>7 DEF Resume, ExecuteNext
    <3> QED
      BY <3>1 DEF Step
  <2>2. GeneratedOk' /\ RunnerTypes'
    BY <1>1, <2>1, StillGenerated, Kept DEF RunnerInv, RunnerTypes
  <2>3. Running'
    <3>1. /\ model' = Replayed(Executed)' /\ db' = AfterBatches(Executed)'
          /\ executed' = check'.done
      BY <1>1, <1>2, <1>3, <1>5, <1>7, <2>1
    <3>2. UnderWay'
      BY <1>1, <1>2, <1>3, <1>7, <2>1 DEF UnderWay
    <3> QED
      BY <1>1, <2>1, <3>1, <3>2 DEF Running, Kinds
  <2>4. Snapshots'
    BY <1>1, <2>1 DEF RunnerInv, Snapshots
  <2>5. Reading' /\ Checking'
    BY <1>1 DEF Reading, Checking
  <2> QED
    BY <2>2, <2>3, <2>4, <2>5 DEF RunnerInv
<1> QED
  BY <1>6, <1>7

\* CheckEnds, and a step that changes nothing.
LEMMA RestKeeps ==
  ASSUME RunnerInv, CheckEnds \/ UNCHANGED vars
  PROVE  RunnerInv'
<1>1. /\ w' = w /\ mode' = mode /\ batches' = batches /\ gen' = gen /\ step' = step
      /\ model' = model /\ snapshot' = snapshot /\ executed' = executed /\ ack' = ack
      /\ db' = db /\ left' = left /\ check' = check
  BY DEF CheckEnds, vars
<1>2. GeneratedOk' /\ RunnerTypes'
  BY <1>1, StillGenerated, Kept DEF RunnerInv, RunnerTypes
<1>3. \A n : Replayed(n)' = Replayed(n) /\ AfterBatches(n)' = AfterBatches(n)
  BY <1>1, Kept
<1>4. Executed' = Executed
  BY <1>1 DEF Executed
<1>5. CASE CheckEnds
  <2>1. mode = "continue" /\ pc = "loop" /\ pc' = "done"
    BY <1>5 DEF CheckEnds
  <2>2. Running'
    BY <1>1, <1>3, <1>4, <2>1 DEF RunnerInv, Running
  <2> QED
    BY <1>1, <1>2, <2>1, <2>2 DEF RunnerInv, Reading, Checking, Snapshots
<1>6. CASE UNCHANGED vars
  <2>1. pc' = pc
    BY <1>6 DEF vars
  <2>2. Running'
    BY <1>1, <1>3, <1>4, <2>1 DEF RunnerInv, Running, UnderWay, NoCheck
  <2>3. Reading'
    BY <1>1, <1>3, <2>1 DEF RunnerInv, Reading, NoCheck
  <2>4. Checking'
    BY <1>1, <1>3, <2>1 DEF RunnerInv, Checking, NoCheck
  <2>5. Snapshots'
    BY <1>1, <2>1 DEF RunnerInv, Snapshots
  <2> QED
    BY <1>2, <2>2, <2>3, <2>4, <2>5 DEF RunnerInv
<1> QED
  BY <1>5, <1>6

------------------------------------------------------------------------------
(* The theorems.                                                           *)

\* The invariant holds at first.
LEMMA InitHolds ==
  ASSUME Init
  PROVE  RunnerInv
<1>1. /\ w \in Workloads /\ gen \in NewGens(w) /\ batches = <<>> /\ mode = "run" /\ pc = "loop"
      /\ model = NewModel(w) /\ snapshot = NoSnapshot /\ executed = 0
      /\ ack = 0 /\ db = EmptyDb /\ left = EmptyDb /\ check = NoCheck
  BY DEF Init
<1>2. /\ NewModel(w) \in Models /\ Contents(NewModel(w).ver) = EmptyDb
      /\ GenOk(gen) /\ Matches(gen, NewModel(w))
  BY <1>1, NewGensFit
<1>3. Replayed(0) = NewModel(w) /\ AfterBatches(0) = EmptyDb
  BY <1>1, <1>2, ReplayAllStep DEF Replayed, AfterBatches
<1>4. Len(batches) = 0 /\ batches \in Seq(Seq(Operation))
  BY <1>1
<1>5. Executed = 0 /\ check.applied = FALSE /\ check.done = 0
  BY <1>1 DEF Executed, NoCheck
<1>6. GeneratedOk
  BY <1>1, <1>2, <1>3, <1>4 DEF GeneratedOk
<1>7. RunnerTypes
  <2>1. EmptyDb \in [Ids -> Nat]
    BY DEF EmptyDb
  <2>2. NoCheck \in [next : Seq(Operation), before : {<<>>} \cup [Ids -> Int],
                     applied : BOOLEAN, done : 0 .. Continue]
    BY RunnerAssumption DEF NoCheck
  <2> QED
    BY <1>1, <1>2, <2>1, <2>2 DEF RunnerTypes
<1>8. Running
  BY <1>1, <1>3, <1>4, <1>5 DEF Running
<1>9. Reading /\ Checking
  BY <1>1 DEF Reading, Checking
<1>10. Snapshots
  <2>1. snapshot.held = FALSE
    BY <1>1 DEF NoSnapshot
  <2> QED
    BY <1>1, <2>1 DEF Snapshots
<1> QED
  BY <1>6, <1>7, <1>8, <1>9, <1>10 DEF RunnerInv

\* The invariant of the runner: in a run the model and the database are those
\* of the acknowledged batches, through the check and the continuation too,
\* and the generator agrees with the batches it gave.
THEOREM Invariance == Spec => []RunnerInv
<1>1. Init => RunnerInv
  BY InitHolds
<1>2. RunnerInv /\ [Next]_vars => RunnerInv'
  <2> SUFFICES ASSUME RunnerInv, [Next]_vars PROVE RunnerInv'
    OBVIOUS
  <2>1. CASE Generate
    BY <2>1, GenerateKeeps
  <2>2. CASE BatchWrite
    BY <2>2, BatchWriteKeeps
  <2>3. CASE BatchDone
    BY <2>3, BatchDoneKeeps
  <2>4. CASE Read
    BY <2>4, ReadKeeps
  <2>5. CASE DoSnapTake
    BY <2>5, SnapTakeKeeps
  <2>6. CASE DoSnapCheck
    BY <2>6, SnapCheckKeeps
  <2>7. CASE RunEnds
    BY <2>7, RunEndsKeeps
  <2>8. CASE ReadPhaseF
    BY <2>8, ReadPhaseFKeeps
  <2>9. CASE Crash
    BY <2>9, CrashKeeps
  <2>10. CASE SeekNext
    BY <2>10, SeekNextKeeps
  <2>11. CASE Verify
    BY <2>11, VerifyKeeps
  <2>12. CASE Resume
    BY <2>12, ResumeKeeps
  <2>13. CASE CheckEnds \/ UNCHANGED vars
    BY <2>13, RestKeeps
  <2> QED
    BY <2>1, <2>2, <2>3, <2>4, <2>5, <2>6, <2>7, <2>8, <2>9, <2>10, <2>11, <2>12, <2>13 DEF Next
<1> QED
  BY <1>1, <1>2, PTL DEF Spec

\* Every id of every batch lies in the universe, whatever the workload: the
\* model, a vector that is not bounds-checked, is never written outside it.
THEOREM TypesCorrect == Spec => []TypeOK
<1>1. RunnerInv => TypeOK
  <2> SUFFICES ASSUME RunnerInv PROVE TypeOK
    OBVIOUS
  <2>1. \A i \in DOMAIN batches : \A j \in DOMAIN batches[i] : batches[i][j].id \in Ids
    <3> TAKE i \in DOMAIN batches
    <3>1. batches[i] \in Seq(Operation)
      BY DEF RunnerInv, GeneratedOk
    <3> TAKE j \in DOMAIN batches[i]
    <3>2. batches[i][j] \in Operation
      BY <3>1
    <3> QED
      BY <3>2 DEF Operation
  <2>2. /\ mode \in {"run", "read", "check", "continue"}
        /\ pc \in {"loop", "step", "written", "start", "seek", "verify", "resume", "done", "mismatch"}
    BY DEF RunnerInv, RunnerTypes, Running, Reading, Checking
  <2>3. gen.phase \in 0 .. Len(Phases(w))
    <3>1. gen.phase \in Nat /\ gen.phase <= Len(Phases(w)) /\ Len(Phases(w)) \in Nat
      BY Fields, PhasesAre DEF RunnerInv, GeneratedOk, GenOk, InBounds
    <3> QED
      BY <3>1
  <2>4. /\ DOMAIN model.ver = Ids /\ db \in [Ids -> Nat] /\ left \in [Ids -> Nat]
        /\ check.done \in 0 .. Continue /\ ack \in Nat /\ executed \in Nat /\ Len(batches) \in Nat
        /\ check.done \in Nat
    BY RunnerAssumption DEF RunnerInv, RunnerTypes, Models, GeneratedOk
  <2>5. ack <= Len(batches) /\ executed <= Len(batches)
    <3>1. CASE mode \in {"run", "continue"}
      <4>1. Executed <= Len(batches)
        BY <2>4, <3>1, ExecutedIs DEF RunnerInv, Running, UnderWay
      <4>2. ack <= Executed /\ check.done <= Executed
        BY <2>4 DEF Executed, RunnerInv, RunnerTypes
      <4>3. executed = ack \/ executed = check.done
        BY <3>1 DEF RunnerInv, Running
      <4>4. Executed \in Nat
        BY ExecutedIs DEF RunnerInv
      <4> QED
        BY <2>4, <4>1, <4>2, <4>3, <4>4
    <3>2. CASE mode = "read"
      BY <2>4, <3>2 DEF RunnerInv, Reading
    <3>3. CASE mode = "check"
      BY <2>4, <3>3 DEF RunnerInv, Checking
    <3> QED
      BY <2>2, <3>1, <3>2, <3>3
  <2> QED
    BY <2>1, <2>2, <2>3, <2>4, <2>5 DEF TypeOK
<1> QED
  BY <1>1, Invariance, PTL

\* No read, scan, snapshot or verification finds a difference on a database
\* that holds the acknowledged batches, or one more.
THEOREM NoAlarmIsFalse == Spec => []NoFalseAlarm
<1>1. RunnerInv => NoFalseAlarm
  BY DEF RunnerInv, RunnerTypes, Running, Reading, Checking, NoFalseAlarm
<1> QED
  BY <1>1, Invariance, PTL

\* A lost batch, or a part of one, is never accepted by Check.
THEOREM OnlyWholeBatchesAccepted == Spec => []AppliedIsExact
<1>1. RunnerInv => AppliedIsExact
  <2> SUFFICES ASSUME RunnerInv, pc = "resume"
               PROVE  left = AfterBatches(ack + (IF check.applied THEN 1 ELSE 0))
    BY DEF AppliedIsExact
  <2>1. mode = "check" /\ ack \in Nat
    BY DEF RunnerInv, RunnerTypes, Running, Reading
  <2>2. left = AfterBatches(IF check.applied THEN ack + 1 ELSE ack)
    BY <2>1 DEF RunnerInv, Checking
  <2>3. (IF check.applied THEN ack + 1 ELSE ack) = ack + (IF check.applied THEN 1 ELSE 0)
    BY <2>1
  <2> QED
    BY <2>2, <2>3
<1> QED
  BY <1>1, Invariance, PTL

\* What goes on after a crash has the versions and writes of a run that did
\* not crash.
THEOREM ContinuationIsExact == Spec => []ResumeExact
<1>1. RunnerInv => ResumeExact
  <2> SUFFICES ASSUME RunnerInv, mode = "continue", pc \in {"loop", "done"}
               PROVE  model = Replayed(Executed) /\ db = Contents(model.ver)
    BY DEF ResumeExact, Executed
  <2>1. model = Replayed(Executed) /\ db = AfterBatches(Executed)
    BY DEF RunnerInv, Running
  <2> QED
    BY <2>1 DEF AfterBatches
<1> QED
  BY <1>1, Invariance, PTL

\* The window of an appending workload is what is live in it.
THEOREM OnlyTheWindowLives == Spec => []WindowIsLive
<1>1. RunnerInv => WindowIsLive
  BY DEF RunnerInv, GeneratedOk, GenOk, Matches, Window, WindowIsLive
<1> QED
  BY <1>1, Invariance, PTL

\* Phases A and B put every id once when the permutation of the ids inserted
\* in B is one, as the workloads that are checked have it from Permute.
THEOREM EveryIdInsertedOnce ==
  ASSUME \A v \in Workloads : v.dist = "mixed" =>
           \A k \in 0 .. v.insert - 1 : \E i \in 0 .. v.insert - 1 : v.perm[i] = k
  PROVE  Spec => []InsertsOnce
<1>1. RunnerInv => InsertsOnce
  <2> SUFFICES ASSUME RunnerInv, w.dist = "mixed", gen.phase = 3, gen.inPhase = 0
               PROVE  /\ Replayed(Len(batches)).wseq = w.load + w.insert
                      /\ Live(Replayed(Len(batches)).ver) = 0 .. w.load + w.insert - 1
    BY DEF InsertsOnce
  <2>1. w \in Workloads /\ Matches(gen, Replayed(Len(batches)))
    BY DEF RunnerInv, GeneratedOk
  <2> DEFINE P == {w.load + w.perm[i] : i \in 0 .. w.insert - 1}
  <2>2. /\ Live(Replayed(Len(batches)).ver) = (0 .. w.load - 1) \cup P
        /\ Replayed(Len(batches)).wseq = w.load + w.insert
    BY <2>1 DEF Matches
  <2>3. /\ w.load \in Nat /\ w.insert \in Nat
        /\ w.perm \in [0 .. w.insert - 1 -> 0 .. w.insert - 1]
        /\ \A k \in 0 .. w.insert - 1 : \E i \in 0 .. w.insert - 1 : w.perm[i] = k
    BY <2>1, Shape
  <2>4. PICK a, b, p : a = w.load /\ b = w.insert /\ p = w.perm
    OBVIOUS
  <2>5. /\ a \in Nat /\ b \in Nat /\ p \in [0 .. b - 1 -> 0 .. b - 1]
        /\ \A k \in 0 .. b - 1 : \E i \in 0 .. b - 1 : p[i] = k
    BY <2>3, <2>4
  <2>6. {a + p[i] : i \in 0 .. b - 1} = a .. a + b - 1
    <3>1. ASSUME NEW x \in a .. a + b - 1
          PROVE  \E i \in 0 .. b - 1 : x = a + p[i]
      <4>1. x - a \in 0 .. b - 1 /\ a + (x - a) = x
        BY <2>5
      <4>2. PICK i \in 0 .. b - 1 : p[i] = x - a
        BY <2>5, <4>1
      <4> QED
        BY <4>1, <4>2
    <3>2. ASSUME NEW i \in 0 .. b - 1
          PROVE  a + p[i] \in a .. a + b - 1
      <4>1. PICK k \in 0 .. b - 1 : k = p[i]
        BY <2>5
      <4>2. a + k \in a .. a + b - 1
        BY <2>5
      <4> QED
        BY <4>1, <4>2
    <3> QED
      BY <3>1, <3>2
  <2>7. (0 .. a - 1) \cup (a .. a + b - 1) = 0 .. a + b - 1
    BY <2>5
  <2>8. P = a .. a + b - 1
    BY <2>4, <2>6
  <2> HIDE DEF P
  <2> QED
    BY <2>2, <2>4, <2>7, <2>8
<1> QED
  BY <1>1, Invariance, PTL

\* A snapshot that is held when the next step is asked for has a step to come
\* that checks it, in the phase that took it.
THEOREM EverySnapshotIsChecked == Spec => []SnapshotsAreChecked
<1>1. RunnerInv => SnapshotsAreChecked
  <2> SUFFICES ASSUME RunnerInv, mode = "run", pc = "loop", snapshot.held
               PROVE  gen.inPhase > 0 /\ NextStep(w, gen, FALSE) # {}
    BY DEF SnapshotsAreChecked
  <2>1. gen.snapPending /\ w \in Workloads /\ GenOk(gen)
    BY DEF RunnerInv, Snapshots, GeneratedOk
  <2>2. gen.inPhase > 0
    BY <2>1 DEF GenOk
  <2> QED
    BY <2>1, <2>2, NextStepFits
<1> QED
  BY <1>1, Invariance, PTL
================================================================================
