------------------------------- MODULE Workload -------------------------------
(***************************************************************************)
(* The benchmark's generator of steps (environment/bench/workload.h).  A   *)
(* workload `w` is the record of its shape and recipe; the generator is    *)
(* the record `g` of the fields of class Workload.  Each operator gives    *)
(* the set of what a call can return for some value of the random numbers, *)
(* as records [g, step].  The ids of reads are left to the reader: a read  *)
(* has no effect, and one process alone makes it.                          *)
(***************************************************************************)
EXTENDS Integers, Sequences, FiniteSets, FiniteSetsExt

CONSTANTS
  SnapEvery,  \* 3000 batches between snapshots
  SnapLag,    \* 1500 batches from a snapshot to its check
  ScanEvery,  \* 100 batches between scans in phase C
  GetEvery,   \* 16, 8 and 4 batches between point reads in B, C and D
  LoadBatch,  \* 8 (2 for large values) inserts per batch in phase A
  OpsMax      \* 24, up to which a batch takes on deletes of the window

ASSUME PeriodsAssumption ==
  {SnapEvery, SnapLag, ScanEvery, GetEvery, LoadBatch, OpsMax} \subseteq Nat \ {0}

\* Below(n), a number drawn: 0 when n is.
Below(n) == IF n = 0 THEN {0} ELSE 0 .. n - 1

-----------------------------------------------------------------------------
\* Model: the version of every id, negative for a deletion, and the number
\* of writes.

NewModel(w) == [ver |-> [id \in 0 .. w.universe - 1 |-> 0], wseq |-> 0]

\* Put and Del.
Apply(m, op) ==
  [ver  |-> [m.ver EXCEPT ![op.id] = IF op.del THEN -(m.wseq + 1) ELSE m.wseq + 1],
   wseq |-> m.wseq + 1]

ReplayBatch(m, ops) ==
  LET After[i \in 0 .. Len(ops)] == IF i = 0 THEN m ELSE Apply(After[i - 1], ops[i])
  IN  After[Len(ops)]

\* The model m after the first n of some batches.
ReplayAll(m, batches, n) ==
  LET After[i \in 0 .. n] == IF i = 0 THEN m ELSE ReplayBatch(After[i - 1], batches[i])
  IN  After[n]

\* The live ids, with the version each value is made of.
Live(ver) == {id \in DOMAIN ver : ver[id] > 0}
Contents(ver) == [id \in DOMAIN ver |-> IF ver[id] > 0 THEN ver[id] ELSE 0]

NextLive(ver, from) ==
  LET L == {id \in Live(ver) : id >= from}
  IN  IF L = {} THEN Max(DOMAIN ver) + 1 ELSE Min(L)

\* -1 stands for UINT64_MAX.
PrevLive(ver, from) ==
  LET L == {id \in Live(ver) : id <= from}
  IN  IF L = {} THEN -1 ELSE Max(L)

-----------------------------------------------------------------------------
\* The shape and the generator.

\* WorkloadShape: the ids that may ever be written.
Universe(w) ==
  CASE w.dist = "mixed"   -> w.load + w.insert + w.mixedNew
    [] w.dist = "append"  -> w.updates
    [] w.dist = "bimodal" -> w.load + w.updates
    [] w.dist = "sparse"  -> (w.load + w.updates) * 4
    [] OTHER              -> w.load

DelRange(w) == (w.deletes * 6) \div 10

\* What the constructor and the recipes make of a shape at any scale.
Shaped(w) ==
  /\ {w.load, w.insert, w.hot, w.updates, w.deletes, w.mixed, w.mixedNew,
      w.window, w.lag, w.burst, w.reopenAt, w.maxBatches} \subseteq Nat
  /\ w.batch \in Nat \ {0} /\ {w.dels, w.snapshots} \subseteq BOOLEAN
  /\ w.dist \in {"mixed", "uniform", "hot", "rolling", "append", "bimodal", "sparse"}
  /\ w.universe = Universe(w)
  /\ w.dist = "append" <=> w.load = 0
  /\ w.dist = "append" => w.updates > 0 /\ 2 * w.batch <= OpsMax
  /\ w.dist = "bimodal" => w.hot \in 1 .. w.load
  /\ w.dist = "hot" => w.scattered \subseteq 0 .. w.load - 1
  /\ IF w.dist = "mixed"
     THEN /\ w.insert > 0 /\ w.mixed > 0 /\ w.hot > 0
          /\ w.hot < w.load + w.insert /\ DelRange(w) < w.load + w.insert
          /\ w.batch <= w.mixedNew + 2
          /\ w.perm \in [0 .. w.insert - 1 -> 0 .. w.insert - 1]
     ELSE {w.insert, w.deletes, w.mixed, w.mixedNew} = {0}

NoSnap == -1

\* The constructor: the hot range and the purged range lie anywhere.
NewGens(w) ==
  {[phase |-> 0, sub |-> 0, inPhase |-> 0, maxWritten |-> 0,
    hotLo |-> hot, delLo |-> del, delNext |-> del, mixedNew |-> 0,
    head |-> 0, purged |-> 0, cursor |-> 0, burstLeft |-> 0, lullLeft |-> 0,
    didRead |-> FALSE, pendingRead |-> 0,
    snapPending |-> FALSE, snapCheckAt |-> 0, snapTakenAt |-> NoSnap] :
     hot \in IF w.hot = 0 THEN {0} ELSE Below(w.load + w.insert - w.hot),
     del \in IF w.deletes = 0 THEN {0} ELSE Below(w.load + w.insert - DelRange(w))}

Phases(w) ==
  IF w.dist = "mixed" THEN <<"A", "B", "C", "D", "E", "X">>
  ELSE IF w.load = 0 THEN <<"B", "X">> ELSE <<"A", "B", "X">>

\* The operations a phase makes; X has no end.
Quota(w, phase) ==
  CASE phase = "A" -> w.load
    [] phase = "B" -> IF w.dist = "mixed" THEN w.insert ELSE w.updates
    [] phase = "C" -> w.updates
    [] phase = "D" -> w.deletes
    [] phase = "E" -> w.mixed

Step(kind, phase) == [kind |-> kind, phase |-> phase, ops |-> <<>>, ids |-> {}]

Given(g, step) == {[g |-> g, step |-> step]}

-----------------------------------------------------------------------------
\* The ids that are drawn.

ExistingId(g) == Below(g.maxWritten)
HotId(w, g) == {g.hotLo + i : i \in Below(w.hot)}

\* Phase E's hot window slides across the key space.
WindowId(w, g) ==
  LET span  == w.load + w.insert
      start == (g.hotLo + (g.sub * span) \div w.mixed) % span
  IN  {(start + i) % span : i \in Below(w.hot \div 2 + 1)}

\* A scattered hot set can be any n_hot of the loaded ids: w.scattered.
ScatterHotId(w) == w.scattered

RecentId(g) == {g.head - 1 - i : i \in Below(g.head - g.purged)}

SnapSampleId(w, g) ==
  IF w.dist = "append" /\ g.head > g.purged THEN RecentId(g)
  ELSE ExistingId(g) \cup (IF w.dist = "hot" THEN ScatterHotId(w) ELSE {})

\* One operation added to a batch: AddPut, AddDel.
AddPut(g, id) ==
  [g |-> [g EXCEPT !.maxWritten = IF id + 1 > @ THEN id + 1 ELSE @],
   op |-> [del |-> FALSE, id |-> id]]
AddDel(g, id) == [g |-> g, op |-> [del |-> TRUE, id |-> id]]

Puts(g, ids) == {AddPut(g, id) : id \in ids}
Dels(g, ids) == {AddDel(g, id) : id \in ids}

\* The next id of the purged range, or any; a batch that purges goes on past
\* the end of the range.
Purge(g) == {[AddDel(g, g.delNext) EXCEPT !.g.delNext = @ + 1]}

\* Mutant: new ids without end.
MixedOpUnbounded(w, g) ==
  Puts(g, WindowId(w, g) \cup ExistingId(g))
    \cup {[AddPut(g, g.mixedNew) EXCEPT !.g.mixedNew = @ + 1]}
    \cup Dels(g, ExistingId(g))

\* An update, the insert of a new id while there is one, or a deletion.
MixedOp(w, g) ==
  Puts(g, WindowId(w, g) \cup ExistingId(g))
    \cup (IF g.mixedNew < w.universe
          THEN {[AddPut(g, g.mixedNew) EXCEPT !.g.mixedNew = @ + 1]} ELSE {})
    \cup Dels(g, ExistingId(g))

WriteId(w, g) ==
  CASE w.dist = "hot"     -> ScatterHotId(w) \cup Below(w.load)
    [] w.dist = "rolling" -> {g.cursor % w.load}
    [] w.dist = "sparse"  -> Below(w.universe)
    [] OTHER              -> Below(w.load)

\* One write of the main phase; half of a bimodal workload extends the tail.
OtherOp(w, g) ==
  (IF w.dels THEN Dels(g, ExistingId(g)) ELSE {})
    \cup (CASE w.dist = "bimodal" ->
                 Puts(g, HotId(w, g))
                   \cup (IF g.head < w.universe
                         THEN {[AddPut(g, g.head) EXCEPT !.g.head = @ + 1]} ELSE {})
            [] w.dist = "rolling" ->
                 {[p EXCEPT !.g.cursor = @ + 1] : p \in Puts(g, WriteId(w, g))}
            [] OTHER -> Puts(g, WriteId(w, g)))

\* One operation of a batch of a kind.
Ops(w, kind, g) ==
  CASE kind = "load"   -> Puts(g, {g.sub})
    [] kind = "insert" -> Puts(g, {w.load + w.perm[g.sub]})
    [] kind = "update" -> Puts(g, HotId(w, g) \cup ExistingId(g))
    [] kind = "delete" -> Dels(g, ExistingId(g))
    [] kind = "purge"  -> Purge(g)
    [] kind = "mixed"  -> MixedOp(w, g)
    [] kind = "extend" -> Puts(g, WindowId(w, g) \cup ExistingId(g)) \cup Dels(g, ExistingId(g))
    [] kind = "other"  -> OtherOp(w, g)

\* What comes of one more operation of a batch, while the quota lasts.
Grow(w, kind, quota, x) ==
  IF x.g.sub >= quota THEN {x}
  ELSE {[g |-> [y.g EXCEPT !.sub = @ + 1], ops |-> Append(x.ops, y.op)] : y \in Ops(w, kind, x.g)}

\* What comes of up to n operations of a kind, counted in sub_.
Batch(w, g0, n, quota, kind) ==
  LET Grown[i \in 0 .. n] ==
        IF i = 0 THEN {[g |-> g0, ops |-> <<>>]}
        ELSE UNION {Grow(w, kind, quota, x) : x \in Grown[i - 1]}
  IN  Grown[n]

BatchSteps(w, g0, phase, quota, kind) ==
  LET g == [g0 EXCEPT !.inPhase = @ + 1]
  IN  {[g |-> x.g, step |-> [Step("batch", phase) EXCEPT !.ops = x.ops]] :
         x \in UNION {Batch(w, g, n, quota, kind) : n \in 1 .. w.batch}}

-----------------------------------------------------------------------------
\* Snapshots, in phase C, in E and in the main phase of some recipes.

SnapCheck(g, phase) == Given([g EXCEPT !.snapPending = FALSE], Step("snapCheck", phase))

SnapDue(g) ==
  \/ g.snapPending /\ g.inPhase >= g.snapCheckAt
  \/ /\ g.inPhase > 0 /\ g.inPhase % SnapEvery = 0
     /\ ~g.snapPending /\ g.snapTakenAt # g.inPhase

\* The check of a snapshot, or a new one, of a sample of many of a few ids.
SnapStep(g, phase, sample) ==
  IF g.snapPending THEN SnapCheck(g, phase)
  ELSE Given([g EXCEPT !.snapTakenAt = g.inPhase, !.snapPending = TRUE,
                       !.snapCheckAt = g.inPhase + SnapLag],
             [Step("snapTake", phase) EXCEPT !.ids = sample])

-----------------------------------------------------------------------------
\* The steps of `mixed`.

LoadStep(w, g) ==
  {[g |-> x.g, step |-> [Step("batch", "A") EXCEPT !.ops = x.ops]] :
     x \in Batch(w, g, LoadBatch, w.load, "load")}

InsertStep(w, g) ==
  IF g.sub > 0 /\ g.inPhase % GetEvery = 0 /\ ~g.didRead
  THEN Given([g EXCEPT !.didRead = TRUE], Step("get", "B"))
  ELSE BatchSteps(w, [g EXCEPT !.didRead = FALSE], "B", w.insert, "insert")

UpdateStep(w, g) ==
  CASE SnapDue(g) -> SnapStep(g, "C", HotId(w, g) \cup ExistingId(g))
    [] ~SnapDue(g) /\ g.inPhase > 0 /\ g.inPhase % ScanEvery = 0 /\ g.pendingRead = 0 ->
         Given([g EXCEPT !.pendingRead = 1], Step("scan", "C"))
    [] ~SnapDue(g) /\ g.inPhase > 0 /\ g.inPhase % GetEvery = 0 /\ g.pendingRead < 2
         /\ ~(g.inPhase % ScanEvery = 0 /\ g.pendingRead = 0) ->
         Given([g EXCEPT !.pendingRead = 2], Step("get", "C"))
    [] OTHER ->
         BatchSteps(w, [g EXCEPT !.pendingRead = 0], "C", w.updates, "update")

DeleteStep(w, g) ==
  IF g.inPhase > 0 /\ g.inPhase % GetEvery = 0 /\ g.pendingRead = 0
  THEN Given([g EXCEPT !.pendingRead = 1], Step("get", "D"))
  ELSE LET h0 == [g EXCEPT !.pendingRead = 0]
       IN  BatchSteps(w, h0, "D", w.deletes, "delete")
             \cup (IF g.delNext < g.delLo + DelRange(w)
                   THEN BatchSteps(w, h0, "D", w.deletes, "purge") ELSE {})

MixedStep(w, g) ==
  IF SnapDue(g) THEN SnapStep(g, "E", HotId(w, g) \cup ExistingId(g))
  ELSE Given(g, Step("get", "E")) \cup Given(g, Step("scan", "E"))
         \cup BatchSteps(w, g, "E", w.mixed, "mixed")

\* Phase X: no end, no snapshots, no new ids.
ExtensionStep(w, g) ==
  Given(g, Step("get", "X")) \cup Given(g, Step("scan", "X"))
    \cup BatchSteps(w, g, "X", g.sub + w.batch, "extend")

-----------------------------------------------------------------------------
\* The steps of the recipes.

\* Mutant: a correction reaches back over the lag, purged or not.
LateIdsAnywhere(w, g) ==
  {g.head - 1 - i : i \in Below(IF g.head > w.lag THEN w.lag ELSE g.head)}

\* A late correction goes back by the lag, and not past the purged ids.
LateIds(w, g) ==
  LET live == g.head - g.purged
      back == IF live > w.lag THEN w.lag ELSE live
  IN  IF back = 0 THEN {} ELSE {g.head - 1 - i : i \in Below(back)}

\* AppendBatch: appends and corrections, ...
Extend(w, ext, x) ==
  LET late  == IF x.g.head > 0 THEN LateIds(w, x.g) ELSE {}
      fixed == IF late = {} THEN {x}
               ELSE {[g |-> y.g, ops |-> Append(x.ops, y.op)] : y \in Puts(x.g, late)}
      more  == {[g |-> [y.g EXCEPT !.head = @ + 1, !.sub = IF ext THEN @ ELSE @ + 1],
                 ops |-> Append(x.ops, y.op)] : y \in Puts(x.g, {x.g.head})}
  IN  IF x.g.head = 0 THEN more
      ELSE IF ext \/ x.g.head >= w.universe THEN fixed
      ELSE more \cup fixed

Extended(w, g0, ext) ==
  LET Grown[i \in 0 .. w.batch] ==
        IF i = 0 THEN {[g |-> g0, ops |-> <<>>]}
        ELSE UNION {Extend(w, ext, x) : x \in Grown[i - 1]}
  IN  Grown[w.batch]

\* ... then the oldest ids are deleted.
Surplus(w, x) ==
  LET over == x.g.head - x.g.purged - w.window
      room == OpsMax - Len(x.ops)
  IN  IF w.window = 0 \/ over <= 0 \/ room <= 0 THEN 0
      ELSE IF over < room THEN over ELSE room

PurgeOldest(w, x) ==
  LET n == Surplus(w, x)
  IN  [g |-> [x.g EXCEPT !.purged = @ + n],
       ops |-> x.ops \o [i \in 1 .. n |-> [del |-> TRUE, id |-> x.g.purged + i - 1]]]

AppendOps(w, g0, ext) == {PurgeOldest(w, x) : x \in Extended(w, g0, ext)}

OtherMainStep(w, g, phase) ==
  LET ext    == phase = "X"
      quota  == IF ext THEN g.sub + w.batch ELSE w.updates
      \* A burst of batches, then a lull of reads.
      begins == w.burst > 0 /\ g.burstLeft = 0
      h == IF w.burst = 0 THEN g
           ELSE [g EXCEPT !.burstLeft = (IF begins THEN w.burst ELSE @) - 1,
                          !.lullLeft = IF begins THEN w.burst \div 4 + 1 ELSE @]
      batches ==
        IF w.dist = "append"
        THEN {[g |-> [x.g EXCEPT !.inPhase = @ + 1],
               step |-> [Step("batch", phase) EXCEPT !.ops = x.ops]] : x \in AppendOps(w, h, ext)}
        ELSE {[x EXCEPT !.g.sub = IF ext THEN g.sub ELSE @] :
                x \in BatchSteps(w, h, phase, quota, "other")}
  IN  CASE w.snapshots /\ ~ext /\ SnapDue(g) -> SnapStep(g, phase, SnapSampleId(w, g))
        [] ~(w.snapshots /\ ~ext /\ SnapDue(g)) /\ w.burst > 0 /\ g.lullLeft > 0 ->
             Given([g EXCEPT !.lullLeft = @ - 1], Step("get", phase))
        [] OTHER ->
             batches \cup (IF w.burst > 0 THEN {}
                           ELSE Given(g, Step("get", phase)) \cup Given(g, Step("scan", phase)))

-----------------------------------------------------------------------------
\* Next.

\* The phase begins with its marker.
Marker(w, g) ==
  LET phase == Phases(w)[g.phase + 1]
  IN  Given([g EXCEPT !.phase = @ + 1, !.sub = 0, !.inPhase = 0,
               !.mixedNew = IF phase = "E" THEN w.load + w.insert ELSE @,
               !.snapTakenAt = IF phase = "E" THEN NoSnap ELSE @,
               !.head = IF phase = "B" THEN w.load ELSE @],
            Step("phase", phase))

PhaseStep(w, g, phase) ==
  IF w.dist # "mixed"
  THEN IF phase = "A" THEN LoadStep(w, g) ELSE OtherMainStep(w, g, phase)
  ELSE CASE phase = "A" -> LoadStep(w, g)   [] phase = "B" -> InsertStep(w, g)
         [] phase = "C" -> UpdateStep(w, g) [] phase = "D" -> DeleteStep(w, g)
         [] phase = "E" -> MixedStep(w, g)  [] phase = "X" -> ExtensionStep(w, g)

\* Mutant: a phase ends without the check of its snapshot.
PhaseEndUnchecked(w, g, allowExtension) ==
  IF Phases(w)[g.phase + 1] = "X" /\ ~allowExtension THEN {} ELSE Marker(w, g)

\* A phase that is over: its snapshot is checked, and the next one begins.
PhaseEnd(w, g, allowExtension) ==
  IF g.snapPending THEN SnapCheck(g, Phases(w)[g.phase])
  ELSE IF Phases(w)[g.phase + 1] = "X" /\ ~allowExtension THEN {} ELSE Marker(w, g)

\* Next and NextOther; nothing when the workload is exhausted.
NextStep(w, g, allowExtension) ==
  IF g.phase = 0 THEN Marker(w, g)
  ELSE LET phase == Phases(w)[g.phase]
       IN  IF phase # "X" /\ g.sub >= Quota(w, phase)
           THEN PhaseEnd(w, g, allowExtension)
           ELSE PhaseStep(w, g, phase)
===============================================================================
