------------------------------- MODULE Scenario -------------------------------
(***************************************************************************)
(* A conformance scenario (environment/bench/conf_model.cc, conftest.cc):  *)
(* operations are generated from a seed and from the reference models,     *)
(* carried out on the database, applied to the models and acknowledged in  *)
(* a file; reads are compared with the models.  The process can be killed  *)
(* at any point.  A second process is then told how many writes were       *)
(* acknowledged, generates the same operations again, and decides whether  *)
(* the database holds the acknowledged state or that of one write more.    *)
(*                                                                         *)
(* The seed is the sequence of draws the generator would make of it.  The  *)
(* database is the promise its users rely on: a call is atomic and, in     *)
(* the process-crash model, durable when it returns.  With Faulty an       *)
(* engine that loses the last write, or keeps a part of a batch, is        *)
(* modelled as well: the check is there to tell the two apart.             *)
(***************************************************************************)
EXTENDS Affine, FiniteSets, FiniteSetsExt

CONSTANTS
  NFamilies,     \* kMaxFamilies
  NKeys,         \* shape_.keys
  MaxSnapshots,  \* 3 in ScenarioGen::Next
  Seeds,         \* sequences of what the random numbers of an operation come to
  Touches,       \* the writes made to see that a recovered database works
  Faulty         \* whether the engine may also recover wrongly

Families == 0 .. NFamilies - 1
Keys == 0 .. NKeys - 1
NoValue == <<>>

ASSUME ScenarioAssumption ==
  /\ {NFamilies, NKeys} \subseteq Nat \ {0}
  /\ MaxSnapshots \in Nat
  /\ Faulty \in BOOLEAN

\* What the random numbers come to for one write and for one operation: kind,
\* family, range, writes, the families of a batch that spans them, and whether
\* a snapshot is checked rather than taken.
WriteDraw ==
  {t \in [kind : {"put", "delete", "merge", "range"}, id : Keys, end : 0 .. NKeys,
           operand : Operands \cup {<<>>}] : t.kind = "merge" => t.operand # <<>>}
Draw == [kind : {"create", "drop", "write", "clear", "snap", "reopen", "walk", "compact"},
         pick : Nat, lo : Nat, hi : Nat, writes : Seq(WriteDraw),
         span : BOOLEAN, picks : Seq(Nat), check : BOOLEAN]

ASSUME SeedsAssumption == Touches \subseteq WriteDraw /\ \A s \in Seeds : s \in Seq(Draw)

VARIABLES
  seed,      \* the draws, one for each operation
  pc,        \* where the process is
  gen,       \* ScenarioGen
  op,        \* the operation being carried out
  models,    \* ConfModels: live and m
  handles,   \* Db::live, the families the process has a handle of
  snaps,     \* the snapshots held, each with its view and the models then
  writes,    \* the number of writes done in RunScenario
  ack,       \* the number in the acknowledgement file
  db,        \* what the database holds
  trail,     \* history: what it held after each durable call of the run
  recovery   \* CheckRecovered: the attempt, `recovered`, and what the crash left

vars == <<seed, pc, gen, op, models, handles, snaps, writes, ack, db, trail, recovery>>

\* ops_
MaxOps == Len(seed)

-----------------------------------------------------------------------------
\* Reference models.

HashOfKey(k) == k % P

\* Every family empty, the default one alone exists.
NoModels == [live |-> {0}, m |-> [f \in Families |-> [k \in Keys |-> NoValue]]]

\* ScenarioGen::Apply for one write.
CellsAfter(cells, w) ==
  CASE w.kind = "put"    -> [cells EXCEPT ![w.id] = <<w.value>>]
    [] w.kind = "delete" -> [cells EXCEPT ![w.id] = NoValue]
    [] w.kind = "merge"  ->
         [cells EXCEPT ![w.id] = <<AffineFullMerge(HashOfKey(w.id), @, <<w.value>>)>>]
    [] w.kind = "range"  ->
         [k \in Keys |-> IF w.id <= k /\ k < w.end THEN NoValue ELSE cells[k]]

ApplyWrite(ms, w) == [ms EXCEPT !.m[w.family] = CellsAfter(@, w)]

ApplyWrites(ms, ws) ==
  LET After[i \in 0 .. Len(ws)] == IF i = 0 THEN ms ELSE ApplyWrite(After[i - 1], ws[i])
  IN  After[Len(ws)]

\* ScenarioGen::Apply.
Apply(o, ms) ==
  CASE o.kind = "create" ->
         [ms EXCEPT !.live = @ \cup {o.family}, !.m[o.family] = [k \in Keys |-> NoValue]]
    [] o.kind = "drop" ->
         [ms EXCEPT !.live = @ \ {o.family}, !.m[o.family] = [k \in Keys |-> NoValue]]
    [] o.kind = "write" -> ApplyWrites(ms, o.writes)
    [] OTHER -> ms

Durable(o) == o.kind \in {"write", "create", "drop"}

-----------------------------------------------------------------------------
\* ScenarioGen.

\* `version` numbers the values that are put.
NewGen == [done |-> 0, version |-> 1, snapsOpen |-> 0, live |-> {0}]

Op(kind, f) == [kind |-> kind, family |-> f, writes |-> <<>>, id |-> 0]

\* Mutant: any family is picked, whether it exists or not.
PickAnyFamily(g, n) == n

\* PickFamily: one of the families that exist, the default one in doubt.
PickFamily(g, n) == IF n \in g.live THEN n ELSE 0

\* RandomWrite: a put takes the next version, with a length of its own.
RandomWrite(g, t, f, nth) ==
  [kind |-> t.kind, family |-> f, id |-> t.id, end |-> t.end,
   value |-> CASE t.kind = "put"   -> Plain((g.version + nth) % P, (g.version + nth) % 3)
               [] t.kind = "merge" -> t.operand
               [] OTHER            -> NoValue]

\* One batch, burst or single write: each write on the family of the
\* operation, or, when the batch spans families, on one picked for it.
DrawnWrites(g, d) ==
  [i \in 1 .. Len(d.writes) |->
     RandomWrite(g, d.writes[i], PickFamily(g, IF d.span THEN d.picks[i] ELSE d.pick), i)]

\* The clearing of a range: delete what the model says is there, then write
\* some of it back; the first key is deleted when that comes to nothing.
ClearWrites(g, ms, d) ==
  LET f     == PickFamily(g, d.pick)
      there == {k \in Keys : d.lo <= k /\ k < d.hi /\ ms.m[f][k] # NoValue}
      gone(k) == [kind |-> "delete", family |-> f, id |-> k, end |-> 0, value |-> NoValue]
      dels  == [i \in 1 .. Cardinality(there) |-> gone(SetToSortSeq(there, <)[i])]
      all   == dels \o DrawnWrites(g, [d EXCEPT !.span = FALSE])
  IN  IF all = <<>> THEN <<gone(d.lo)>> ELSE all

\* Creation or drop of a family, when there is one to create or drop.
Candidates(g, create) == {f \in Families \ {0} : (f \in g.live) # create}

DdlOp(g, d) ==
  LET create == d.kind = "create"
      C == Candidates(g, create)
      f == IF d.pick \in C THEN d.pick ELSE CHOOSE c \in C : TRUE
  IN  [g |-> [g EXCEPT !.live = IF create THEN @ \cup {f} ELSE @ \ {f},
                       !.snapsOpen = IF create THEN @ ELSE 0],
       op |-> Op(d.kind, f)]

WriteOp(g, ms, d) ==
  [g |-> [g EXCEPT !.version = @ + Len(d.writes)],
   op |-> [Op("write", PickFamily(g, d.pick)) EXCEPT !.writes =
             IF d.kind = "write" THEN DrawnWrites(g, d) ELSE ClearWrites(g, ms, d)]]

\* At most MaxSnapshots are counted as held; one of those counted is checked.
SnapOp(g, d) ==
  IF g.snapsOpen > 0 /\ (g.snapsOpen >= MaxSnapshots \/ d.check)
  THEN [g |-> [g EXCEPT !.snapsOpen = @ - 1],
        op |-> [Op("snapCheck", 0) EXCEPT !.id = d.pick % g.snapsOpen]]
  ELSE [g |-> [g EXCEPT !.snapsOpen = @ + 1], op |-> Op("snapTake", 0)]

\* Mutant: opening again keeps the generator's count of snapshots.
ReopenOpKeepsCount(g) == [g |-> g, op |-> Op("reopen", 0)]

ReopenOp(g) == [g |-> [g EXCEPT !.snapsOpen = 0], op |-> Op("reopen", 0)]

ReadOp(g, kind, d) == [g |-> g, op |-> Op(kind, PickFamily(g, d.pick))]

\* ScenarioGen::Next: the generator and the operation that come of a draw.
NextOp(g0, ms, d) ==
  LET g == [g0 EXCEPT !.done = @ + 1]
  IN CASE d.kind \in {"create", "drop"} ->
            IF Candidates(g, d.kind = "create") = {} THEN ReadOp(g, "walk", d) ELSE DdlOp(g, d)
       [] d.kind \in {"write", "clear"} -> WriteOp(g, ms, d)
       [] d.kind = "snap"    -> SnapOp(g, d)
       [] d.kind = "reopen"  -> ReopenOp(g)
       [] d.kind \in {"walk", "compact"} -> ReadOp(g, d.kind, d)

\* The generator run again from its seed: the generator, the models and the
\* number of writes after each operation.
Replay[i \in 0 .. MaxOps] ==
  IF i = 0 THEN [g |-> NewGen, ms |-> NoModels, n |-> 0]
  ELSE LET last == Replay[i - 1]
           next == NextOp(last.g, last.ms, seed[i])
       IN  [g |-> next.g, ms |-> Apply(next.op, last.ms),
            n |-> last.n + (IF Durable(next.op) THEN 1 ELSE 0)]

\* ModelsAfterWrites, and its past_end.
PastEnd(n) == Replay[MaxOps].n < n
ModelsAfterWrites(n) ==
  IF PastEnd(n) THEN Replay[MaxOps].ms
  ELSE Replay[Min({i \in 0 .. MaxOps : Replay[i].n = n})].ms

-----------------------------------------------------------------------------
\* The database.

Absent == [base |-> NoValue, ops |-> <<>>]

NoDb == [exists |-> FALSE, live |-> {0}, births |-> [f \in Families |-> 0],
         m |-> [f \in Families |-> [k \in Keys |-> Absent]]]

\* DoWrite: a family without a handle stands for the default one (Handle).
Target(f) == IF f \in handles THEN f ELSE 0

EntriesAfter(entries, w) ==
  CASE w.kind = "put"    -> [entries EXCEPT ![w.id] = [base |-> <<w.value>>, ops |-> <<>>]]
    [] w.kind = "delete" -> [entries EXCEPT ![w.id] = Absent]
    [] w.kind = "merge"  -> [entries EXCEPT ![w.id].ops = Append(@, w.value)]
    [] w.kind = "range"  ->
         [k \in Keys |-> IF w.id <= k /\ k < w.end THEN Absent ELSE entries[k]]

WriteOne(m, w) == [m EXCEPT ![Target(w.family)] = EntriesAfter(@, w)]

DoWrite(d, ws) ==
  LET After[i \in 0 .. Len(ws)] == IF i = 0 THEN d.m ELSE WriteOne(After[i - 1], ws[i])
  IN  [d EXCEPT !.m = After[Len(ws)]]

Carried(d, o) ==
  CASE o.kind = "create" -> [d EXCEPT !.live = @ \cup {o.family}, !.births[o.family] = @ + 1,
                                      !.m[o.family] = [k \in Keys |-> Absent]]
    [] o.kind = "drop"   -> [d EXCEPT !.live = @ \ {o.family},
                                      !.m[o.family] = [k \in Keys |-> Absent]]
    [] o.kind = "write"  -> DoWrite(d, o.writes)

\* What a read may return for an entry: <<>>, or <<value>> for each way in
\* which the engine can have folded its operands.
Reads(k, e) ==
  IF e = Absent THEN {NoValue} ELSE {<<v>> : v \in
    IF e.ops = <<>> THEN {e.base[1]} ELSE Foldings(HashOfKey(k), e.base, e.ops)}

\* Mutant: a scan that ends early is taken for a match.
AgreesWhereFound(d, ms, f) ==
  \A k \in Keys : Reads(k, d.m[f][k]) \in {{NoValue}, {ms.m[f][k]}}

\* CheckGets, CheckScan: one family against its model.
Agrees(d, ms, f) == \A k \in Keys : Reads(k, d.m[f][k]) = {ms.m[f][k]}

CheckAll == \A f \in handles : Agrees(db, models, f)

\* What a snapshot shows of the database now: nothing of a family that has
\* been created since.
View(s) == [s.db EXCEPT !.m = [f \in Families |->
              IF s.db.births[f] = db.births[f] THEN @[f] ELSE [k \in Keys |-> Absent]]]

CheckSnapshot(s) == \A f \in s.models.live \cap handles : Agrees(View(s), s.models, f)

\* DB::Open with the families of `names`, and with create_if_missing.
Opens(names, create) == IF db.exists THEN db.live = names ELSE create /\ names = {0}

-----------------------------------------------------------------------------
\* RunScenario.

NoRecovery == [attempt |-> 0, recovered |-> 0, disk |-> NoDb]

Init ==
  /\ seed \in Seeds
  /\ pc = "open"
  /\ gen = NewGen /\ op = Op("none", 0) /\ models = NoModels
  /\ handles = {} /\ snaps = <<>> /\ writes = 0 /\ ack = 0
  /\ db = NoDb /\ trail = <<[NoDb EXCEPT !.exists = TRUE]>> /\ recovery = NoRecovery

Open ==
  /\ pc = "open"
  /\ db' = [db EXCEPT !.exists = TRUE]
  /\ handles' = {0}
  /\ pc' = "loop"
  /\ UNCHANGED <<seed, gen, op, models, snaps, writes, ack, trail, recovery>>

Generate ==
  /\ pc = "loop" /\ gen.done < MaxOps
  /\ LET r == NextOp(gen, models, seed[gen.done + 1])
     IN  gen' = r.g /\ op' = r.op
  /\ pc' = "call"
  /\ UNCHANGED <<seed, models, handles, snaps, writes, ack, db, trail, recovery>>

\* Mutant: the snapshots keep their view of a dropped family.
CallDurableKeepsViews ==
  /\ pc = "call" /\ Durable(op)
  /\ db' = Carried(db, op)
  /\ trail' = Append(trail, db')
  /\ handles' = db'.live
  /\ pc' = "apply"
  /\ UNCHANGED <<seed, gen, op, models, snaps, writes, ack, recovery>>

\* A write, a creation or a drop; a snapshot's view of a dropped family is
\* given up before the drop.
CallDurable ==
  /\ pc = "call" /\ Durable(op)
  /\ db' = Carried(db, op)
  /\ trail' = Append(trail, db')
  /\ handles' = db'.live
  /\ snaps' = IF op.kind = "drop"
              THEN [i \in DOMAIN snaps |-> [snaps[i] EXCEPT !.models.live = @ \ {op.family}]]
              ELSE snaps
  /\ pc' = "apply"
  /\ UNCHANGED <<seed, gen, op, models, writes, ack, recovery>>

\* Mutant: the call is acknowledged twice over, once for the write to come.
ApplyAndAckAhead ==
  /\ pc = "apply"
  /\ models' = Apply(op, models)
  /\ writes' = writes + 1
  /\ ack' = writes + 2
  /\ pc' = "loop"
  /\ UNCHANGED <<seed, gen, op, handles, snaps, db, trail, recovery>>

ApplyAndAck ==
  /\ pc = "apply"
  /\ models' = Apply(op, models)
  /\ writes' = writes + 1
  /\ ack' = writes + 1
  /\ pc' = "loop"
  /\ UNCHANGED <<seed, gen, op, handles, snaps, db, trail, recovery>>

\* How the loop goes on after a check.
After(ok) == pc' = IF ok THEN "loop" ELSE "runFailed"

CallRead ==
  /\ pc = "call" /\ op.kind = "walk"
  /\ After(Agrees(db, models, op.family))
  /\ UNCHANGED <<seed, gen, op, models, handles, snaps, writes, ack, db, trail, recovery>>

CallSnapTake ==
  /\ pc = "call" /\ op.kind = "snapTake"
  /\ snaps' = Append(snaps, [db |-> db, models |-> models])
  /\ After(TRUE)
  /\ UNCHANGED <<seed, gen, op, models, handles, writes, ack, db, trail, recovery>>

CallSnapCheck ==
  /\ pc = "call" /\ op.kind = "snapCheck"
  /\ IF op.id < Len(snaps)
     THEN /\ After(CheckSnapshot(snaps[op.id + 1]))
          /\ snaps' = RemoveAt(snaps, op.id + 1)
     ELSE After(TRUE) /\ UNCHANGED snaps
  /\ UNCHANGED <<seed, gen, op, models, handles, writes, ack, db, trail, recovery>>

CallReopen ==
  /\ pc = "call" /\ op.kind = "reopen"
  /\ snaps' = <<>>
  /\ After(Opens(handles, FALSE) /\ CheckAll)
  /\ UNCHANGED <<seed, gen, op, models, handles, writes, ack, db, trail, recovery>>

\* A compaction may change nothing that is read, now or through the oldest
\* snapshot.
CallCompact ==
  /\ pc = "call" /\ op.kind = "compact"
  /\ After(CheckAll /\ (snaps # <<>> => CheckSnapshot(snaps[1])))
  /\ UNCHANGED <<seed, gen, op, models, handles, snaps, writes, ack, db, trail, recovery>>

\* The end: the snapshots, every family, after another opening and after a
\* full compaction.
Finish ==
  /\ pc = "loop" /\ gen.done = MaxOps
  /\ pc' = IF (\A i \in DOMAIN snaps : CheckSnapshot(snaps[i]))
              /\ CheckAll /\ Opens(handles, FALSE)
           THEN "finished" ELSE "runFailed"
  /\ snaps' = <<>>
  /\ UNCHANGED <<seed, gen, op, models, handles, writes, ack, db, trail, recovery>>

-----------------------------------------------------------------------------
\* The crash and CheckRecovered.

\* What is on disk: the creation of the database may have got nowhere; a
\* faulty engine has lost the last write, or kept a part of the batch whose
\* call was under way.
Left ==
  {db}
    \cup (IF pc = "open" THEN {[db EXCEPT !.exists = TRUE]} ELSE {})
    \cup (IF Faulty /\ pc = "loop" /\ writes > 0 THEN {trail[Len(trail) - 1]} ELSE {})
    \cup (IF Faulty /\ pc = "apply" /\ op.kind = "write"
          THEN {DoWrite(trail[Len(trail) - 1], SubSeq(op.writes, 1, i)) :
                  i \in 1 .. Len(op.writes) - 1}
          ELSE {})

Crash ==
  /\ pc \in {"open", "loop", "call", "apply"}
  /\ \E d \in Left : db' = d /\ recovery' = [NoRecovery EXCEPT !.disk = d]
  /\ pc' = "recover"
  /\ gen' = NewGen /\ op' = Op("none", 0) /\ models' = NoModels
  /\ handles' = {} /\ snaps' = <<>> /\ writes' = 0
  /\ UNCHANGED <<seed, ack, trail>>

\* One attempt: the acknowledged writes, then one more.
Attempt ==
  /\ pc = "recover"
  /\ LET n  == ack + recovery.attempt
         ms == ModelsAfterWrites(n)
         opens == Opens(ms.live, n = 0)
         found == opens /\ \A f \in ms.live : Agrees(db, ms, f)
     IN  IF recovery.attempt = 1 /\ PastEnd(ack + 1)
         THEN pc' = "recoveryFailed" /\ UNCHANGED <<models, handles, db, recovery>>
         ELSE IF found
         THEN /\ pc' = "touch"
              /\ models' = ms /\ handles' = ms.live
              /\ db' = [db EXCEPT !.exists = TRUE]
              /\ recovery' = [recovery EXCEPT !.recovered = n]
         ELSE /\ pc' = IF recovery.attempt = 0 THEN "recover" ELSE "recoveryFailed"
              /\ recovery' = [recovery EXCEPT !.attempt = 1]
              /\ db' = [db EXCEPT !.exists = @ \/ opens]
              /\ UNCHANGED <<models, handles>>
  /\ UNCHANGED <<seed, gen, op, snaps, writes, ack, trail>>

\* The database has to be usable: a write to a family that exists, another
\* opening, and the same contents.
Touch ==
  /\ pc = "touch"
  /\ \E t \in Touches, f \in models.live :
       LET w == RandomWrite(NewGen, t, f, 0)
       IN  /\ db' = DoWrite(db, <<w>>)
           /\ models' = ApplyWrite(models, w)
  /\ pc' = "recheck"
  /\ UNCHANGED <<seed, gen, op, handles, snaps, writes, ack, trail, recovery>>

Recheck ==
  /\ pc = "recheck"
  /\ pc' = IF Opens(models.live, FALSE) /\ CheckAll THEN "passed" ELSE "recoveryFailed"
  /\ UNCHANGED <<seed, gen, op, models, handles, snaps, writes, ack, db, trail, recovery>>

Next ==
  \/ Open \/ Generate \/ CallDurable \/ ApplyAndAck
  \/ CallRead \/ CallSnapTake \/ CallSnapCheck \/ CallReopen \/ CallCompact
  \/ Finish \/ Crash \/ Attempt \/ Touch \/ Recheck

Spec == Init /\ [][Next]_vars

-----------------------------------------------------------------------------
\* Properties.

Shown(d) == [live |-> d.live,
             m |-> [f \in d.live |-> [k \in Keys |-> Reads(k, d.m[f][k])]]]

ShownBy(ms) == [live |-> ms.live,
                m |-> [f \in ms.live |-> [k \in Keys |-> {ms.m[f][k]}]]]

(* A run on an engine that keeps its promises finds no mismatch, and after *)
(* a crash CheckRecovered accepts what is left: the generator, the models, *)
(* the snapshots' copies of them and the acknowledgements never disagree   *)
(* with a correct database (RunScenario 736-892, CheckRecovered 894-982).  *)
NoFalseAlarm ==
  /\ pc # "runFailed"
  /\ pc = "recoveryFailed" =>
       Shown(recovery.disk) \notin {Shown(trail[i]) : i \in {ack + 1, ack + 2} \cap DOMAIN trail}

(* What CheckRecovered accepts is what the run itself had after the        *)
(* acknowledged writes, or what one more write makes of it; a lost write   *)
(* or a part of a batch is not accepted, unless the next write would bring *)
(* back just that state (a drop lost before the same creation).            *)
LossIsFound ==
  pc \in {"touch", "recheck", "passed"} =>
    Shown(recovery.disk) \in
      {Shown(trail[i]) : i \in {ack + 1, ack + 2} \cap DOMAIN trail}
        \cup {ShownBy(ModelsAfterWrites(ack + 1))}

(* The acknowledgement file never runs ahead of the database and is at most*)
(* one write behind it.                                                    *)
AckBracketsDb ==
  pc \in {"loop", "call", "apply"} =>
    /\ ack = writes
    /\ Len(trail) - 1 = writes + (IF pc = "apply" THEN 1 ELSE 0)

(* A write names only families that exist: one without a handle would go   *)
(* to the default family without an error (Db::Handle, DoWrite).           *)
WritesHitTheirFamily ==
  pc = "call" /\ op.kind = "write" =>
    \A i \in DOMAIN op.writes : op.writes[i].family \in handles

(* A snapshot the generator asks for is held: the guard of kOpSnapCheck    *)
(* (834) never skips the check, also after drops and openings in between.  *)
SnapshotIsHeld ==
  pc = "call" /\ op.kind = "snapCheck" => op.id < Len(snaps)

===============================================================================
