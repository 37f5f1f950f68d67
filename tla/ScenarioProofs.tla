---------------------------- MODULE ScenarioProofs ----------------------------
(***************************************************************************)
(* Theorems of Scenario, for any number of families, keys and operations,  *)
(* any seeds, any P, and engines that lose data: how the generator, the    *)
(* handles, the snapshots and the acknowledgements of a run keep up with   *)
(* each other (RunInv), and that the comparisons of a run and of the check *)
(* after a crash are right (CompareInv).                                   *)
(*                                                                         *)
(* The second part goes from the merge operator, of which every folding    *)
(* comes to the same (OneFolding), over one write and one call on database *)
(* and models (EntryWritten, SameWrites, CarriedHolds), and the replay of  *)
(* a seed (ReplayAll, CountsGrow), to the actions.                         *)
(***************************************************************************)
EXTENDS Scenario, WellOrder, SequenceTheorems, FiniteSetTheorems

\* s is a sequence, of whatever it is.
IsSequence(s) == \E S : s \in Seq(S)

Running == {"loop", "call", "apply"}

\* The types of what is counted and of the sets of families.
RunTypes ==
  /\ seed \in Seq(Draw)
  /\ gen \in [done : Nat, version : Nat, snapsOpen : Nat, live : SUBSET Families]
  /\ pc \in {"open", "loop", "call", "apply", "finished", "runFailed",
             "recover", "touch", "recheck", "passed", "recoveryFailed"}
  /\ IsSequence(snaps) /\ IsSequence(trail)
  /\ writes \in Nat /\ ack \in Nat

\* A write that has returned is on the trail before it is counted, and counted
\* before it is acknowledged.
Bookkeeping ==
  /\ pc = "open" => writes = 0 /\ ack = 0 /\ Len(trail) = 1 /\ gen = NewGen /\ snaps = <<>>
  /\ pc \in Running => /\ ack = writes
                       /\ Len(trail) - 1 = writes + (IF pc = "apply" THEN 1 ELSE 0)

\* The generator knows the families the process has handles of, but for the
\* creation or drop that it has just chosen.
FamiliesKnown ==
  /\ pc = "open" => "live" \in DOMAIN db /\ db.live = {0}
  /\ pc \in Running =>
    /\ "live" \in DOMAIN db /\ 0 \in handles /\ handles = db.live
    /\ gen.live = IF pc # "call" THEN handles
                  ELSE CASE op.kind = "create" -> handles \cup {op.family}
                         [] op.kind = "drop"   -> handles \ {op.family}
                         [] OTHER              -> handles
    /\ pc = "call" /\ op.kind \in {"create", "drop"} => op.family # 0
    /\ pc = "call" /\ op.kind = "write" =>
         \A i \in DOMAIN op.writes : op.writes[i].family \in handles

\* The process holds every snapshot that the generator counts.
SnapshotsKnown ==
  pc \in Running =>
    IF pc # "call" THEN gen.snapsOpen <= Len(snaps)
    ELSE CASE op.kind = "snapTake"  -> gen.snapsOpen <= Len(snaps) + 1
           [] op.kind = "snapCheck" -> /\ op.id \in 0 .. gen.snapsOpen
                                       /\ gen.snapsOpen + 1 <= Len(snaps)
           [] op.kind = "reopen"    -> gen.snapsOpen = 0
           [] OTHER                 -> gen.snapsOpen <= Len(snaps)

RunInv == RunTypes /\ Bookkeeping /\ FamiliesKnown /\ SnapshotsKnown

USE ScenarioAssumption, SeedsAssumption, AffineAssumption

LEMMA AppendSequence ==
  ASSUME NEW s, IsSequence(s), NEW e
  PROVE  IsSequence(Append(s, e)) /\ Len(Append(s, e)) = Len(s) + 1
<1>1. PICK S : s \in Seq(S)
  BY DEF IsSequence
<1>2. s \in Seq(S \cup {e})
  BY <1>1, SeqMonotonic
<1>3. Append(s, e) \in Seq(S \cup {e}) /\ Len(Append(s, e)) = Len(s) + 1
  BY <1>2
<1> QED
  BY <1>3 DEF IsSequence

LEMMA RemoveSequence ==
  ASSUME NEW s, IsSequence(s), NEW i \in 1 .. Len(s)
  PROVE  IsSequence(RemoveAt(s, i)) /\ Len(RemoveAt(s, i)) = Len(s) - 1
<1>1. PICK S : s \in Seq(S)
  BY DEF IsSequence
<1>2. Len(s) \in Nat /\ \A j \in 1 .. Len(s) : s[j] \in S
  BY <1>1
<1>3. SubSeq(s, 1, i - 1) \in Seq(S) /\ Len(SubSeq(s, 1, i - 1)) = i - 1
  BY <1>1, <1>2
<1>4. SubSeq(s, i + 1, Len(s)) \in Seq(S) /\ Len(SubSeq(s, i + 1, Len(s))) = Len(s) - i
  BY <1>1, <1>2
<1>5. RemoveAt(s, i) \in Seq(S) /\ Len(RemoveAt(s, i)) = Len(s) - 1
  <2> DEFINE a == SubSeq(s, 1, i - 1)
             b == SubSeq(s, i + 1, Len(s))
  <2>1. RemoveAt(s, i) = a \o b
    BY DEF RemoveAt
  <2>2. a \in Seq(S) /\ b \in Seq(S) /\ Len(a) = i - 1 /\ Len(b) = Len(s) - i
    BY <1>3, <1>4
  <2> HIDE DEF a, b
  <2>3. a \o b \in Seq(S) /\ Len(a \o b) = Len(a) + Len(b)
    BY <2>2, ConcatProperties
  <2> QED
    BY <1>2, <2>1, <2>2, <2>3
<1> QED
  BY <1>5 DEF IsSequence

LEMMA MappedSequence ==
  ASSUME NEW s, IsSequence(s), NEW t, DOMAIN t = DOMAIN s, t = [i \in DOMAIN s |-> t[i]]
  PROVE  IsSequence(t) /\ Len(t) = Len(s)
<1>1. PICK S : s \in Seq(S)
  BY DEF IsSequence
<1>2. Len(s) \in Nat /\ DOMAIN s = 1 .. Len(s)
  BY <1>1
<1>3. t \in [1 .. Len(s) -> {t[i] : i \in 1 .. Len(s)}]
  BY <1>2
<1>4. t \in Seq({t[i] : i \in 1 .. Len(s)}) /\ Len(t) = Len(s)
  BY <1>2, <1>3
<1> QED
  BY <1>4 DEF IsSequence

-----------------------------------------------------------------------------
\* The generator.

Generator == [done : Nat, version : Nat, snapsOpen : Nat, live : SUBSET Families]

\* Numbers below P, and values that start from one.
Residue == 0 .. P - 1
Values == [x : Residue, len : Nat, merged : BOOLEAN]

WriteOk(w) ==
  /\ w.family \in Families
  /\ w.kind \in {"put", "delete", "merge", "range"}
  /\ w.kind = "put" => w.value \in Values
  /\ w.kind = "merge" => w.value \in Operands

\* Every write of the sequence is one that a generator makes, on a family of L.
AllOn(ws, L) == IsSequence(ws) /\ \A i \in DOMAIN ws : WriteOk(ws[i]) /\ ws[i].family \in L

LEMMA PickedLives ==
  ASSUME NEW g \in Generator, 0 \in g.live, NEW n
  PROVE  PickFamily(g, n) \in g.live
BY DEF PickFamily

LEMMA RandomWriteOk ==
  ASSUME NEW v \in Nat, NEW g, g.version = v, NEW t \in WriteDraw, NEW f \in Families,
         NEW nth \in Nat
  PROVE  WriteOk(RandomWrite(g, t, f, nth)) /\ RandomWrite(g, t, f, nth).family = f
<1> DEFINE w == RandomWrite(g, t, f, nth)
           n == v + nth
<1>1. w.family = f /\ w.kind = t.kind
  BY DEF RandomWrite
<1>2. /\ t.kind \in {"put", "delete", "merge", "range"}
      /\ t.kind = "merge" => t.operand \in Operands
  BY DEF WriteDraw
<1>3. t.kind = "merge" => w.value = t.operand
  BY DEF RandomWrite
<1>4. ASSUME t.kind = "put" PROVE w.value \in Values
  <2>1. w.value = Plain(n % P, n % 3)
    BY <1>4 DEF RandomWrite
  <2>2. n % P \in Residue /\ n % 3 \in Nat
    <3>1. n \in Nat
      OBVIOUS
    <3> HIDE DEF n
    <3> QED
      BY <3>1 DEF Residue
  <2> HIDE DEF n, w
  <2> QED
    BY <2>1, <2>2 DEF Plain, Values
<1> QED
  BY <1>1, <1>2, <1>3, <1>4 DEF WriteOk

LEMMA DrawnOn ==
  ASSUME NEW g \in Generator, 0 \in g.live, NEW d, d.writes \in Seq(WriteDraw)
  PROVE  AllOn(DrawnWrites(g, d), g.live)
<1> DEFINE ws == DrawnWrites(g, d)
           S  == {ws[i] : i \in 1 .. Len(d.writes)}
<1>1. DOMAIN ws = 1 .. Len(d.writes)
  BY DEF DrawnWrites
<1>2. ws = [i \in 1 .. Len(d.writes) |-> ws[i]]
  BY DEF DrawnWrites
<1>3. ws \in Seq(S)
  <2>1. ws \in [1 .. Len(d.writes) -> S]
    BY <1>1, <1>2
  <2> HIDE DEF ws, S
  <2> QED
    BY <2>1
<1>4. ASSUME NEW i \in DOMAIN ws PROVE WriteOk(ws[i]) /\ ws[i].family \in g.live
  <2>1. PICK n : ws[i] = RandomWrite(g, d.writes[i], PickFamily(g, n), i)
    BY <1>1, <1>4 DEF DrawnWrites
  <2>2. /\ PickFamily(g, n) \in g.live /\ PickFamily(g, n) \in Families
        /\ d.writes[i] \in WriteDraw /\ i \in Nat /\ g.version \in Nat
    BY <1>1, <1>4, PickedLives DEF Generator
  <2> QED
    BY <2>1, <2>2, RandomWriteOk
<1> QED
  BY <1>3, <1>4 DEF AllOn, IsSequence

LEMMA SingleOn ==
  ASSUME NEW L, NEW w, WriteOk(w), w.family \in L
  PROVE  AllOn(<<w>>, L)
<1>1. <<w>> \in Seq({w})
  OBVIOUS
<1>2. DOMAIN <<w>> = {1} /\ <<w>>[1] = w
  OBVIOUS
<1> QED
  BY <1>1, <1>2 DEF AllOn, IsSequence

LEMMA JoinedOn ==
  ASSUME NEW L, NEW s, NEW t, AllOn(s, L), AllOn(t, L)
  PROVE  AllOn(s \o t, L)
<1>1. PICK S : s \in Seq(S)
  BY DEF AllOn, IsSequence
<1>2. PICK T : t \in Seq(T)
  BY DEF AllOn, IsSequence
<1>3. s \in Seq(S \cup T) /\ t \in Seq(S \cup T)
  BY <1>1, <1>2, SeqMonotonic
<1>4. /\ s \o t \in Seq(S \cup T) /\ Len(s \o t) = Len(s) + Len(t)
      /\ \A i \in 1 .. Len(s) + Len(t) :
           (s \o t)[i] = IF i <= Len(s) THEN s[i] ELSE t[i - Len(s)]
  BY <1>3, ConcatProperties
<1>5. /\ Len(s) \in Nat /\ DOMAIN s = 1 .. Len(s)
      /\ Len(t) \in Nat /\ DOMAIN t = 1 .. Len(t)
      /\ DOMAIN (s \o t) = 1 .. Len(s) + Len(t)
  BY <1>1, <1>2, <1>4
<1>6. ASSUME NEW i \in DOMAIN (s \o t)
      PROVE  WriteOk((s \o t)[i]) /\ (s \o t)[i].family \in L
  <2>1. CASE i <= Len(s)
    <3>1. i \in DOMAIN s /\ (s \o t)[i] = s[i]
      BY <1>4, <1>5, <1>6, <2>1
    <3> QED
      BY <3>1 DEF AllOn
  <2>2. CASE ~(i <= Len(s))
    <3>1. i - Len(s) \in DOMAIN t /\ (s \o t)[i] = t[i - Len(s)]
      BY <1>4, <1>5, <1>6, <2>2
    <3> QED
      BY <3>1 DEF AllOn
  <2> QED
    BY <2>1, <2>2, <1>5, <1>6
<1> QED
  BY <1>4, <1>6 DEF AllOn, IsSequence

LEMMA ClearedOn ==
  ASSUME NEW g \in Generator, 0 \in g.live, NEW ms, NEW d \in Draw
  PROVE  AllOn(ClearWrites(g, ms, d), g.live)
<1> DEFINE f     == PickFamily(g, d.pick)
           there == {k \in Keys : d.lo <= k /\ k < d.hi /\ ms.m[f][k] # NoValue}
           gone(k) == [kind |-> "delete", family |-> f, id |-> k, end |-> 0, value |-> NoValue]
           order == SetToSortSeq(there, <)
           dels  == [i \in 1 .. Cardinality(there) |-> gone(order[i])]
           plain == [d EXCEPT !.span = FALSE]
           all   == dels \o DrawnWrites(g, plain)
<1>1. f \in g.live /\ f \in Families
  BY PickedLives DEF Generator
<1>0. \A k : WriteOk(gone(k)) /\ gone(k).family \in g.live
  BY <1>1 DEF WriteOk
<1>7. ClearWrites(g, ms, d) = IF all = <<>> THEN <<gone(d.lo)>> ELSE all
  BY DEF ClearWrites
<1> HIDE DEF gone, order
<1>2. Cardinality(there) \in Nat
  <2>1. IsFiniteSet(Keys)
    BY FS_Interval DEF Keys
  <2> QED
    BY <2>1, FS_Subset, FS_CardinalityType
<1>3. AllOn(dels, g.live)
  <2> DEFINE S == {dels[i] : i \in 1 .. Cardinality(there)}
  <2>1. dels \in [1 .. Cardinality(there) -> S]
    OBVIOUS
  <2>2. dels \in Seq(S)
    <3> HIDE DEF dels, S, there
    <3> QED
      BY <1>2, <2>1
  <2>3. \A i \in DOMAIN dels : WriteOk(dels[i]) /\ dels[i].family \in g.live
    <3> TAKE i \in DOMAIN dels
    <3>1. dels[i] = gone(order[i])
      OBVIOUS
    <3> HIDE DEF dels
    <3> QED
      BY <1>0, <3>1
  <2> QED
    BY <2>2, <2>3 DEF AllOn, IsSequence
<1>4. AllOn(DrawnWrites(g, plain), g.live)
  <2>1. plain.writes \in Seq(WriteDraw)
    BY DEF Draw
  <2> QED
    BY <2>1, DrawnOn
<1>5. AllOn(all, g.live)
  <2> HIDE DEF dels, plain
  <2> QED
    BY <1>3, <1>4, JoinedOn
<1>6. AllOn(<<gone(d.lo)>>, g.live)
  <2>1. WriteOk(gone(d.lo)) /\ gone(d.lo).family \in g.live
    BY <1>0
  <2> QED
    BY <2>1, SingleOn
<1> HIDE DEF all
<1> QED
  BY <1>5, <1>6, <1>7

\* What an operation that has been generated leaves of the families and of the
\* snapshots that the generator counts.
GeneratedRightly(g, r) ==
  /\ r.g \in Generator
  /\ r.g.live = CASE r.op.kind = "create" -> g.live \cup {r.op.family}
                  [] r.op.kind = "drop"   -> g.live \ {r.op.family}
                  [] OTHER                -> g.live
  /\ r.op.kind \in {"create", "drop", "write", "snapTake", "snapCheck", "reopen",
                    "walk", "compact"}
  /\ r.op.kind \in {"create", "drop"} => r.op.family # 0
  /\ r.op.kind = "create" => r.op.family \notin g.live
  /\ r.op.kind \in {"create", "drop", "walk", "compact"} => r.op.family \in Families
  /\ r.op.kind = "write" => AllOn(r.op.writes, g.live)
  /\ CASE r.op.kind = "snapTake"  -> r.g.snapsOpen = g.snapsOpen + 1
       [] r.op.kind = "snapCheck" -> /\ r.op.id \in 0 .. r.g.snapsOpen
                                     /\ r.g.snapsOpen + 1 = g.snapsOpen
       [] r.op.kind = "reopen"    -> r.g.snapsOpen = 0
       [] OTHER                   -> r.g.snapsOpen <= g.snapsOpen

LEMMA DdlRight ==
  ASSUME NEW g \in Generator, NEW d \in Draw, d.kind \in {"create", "drop"},
         Candidates(g, d.kind = "create") # {}
  PROVE  GeneratedRightly(g, DdlOp(g, d))
<1> DEFINE C == Candidates(g, d.kind = "create")
           f == IF d.pick \in C THEN d.pick ELSE CHOOSE c \in C : TRUE
<1>1. f \in C
  OBVIOUS
<1>2. f \in Families /\ f # 0 /\ (d.kind = "create" => f \notin g.live)
  BY <1>1 DEF Candidates
<1> HIDE DEF f
<1>3. DdlOp(g, d).op = Op(d.kind, f)
  BY DEF DdlOp, f
<1>4. DdlOp(g, d).g = [g EXCEPT !.live = IF d.kind = "create" THEN @ \cup {f} ELSE @ \ {f},
                              !.snapsOpen = IF d.kind = "create" THEN @ ELSE 0]
  BY DEF DdlOp, f
<1> DEFINE r == DdlOp(g, d)
<1>5. r.op.kind = d.kind /\ r.op.family = f
  BY <1>3 DEF Op
<1> HIDE DEF r
<1>6. r.g \in Generator /\ r.g.snapsOpen <= g.snapsOpen
  <2> DEFINE live == IF d.kind = "create" THEN g.live \cup {f} ELSE g.live \ {f}
             open == IF d.kind = "create" THEN g.snapsOpen ELSE 0
  <2>1. live \in SUBSET Families /\ open \in Nat /\ open <= g.snapsOpen
    BY <1>2 DEF Generator
  <2>2. r.g = [g EXCEPT !.live = live, !.snapsOpen = open]
    BY <1>4 DEF r
  <2> HIDE DEF live, open
  <2> QED
    BY <2>1, <2>2 DEF Generator
<1>7. r.g.live = IF d.kind = "create" THEN g.live \cup {f} ELSE g.live \ {f}
  BY <1>4 DEF Generator, r
<1>8. GeneratedRightly(g, r)
  BY <1>2, <1>5, <1>6, <1>7 DEF GeneratedRightly
<1> QED
  BY <1>8 DEF r

LEMMA WriteRight ==
  ASSUME NEW g \in Generator, 0 \in g.live, NEW ms, NEW d \in Draw
  PROVE  GeneratedRightly(g, WriteOp(g, ms, d))
<1> DEFINE ws == IF d.kind = "write" THEN DrawnWrites(g, d) ELSE ClearWrites(g, ms, d)
<1>1. Len(d.writes) \in Nat /\ d.writes \in Seq(WriteDraw)
  BY DEF Draw
<1>2. AllOn(ws, g.live)
  BY <1>1, DrawnOn, ClearedOn
<1> HIDE DEF ws
<1>3. WriteOp(g, ms, d).op = [Op("write", PickFamily(g, d.pick)) EXCEPT !.writes = ws]
  BY DEF WriteOp, ws
<1>4. WriteOp(g, ms, d).g = [g EXCEPT !.version = @ + Len(d.writes)]
  BY DEF WriteOp
<1> QED
  BY <1>1, <1>2, <1>3, <1>4 DEF GeneratedRightly, Generator, Op

LEMMA SnapRight ==
  ASSUME NEW g \in Generator, NEW d \in Draw
  PROVE  GeneratedRightly(g, SnapOp(g, d))
<1>1. CASE g.snapsOpen > 0 /\ (g.snapsOpen >= MaxSnapshots \/ d.check)
  <2>1. d.pick % g.snapsOpen \in 0 .. g.snapsOpen - 1
    BY <1>1 DEF Draw, Generator
  <2> DEFINE n == d.pick % g.snapsOpen
  <2>2. n \in 0 .. g.snapsOpen - 1
    BY <2>1
  <2>3. SnapOp(g, d).g = [g EXCEPT !.snapsOpen = @ - 1]
        /\ SnapOp(g, d).op = [Op("snapCheck", 0) EXCEPT !.id = n]
    BY <1>1 DEF SnapOp
  <2> HIDE DEF n
  <2> QED
    BY <1>1, <2>2, <2>3 DEF GeneratedRightly, Generator, Op
<1>2. CASE ~(g.snapsOpen > 0 /\ (g.snapsOpen >= MaxSnapshots \/ d.check))
  <2>1. SnapOp(g, d).g = [g EXCEPT !.snapsOpen = @ + 1]
        /\ SnapOp(g, d).op = Op("snapTake", 0)
    BY <1>2 DEF SnapOp
  <2> QED
    BY <2>1 DEF GeneratedRightly, Generator, Op
<1> QED
  BY <1>1, <1>2

LEMMA NextRight ==
  ASSUME NEW g0 \in Generator, 0 \in g0.live, NEW ms, NEW d \in Draw
  PROVE  GeneratedRightly(g0, NextOp(g0, ms, d))
<1> DEFINE g == [g0 EXCEPT !.done = @ + 1]
<1>1. g \in Generator /\ g.live = g0.live /\ g.snapsOpen = g0.snapsOpen
  BY DEF Generator
<1> HIDE DEF g
<1>2. ASSUME NEW r, GeneratedRightly(g, r) PROVE GeneratedRightly(g0, r)
  BY <1>1, <1>2 DEF GeneratedRightly
<1>3. ASSUME NEW kind \in {"walk", "compact"} PROVE GeneratedRightly(g, ReadOp(g, kind, d))
  <2> DEFINE r == ReadOp(g, kind, d)
  <2>1. r.g = g /\ r.op.kind = kind /\ r.op.family \in Families
    <3>1. PickFamily(g, d.pick) \in Families
      BY <1>1, PickedLives DEF Generator
    <3> QED
      BY <3>1 DEF ReadOp, Op
  <2> HIDE DEF r
  <2>2. /\ r.op.kind \notin {"create", "drop", "write", "snapTake", "snapCheck", "reopen"}
        /\ g.snapsOpen \in Nat
    BY <1>1, <2>1 DEF Generator
  <2>3. GeneratedRightly(g, r)
    BY <1>1, <2>1, <2>2 DEF GeneratedRightly
  <2> QED
    BY <2>3 DEF r
<1>4. GeneratedRightly(g, ReopenOp(g))
  BY <1>1 DEF GeneratedRightly, ReopenOp, Op, Generator
<1>5. NextOp(g0, ms, d) =
        CASE d.kind \in {"create", "drop"} ->
               IF Candidates(g, d.kind = "create") = {} THEN ReadOp(g, "walk", d) ELSE DdlOp(g, d)
          [] d.kind \in {"write", "clear"} -> WriteOp(g, ms, d)
          [] d.kind = "snap"    -> SnapOp(g, d)
          [] d.kind = "reopen"  -> ReopenOp(g)
          [] d.kind \in {"walk", "compact"} -> ReadOp(g, d.kind, d)
  BY DEF NextOp, g
<1>6. d.kind \in {"create", "drop", "write", "clear", "snap", "reopen", "walk", "compact"}
  BY DEF Draw
<1>7. CASE d.kind \in {"create", "drop"}
  BY <1>1, <1>2, <1>3, <1>5, <1>7, DdlRight
<1>8. CASE d.kind \in {"write", "clear"}
  BY <1>1, <1>2, <1>5, <1>8, WriteRight
<1>9. CASE d.kind = "snap"
  BY <1>1, <1>2, <1>5, <1>9, SnapRight
<1>10. CASE d.kind = "reopen"
  BY <1>2, <1>4, <1>5, <1>10
<1>11. CASE d.kind \in {"walk", "compact"}
  BY <1>2, <1>3, <1>5, <1>11
<1> QED
  BY <1>6, <1>7, <1>8, <1>9, <1>10, <1>11

-----------------------------------------------------------------------------
\* The run.

LEMMA RunInvInit == Init => RunInv
<1> SUFFICES ASSUME Init PROVE RunInv
  OBVIOUS
<1>1. 0 \in Families
  BY DEF Families
<1>2. RunTypes
  <2> DEFINE empty == [NoDb EXCEPT !.exists = TRUE]
  <2>1. seed \in Seq(Draw) /\ snaps = <<>> /\ trail = <<empty>>
    BY DEF Init
  <2> HIDE DEF empty
  <2>2. <<>> \in Seq({}) /\ <<empty>> \in Seq({empty})
    OBVIOUS
  <2>3. IsSequence(snaps) /\ IsSequence(trail)
    BY <2>1, <2>2 DEF IsSequence
  <2> QED
    BY <1>1, <2>1, <2>3 DEF Init, RunTypes, NewGen
<1>3. Bookkeeping
  BY DEF Init, Bookkeeping, Running
<1>4. FamiliesKnown
  BY DEF Init, FamiliesKnown, Running, NoDb
<1>5. SnapshotsKnown
  BY DEF Init, SnapshotsKnown, Running
<1> QED
  BY <1>2, <1>3, <1>4, <1>5 DEF RunInv

\* A step that ends the run, or is taken after it.
LEMMA AfterTheRun ==
  ASSUME RunInv, pc' \notin Running, pc' # "open", RunTypes'
  PROVE  RunInv'
BY DEF RunInv, Bookkeeping, FamiliesKnown, SnapshotsKnown

LEMMA RunOpen == ASSUME RunInv, Open PROVE RunInv'
<1> USE DEF RunInv
<1>1. RunTypes'
  BY DEF Open, RunTypes
<1>2. Bookkeeping'
  BY DEF Open, Bookkeeping, Running
<1>3. FamiliesKnown'
  <2>1. db' = [db EXCEPT !.exists = TRUE] /\ "live" \in DOMAIN db /\ db.live = {0}
    BY DEF Open, FamiliesKnown
  <2>2. "live" \in DOMAIN db' /\ db'.live = {0}
    BY <2>1
  <2>3. gen' = NewGen /\ handles' = {0} /\ pc' = "loop"
    BY DEF Open, Bookkeeping
  <2> QED
    BY <2>2, <2>3 DEF FamiliesKnown, Running, NewGen
<1>4. SnapshotsKnown'
  <2>1. gen' = NewGen /\ snaps' = <<>> /\ pc' = "loop"
    BY DEF Open, Bookkeeping
  <2> QED
    BY <2>1 DEF SnapshotsKnown, NewGen
<1> QED
  BY <1>1, <1>2, <1>3, <1>4

LEMMA RunGenerate == ASSUME RunInv, Generate PROVE RunInv'
<1> USE DEF RunInv
<1> DEFINE d == seed[gen.done + 1]
           r == NextOp(gen, models, d)
<1>1. gen \in Generator /\ gen.done < Len(seed) /\ seed \in Seq(Draw)
  BY DEF RunTypes, Generator, Generate, MaxOps
<1>2. d \in Draw
  BY <1>1 DEF Generator
<1>3. pc = "loop" /\ pc' = "call" /\ gen' = r.g /\ op' = r.op
      /\ UNCHANGED <<seed, models, handles, snaps, writes, ack, db, trail, recovery>>
  BY DEF Generate
<1>4. 0 \in gen.live /\ gen.live = handles
  BY <1>3 DEF FamiliesKnown, Running
<1> HIDE DEF d
<1>5. GeneratedRightly(gen, r)
  BY <1>1, <1>2, <1>4, NextRight
<1> HIDE DEF r
<1>6. RunTypes'
  <2>1. gen' \in Generator
    BY <1>3, <1>5 DEF GeneratedRightly
  <2> QED
    BY <1>3, <2>1 DEF RunTypes, Generator
<1>7. Bookkeeping'
  BY <1>3 DEF Bookkeeping, Running
<1>8. FamiliesKnown'
  BY <1>3, <1>4, <1>5 DEF FamiliesKnown, Running, GeneratedRightly, AllOn
<1>9. SnapshotsKnown'
  <2>1. gen.snapsOpen <= Len(snaps) /\ gen.snapsOpen \in Nat
    BY <1>1, <1>3 DEF SnapshotsKnown, Running, Generator
  <2>2. Len(snaps) \in Nat
    BY DEF RunTypes, IsSequence
  <2>3. gen'.snapsOpen \in Nat
    BY <1>3, <1>5 DEF GeneratedRightly, Generator
  <2> QED
    BY <1>3, <1>5, <2>1, <2>2, <2>3 DEF SnapshotsKnown, GeneratedRightly
<1> QED
  BY <1>6, <1>7, <1>8, <1>9

LEMMA RunDurable == ASSUME RunInv, CallDurable PROVE RunInv'
<1> USE DEF RunInv
<1>1. /\ pc = "call" /\ pc' = "apply" /\ op.kind \in {"write", "create", "drop"}
      /\ db' = Carried(db, op) /\ trail' = Append(trail, db') /\ handles' = db'.live
      /\ UNCHANGED <<seed, gen, writes, ack>>
  BY DEF CallDurable, Durable
<1>2. IsSequence(trail') /\ Len(trail') = Len(trail) + 1
  BY <1>1, AppendSequence DEF RunTypes
<1>3. IsSequence(snaps') /\ Len(snaps') = Len(snaps)
  <2>1. CASE op.kind = "drop"
    <3>1. snaps' = [i \in DOMAIN snaps |-> [snaps[i] EXCEPT !.models.live = @ \ {op.family}]]
      BY <2>1 DEF CallDurable
    <3>2. DOMAIN snaps' = DOMAIN snaps /\ snaps' = [i \in DOMAIN snaps |-> snaps'[i]]
      BY <3>1
    <3> QED
      BY <3>2, MappedSequence DEF RunTypes
  <2>2. CASE op.kind # "drop"
    BY <2>2 DEF CallDurable, RunTypes
  <2> QED
    BY <2>1, <2>2
<1>4. RunTypes'
  BY <1>1, <1>2, <1>3 DEF RunTypes
<1>5. Bookkeeping'
  <2>1. Len(trail) \in Nat /\ writes \in Nat
    BY DEF RunTypes, IsSequence
  <2> QED
    BY <1>1, <1>2, <2>1 DEF Bookkeeping, Running
<1>6. "live" \in DOMAIN db'
      /\ db'.live = CASE op.kind = "create" -> db.live \cup {op.family}
                     [] op.kind = "drop"   -> db.live \ {op.family}
                     [] op.kind = "write"  -> db.live
  <2>1. "live" \in DOMAIN db
    BY <1>1 DEF FamiliesKnown, Running
  <2>2. CASE op.kind = "create"
    BY <1>1, <2>1, <2>2 DEF Carried
  <2>3. CASE op.kind = "drop"
    BY <1>1, <2>1, <2>3 DEF Carried
  <2>4. CASE op.kind = "write"
    BY <1>1, <2>1, <2>4 DEF Carried, DoWrite
  <2> QED
    BY <1>1, <2>2, <2>3, <2>4
<1>7. FamiliesKnown'
  BY <1>1, <1>6 DEF FamiliesKnown, Running
<1>8. SnapshotsKnown'
  BY <1>1, <1>3 DEF SnapshotsKnown, Running
<1> QED
  BY <1>4, <1>5, <1>7, <1>8

LEMMA RunApply == ASSUME RunInv, ApplyAndAck PROVE RunInv'
<1> USE DEF RunInv
<1>1. pc = "apply" /\ pc' = "loop" /\ writes' = writes + 1 /\ ack' = writes + 1
      /\ UNCHANGED <<seed, gen, handles, snaps, db, trail>>
  BY DEF ApplyAndAck
<1>2. RunTypes'
  BY <1>1 DEF RunTypes
<1>3. Bookkeeping'
  BY <1>1 DEF Bookkeeping, Running, RunTypes
<1>4. FamiliesKnown'
  BY <1>1 DEF FamiliesKnown, Running
<1>5. SnapshotsKnown'
  BY <1>1 DEF SnapshotsKnown, Running
<1> QED
  BY <1>2, <1>3, <1>4, <1>5

\* A call that writes nothing, and does with the snapshots what the generator
\* counted on.
LEMMA RunCall ==
  ASSUME RunInv, pc = "call", pc' \in {"loop", "runFailed"},
         op.kind \notin {"create", "drop", "write"},
         UNCHANGED <<seed, gen, handles, writes, ack, db, trail>>,
         IsSequence(snaps'), gen.snapsOpen <= Len(snaps')
  PROVE  RunInv'
<1> USE DEF RunInv
<1>1. RunTypes'
  BY DEF RunTypes
<1>2. Bookkeeping'
  BY DEF Bookkeeping, Running
<1>3. FamiliesKnown'
  BY DEF FamiliesKnown, Running
<1>4. SnapshotsKnown'
  BY DEF SnapshotsKnown, Running
<1> QED
  BY <1>1, <1>2, <1>3, <1>4

LEMMA RunInvStep == RunInv /\ [Next]_vars => RunInv'
<1> SUFFICES ASSUME RunInv, [Next]_vars PROVE RunInv'
  OBVIOUS
<1>0. RunTypes
  BY DEF RunInv
<1>1. CASE Open
  BY <1>1, RunOpen
<1>2. CASE Generate
  BY <1>2, RunGenerate
<1>3. CASE CallDurable
  BY <1>3, RunDurable
<1>4. CASE ApplyAndAck
  BY <1>4, RunApply
<1>5. ASSUME pc = "call", op.kind \in {"walk", "compact", "snapTake", "snapCheck", "reopen"}
      PROVE  CASE op.kind = "snapTake"  -> gen.snapsOpen <= Len(snaps) + 1
               [] op.kind = "snapCheck" -> /\ op.id \in 0 .. gen.snapsOpen
                                           /\ gen.snapsOpen + 1 <= Len(snaps)
               [] op.kind = "reopen"    -> gen.snapsOpen = 0
               [] OTHER                 -> gen.snapsOpen <= Len(snaps)
  BY <1>5 DEF RunInv, SnapshotsKnown, Running
<1>6. CASE CallRead
  BY <1>0, <1>5, <1>6, RunCall DEF CallRead, After, RunTypes
<1>7. CASE CallCompact
  BY <1>0, <1>5, <1>7, RunCall DEF CallCompact, After, RunTypes
<1>8. CASE CallSnapTake
  <2>1. IsSequence(snaps') /\ Len(snaps') = Len(snaps) + 1
    BY <1>0, <1>8, AppendSequence DEF CallSnapTake, RunTypes
  <2> QED
    BY <1>5, <1>8, <2>1, RunCall DEF CallSnapTake, After
<1>9. CASE CallSnapCheck
  <2>1. Len(snaps) \in Nat /\ gen.snapsOpen \in Nat
    BY <1>0 DEF RunTypes, IsSequence
  <2>2. op.id \in 0 .. gen.snapsOpen /\ gen.snapsOpen + 1 <= Len(snaps)
    BY <1>5, <1>9 DEF CallSnapCheck
  <2>3. op.id + 1 \in 1 .. Len(snaps) /\ op.id < Len(snaps)
    BY <2>1, <2>2
  <2>4. snaps' = RemoveAt(snaps, op.id + 1)
    BY <1>9, <2>3 DEF CallSnapCheck
  <2>5. IsSequence(snaps') /\ Len(snaps') = Len(snaps) - 1
    BY <1>0, <2>3, <2>4, RemoveSequence DEF RunTypes
  <2>6. gen.snapsOpen <= Len(snaps')
    BY <2>1, <2>2, <2>5
  <2> QED
    BY <1>9, <2>5, <2>6, RunCall DEF CallSnapCheck, After
<1>10. CASE CallReopen
  <2>1. snaps' = <<>> /\ gen.snapsOpen = 0
    BY <1>5, <1>10 DEF CallReopen
  <2>2. IsSequence(snaps') /\ Len(snaps') = 0
    BY <2>1, EmptySeq DEF IsSequence
  <2> QED
    BY <1>10, <2>1, <2>2, RunCall DEF CallReopen, After
<1>11. CASE Finish
  <2>1. IsSequence(<<>>)
    BY EmptySeq DEF IsSequence
  <2>2. RunTypes'
    BY <1>0, <1>11, <2>1 DEF Finish, RunTypes
  <2> QED
    BY <1>11, <2>2, AfterTheRun DEF Finish, Running
<1>12. CASE Crash
  <2>1. IsSequence(<<>>)
    BY EmptySeq DEF IsSequence
  <2>2. NewGen \in Generator
    BY DEF NewGen, Generator, Families
  <2>3. RunTypes'
    BY <1>0, <1>12, <2>1, <2>2 DEF Crash, RunTypes, Generator
  <2> QED
    BY <1>12, <2>3, AfterTheRun DEF Crash, Running
<1>13. CASE Attempt
  <2>1. pc' \in {"recover", "touch", "recoveryFailed"} /\ UNCHANGED <<seed, gen, snaps, writes, ack, trail>>
    BY <1>13 DEF Attempt
  <2>2. RunTypes'
    BY <1>0, <2>1 DEF RunTypes
  <2> QED
    BY <2>1, <2>2, AfterTheRun DEF Running
<1>14. CASE Touch
  <2>1. RunTypes'
    BY <1>0, <1>14 DEF Touch, RunTypes
  <2> QED
    BY <1>14, <2>1, AfterTheRun DEF Touch, Running
<1>15. CASE Recheck
  <2>1. pc' \in {"passed", "recoveryFailed"} /\ UNCHANGED <<seed, gen, snaps, writes, ack, trail>>
    BY <1>15 DEF Recheck
  <2>2. RunTypes'
    BY <1>0, <2>1 DEF RunTypes
  <2> QED
    BY <2>1, <2>2, AfterTheRun DEF Running
<1>16. CASE UNCHANGED vars
  BY <1>16 DEF vars, RunInv, RunTypes, Bookkeeping, FamiliesKnown, SnapshotsKnown
<1> QED
  BY <1>1, <1>2, <1>3, <1>4, <1>6, <1>7, <1>8, <1>9, <1>10, <1>11, <1>12,
     <1>13, <1>14, <1>15, <1>16 DEF Next

\* The run's books on writes, families and snapshots agree at every step of
\* RunScenario, through a crash and CheckRecovered.
THEOREM RunInvAlways == Spec => []RunInv
<1> QED
  BY RunInvInit, RunInvStep, PTL DEF Spec

\* RunScenario and WriteAck (conf_model.cc 812-819): the acknowledgement never
\* runs ahead of the database, and is at most one write behind.
THEOREM AckBrackets == Spec => []AckBracketsDb
<1>1. RunInv => AckBracketsDb
  BY DEF RunInv, Bookkeeping, Running, AckBracketsDb
<1> QED
  BY <1>1, RunInvInit, RunInvStep, PTL DEF Spec

\* DoWrite and Handle (conf_model.cc 650-722, 484-486): no generated write names
\* a family that the process has no handle of.
THEOREM WritesOnHandles == Spec => []WritesHitTheirFamily
<1>1. RunInv => WritesHitTheirFamily
  BY DEF RunInv, FamiliesKnown, Running, WritesHitTheirFamily
<1> QED
  BY <1>1, RunInvInit, RunInvStep, PTL DEF Spec

\* kOpSnapCheck (conf_model.cc 833-839): the snapshot to be checked is held,
\* through drops, which clear the generator's count, and openings.
THEOREM CheckedIsHeld == Spec => []SnapshotIsHeld
<1>1. RunInv => SnapshotIsHeld
  <2> SUFFICES ASSUME RunInv, pc = "call", op.kind = "snapCheck" PROVE op.id < Len(snaps)
    BY DEF SnapshotIsHeld
  <2>1. op.id \in 0 .. gen.snapsOpen /\ gen.snapsOpen + 1 <= Len(snaps)
    BY DEF RunInv, SnapshotsKnown, Running
  <2>2. Len(snaps) \in Nat /\ gen.snapsOpen \in Nat
    BY DEF RunInv, RunTypes, IsSequence
  <2> QED
    BY <2>1, <2>2
<1> QED
  BY <1>1, RunInvInit, RunInvStep, PTL DEF Spec

-----------------------------------------------------------------------------
\* The arithmetic of the merge operator: numbers below P, which stand for all
\* the numbers that differ from them by a multiple of P.

LEMMA SameResidue ==
  ASSUME NEW u \in Residue, NEW v \in Residue, NEW k \in Int, u = v + k * P
  PROVE  u = v
<1>1. P \in Nat /\ P >= 1 /\ u \in Int /\ v \in Int /\ u < P /\ v < P /\ u >= 0 /\ v >= 0
  BY DEF Residue
<1>2. \A j \in Int, p \in Nat : (j >= 1 => j * p >= p) /\ (j <= -1 => j * p <= -p)
  OBVIOUS
<1>3. (k >= 1 => k * P >= P) /\ (k <= -1 => k * P <= -P)
  BY <1>1, <1>2
<1>4. k * P \in Int
  BY <1>1
<1>5. ~(k >= 1) /\ ~(k <= -1)
  BY <1>1, <1>3, <1>4
<1>6. k = 0
  BY <1>5
<1> QED
  BY <1>1, <1>6

LEMMA MulRight ==
  ASSUME NEW a \in Residue, NEW b \in Residue
  PROVE  AffineMul(a, b) \in Residue /\ \E k \in Int : a * b = AffineMul(a, b) + k * P
<1> DEFINE r == a * b
           q == r \div (P + 1)
           u == r % (P + 1)
           s == u + q
<1>1. P \in Nat /\ P >= 1 /\ a \in Nat /\ b \in Nat /\ a <= P - 1 /\ b <= P - 1
  BY DEF Residue
<1>2. r \in Nat /\ r <= (P - 1) * (P - 1)
  <2>1. \A i, j, n \in Nat : i <= n /\ j <= n => i * j <= n * n /\ i * j \in Nat
    OBVIOUS
  <2>2. P - 1 \in Nat
    BY <1>1
  <2> QED
    BY <1>1, <2>1, <2>2
<1> HIDE DEF r
<1>3. q \in Nat /\ u \in 0 .. P /\ r = q * (P + 1) + u
  <2> DEFINE m == P + 1
  <2>1. m \in Int /\ m > 0 /\ r \in Int /\ r >= 0
    BY <1>1, <1>2
  <2> HIDE DEF m
  <2>2. r % m \in 0 .. m - 1
    BY <2>1
  <2>3. r % m = r - m * (r \div m)
    <3>1. \A i, j \in Int : j > 0 => i % j = i - j * (i \div j)
      OBVIOUS
    <3> QED
      BY <2>1, <3>1
  <2>4. r \div m \in Int
    BY <2>1
  <2>5. \A i \in Int : m > 0 /\ i < 0 => m * i <= -m
    BY <2>1
  <2>6. r \div m >= 0
    BY <2>1, <2>2, <2>3, <2>4, <2>5
  <2> QED
    BY <2>1, <2>2, <2>3, <2>4, <2>6, <1>1 DEF m
<1> HIDE DEF q, u
<1>4. q <= P - 1
  <2>1. \A n, m \in Nat : n >= m /\ m >= 1 => n * (m + 1) > (m - 1) * (m - 1)
    <3> TAKE n, m \in Nat
    <3> HAVE n >= m /\ m >= 1
    <3>1. n * (m + 1) >= m * (m + 1)
      OBVIOUS
    <3>2. m * (m + 1) > (m - 1) * (m - 1)
      OBVIOUS
    <3>3. n * (m + 1) \in Int /\ m * (m + 1) \in Int /\ (m - 1) * (m - 1) \in Int
      OBVIOUS
    <3> QED
      BY <3>1, <3>2, <3>3
  <2>2. ~(q >= P)
    <3> SUFFICES ASSUME q >= P PROVE FALSE
      OBVIOUS
    <3>1. q * (P + 1) > (P - 1) * (P - 1)
      BY <1>1, <1>3, <2>1
    <3>2. q * (P + 1) \in Int /\ (P - 1) * (P - 1) \in Int
      BY <1>1, <1>3
    <3> QED
      BY <1>1, <1>2, <1>3, <3>1, <3>2
  <2> QED
    BY <1>1, <1>3, <2>2
<1>5. s \in 0 .. 2 * P - 1
  BY <1>1, <1>3, <1>4
<1>6. r = s + q * P
  BY <1>1, <1>3
<1>7. AffineMul(a, b) = IF s >= P THEN s - P ELSE s
  BY DEF AffineMul, r, q, u
<1> HIDE DEF s
<1>8. CASE s >= P
  <2>1. AffineMul(a, b) = s - P /\ s - P \in Residue
    BY <1>1, <1>5, <1>7, <1>8 DEF Residue
  <2>2. r = (s - P) + (q + 1) * P /\ q + 1 \in Int
    BY <1>1, <1>3, <1>5, <1>6
  <2> QED
    BY <2>1, <2>2 DEF r
<1>9. CASE ~(s >= P)
  <2>1. AffineMul(a, b) = s /\ s \in Residue
    BY <1>1, <1>5, <1>7, <1>9 DEF Residue
  <2>2. q \in Int /\ a * b = s + q * P
    BY <1>3, <1>6 DEF r
  <2> QED
    BY <2>1, <2>2
<1> QED
  BY <1>8, <1>9

LEMMA AddRight ==
  ASSUME NEW a \in Residue, NEW b \in Residue
  PROVE  AffineAdd(a, b) \in Residue /\ \E k \in Int : a + b = AffineAdd(a, b) + k * P
<1>1. P \in Nat /\ P >= 1 /\ a \in Nat /\ b \in Nat /\ a <= P - 1 /\ b <= P - 1
  BY DEF Residue
<1>2. CASE a + b >= P
  <2>1. AffineAdd(a, b) = a + b - P /\ a + b - P \in Residue
    BY <1>1, <1>2 DEF AffineAdd, Residue
  <2>2. 1 \in Int /\ a + b = (a + b - P) + 1 * P
    BY <1>1
  <2> QED
    BY <2>1, <2>2
<1>3. CASE ~(a + b >= P)
  <2>1. AffineAdd(a, b) = a + b /\ a + b \in Residue
    BY <1>1, <1>3 DEF AffineAdd, Residue
  <2>2. 0 \in Int /\ a + b = (a + b) + 0 * P
    BY <1>1
  <2> QED
    BY <2>1, <2>2
<1> QED
  BY <1>2, <1>3

LEMMA ApplyRight ==
  ASSUME NEW x \in Residue, NEW o, o[1] \in Residue, o[2] \in Residue
  PROVE  /\ AffineApply(x, o) \in Residue
         /\ \E k \in Int : o[1] * x + o[2] = AffineApply(x, o) + k * P
<1> DEFINE m == AffineMul(o[1], x)
<1>1. PICK i \in Int : m \in Residue /\ o[1] * x = m + i * P
  BY MulRight
<1> HIDE DEF m
<1>2. PICK j \in Int : AffineAdd(m, o[2]) \in Residue /\ m + o[2] = AffineAdd(m, o[2]) + j * P
  BY <1>1, AddRight
<1>3. AffineApply(x, o) = AffineAdd(m, o[2])
  BY DEF AffineApply, m
<1> DEFINE z == AffineAdd(m, o[2])
<1>5. z \in Residue /\ m + o[2] = z + j * P
  BY <1>2
<1> HIDE DEF z
<1>4. P \in Int /\ z \in Int /\ m \in Int /\ o[1] \in Int /\ o[2] \in Int /\ x \in Int
  <2>1. \A y \in Residue : y \in Int
    BY DEF Residue
  <2> QED
    BY <1>1, <1>5, <2>1
<1>6. o[1] * x + o[2] = z + (i + j) * P
  <2>1. o[1] * x + o[2] = (m + i * P) + o[2]
    BY <1>1, <1>4
  <2>2. (m + i * P) + o[2] = (m + o[2]) + i * P
    BY <1>4
  <2>3. (m + o[2]) + i * P = (z + j * P) + i * P
    BY <1>5
  <2>4. (z + j * P) + i * P = z + (i + j) * P
    BY <1>4
  <2> QED
    BY <2>1, <2>2, <2>3, <2>4
<1>7. i + j \in Int /\ AffineApply(x, o) = z
  BY <1>3 DEF z
<1> QED
  BY <1>5, <1>6, <1>7

LEMMA OperandParts ==
  ASSUME NEW o \in Operands
  PROVE  o = <<o[1], o[2]>> /\ o[1] \in Residue /\ o[2] \in Residue
BY DEF Operands, Residue

LEMMA MergedOperand ==
  ASSUME NEW l \in Operands, NEW r \in Operands
  PROVE  PartialMerge(l, r) \in Operands
<1>1. l[1] \in Residue /\ l[2] \in Residue /\ r[1] \in Residue /\ r[2] \in Residue
  BY OperandParts
<1>2. AffineMul(r[1], l[1]) \in Residue /\ AffineMul(r[1], l[2]) \in Residue
  BY <1>1, MulRight
<1>3. AffineAdd(AffineMul(r[1], l[2]), r[2]) \in Residue
  BY <1>1, <1>2, AddRight
<1> QED
  BY <1>2, <1>3 DEF PartialMerge, Operands, Residue

\* Two operands composed do what the two do one after the other.
LEMMA ComposedIsBoth ==
  ASSUME NEW x \in Residue, NEW l \in Operands, NEW r \in Operands
  PROVE  AffineApply(x, PartialMerge(l, r)) = AffineApply(AffineApply(x, l), r)
<1> DEFINE o == PartialMerge(l, r)
           y == AffineApply(x, l)
           z == AffineApply(y, r)
           w == AffineApply(x, o)
<1>1. /\ l[1] \in Residue /\ l[2] \in Residue /\ r[1] \in Residue /\ r[2] \in Residue
      /\ o \in Operands /\ o[1] \in Residue /\ o[2] \in Residue
  BY OperandParts, MergedOperand
<1>2. o[1] = AffineMul(r[1], l[1]) /\ o[2] = AffineAdd(AffineMul(r[1], l[2]), r[2])
  BY DEF PartialMerge
<1>3. PICK a \in Int : y \in Residue /\ l[1] * x + l[2] = y + a * P
  BY <1>1, ApplyRight
<1> HIDE DEF o, y
<1>4. PICK b \in Int : z \in Residue /\ r[1] * y + r[2] = z + b * P
  BY <1>1, <1>3, ApplyRight
<1>5. PICK c \in Int : w \in Residue /\ o[1] * x + o[2] = w + c * P
  BY <1>1, ApplyRight
<1>6. PICK d \in Int : r[1] * l[1] = o[1] + d * P
  <2>1. PICK i, j : i = r[1] /\ j = l[1]
    OBVIOUS
  <2>2. i \in Residue /\ j \in Residue /\ o[1] = AffineMul(i, j)
    BY <1>1, <1>2, <2>1
  <2>3. PICK k \in Int : i * j = AffineMul(i, j) + k * P
    BY <2>2, MulRight
  <2>4. r[1] * l[1] = o[1] + k * P
    BY <2>1, <2>2, <2>3
  <2> QED
    BY <2>4
<1>7. PICK e \in Int : r[1] * l[2] + r[2] = o[2] + e * P
  <2> DEFINE m == AffineMul(r[1], l[2])
  <2>1. PICK i \in Int : m \in Residue /\ r[1] * l[2] = m + i * P
    <3>1. PICK h, j : h = r[1] /\ j = l[2]
      OBVIOUS
    <3>2. h \in Residue /\ j \in Residue /\ m = AffineMul(h, j)
      BY <1>1, <3>1
    <3>3. PICK k \in Int : h * j = AffineMul(h, j) + k * P
      BY <3>2, MulRight
    <3>4. m \in Residue
      BY <3>2, MulRight
    <3> QED
      BY <3>1, <3>2, <3>3, <3>4
  <2> HIDE DEF m
  <2>2. PICK j \in Int : m + r[2] = AffineAdd(m, r[2]) + j * P
    BY <1>1, <2>1, AddRight
  <2>3. o[2] = AffineAdd(m, r[2])
    BY <1>2 DEF m
  <2>4. m \in Int /\ r[2] \in Int /\ o[2] \in Int /\ P \in Int /\ i + j \in Int
    <3>1. \A n \in Residue : n \in Int
      BY DEF Residue
    <3> QED
      BY <1>1, <2>1, <3>1
  <2>5. r[1] * l[2] + r[2] = (m + r[2]) + i * P
    BY <2>1, <2>4
  <2>6. (m + r[2]) + i * P = o[2] + (i + j) * P
    <3>1. m + r[2] = o[2] + j * P
      BY <2>2, <2>3
    <3>2. (o[2] + j * P) + i * P = o[2] + (i + j) * P
      BY <2>4
    <3> QED
      BY <3>1, <3>2
  <2> QED
    BY <2>4, <2>5, <2>6
<1> HIDE DEF z, w
<1>8. \A A, B, C, D, x1, y1, z1, w1, o1, o2, a1, b1, c1, d1, e1, p1 \in Int :
        /\ A * x1 + B = y1 + a1 * p1 /\ C * y1 + D = z1 + b1 * p1
        /\ o1 * x1 + o2 = w1 + c1 * p1 /\ C * A = o1 + d1 * p1 /\ C * B + D = o2 + e1 * p1
        => w1 = z1 + (b1 + C * a1 - d1 * x1 - e1 - c1) * p1
  <2> TAKE A, B, C, D, x1, y1, z1, w1, o1, o2, a1, b1, c1, d1, e1, p1 \in Int
  <2>0. HAVE /\ A * x1 + B = y1 + a1 * p1 /\ C * y1 + D = z1 + b1 * p1
             /\ o1 * x1 + o2 = w1 + c1 * p1 /\ C * A = o1 + d1 * p1 /\ C * B + D = o2 + e1 * p1
  <2>1. y1 = A * x1 + B - a1 * p1 /\ o1 = C * A - d1 * p1 /\ o2 = C * B + D - e1 * p1
    BY <2>0
  <2>2. w1 = o1 * x1 + o2 - c1 * p1 /\ z1 = C * y1 + D - b1 * p1
    BY <2>0
  <2>3. w1 = (C * A - d1 * p1) * x1 + (C * B + D - e1 * p1) - c1 * p1
    BY <2>1, <2>2
  <2>4. z1 = C * (A * x1 + B - a1 * p1) + D - b1 * p1
    BY <2>1, <2>2
  <2>5. (C * A - d1 * p1) * x1 = C * A * x1 - d1 * x1 * p1
    OBVIOUS
  <2>6. C * (A * x1 + B - a1 * p1) = C * A * x1 + C * B - C * a1 * p1
    OBVIOUS
  <2>7. (b1 + C * a1 - d1 * x1 - e1 - c1) * p1
          = b1 * p1 + C * a1 * p1 - d1 * x1 * p1 - e1 * p1 - c1 * p1
    OBVIOUS
  <2>8. /\ w1 = C * A * x1 - d1 * x1 * p1 + (C * B + D - e1 * p1) - c1 * p1
        /\ z1 = C * A * x1 + C * B - C * a1 * p1 + D - b1 * p1
    BY <2>3, <2>4, <2>5, <2>6
  <2> DEFINE s1 == C * A * x1
             s2 == d1 * x1 * p1
             s3 == C * B
             s4 == e1 * p1
             s5 == c1 * p1
             s6 == C * a1 * p1
             s7 == b1 * p1
             s8 == (b1 + C * a1 - d1 * x1 - e1 - c1) * p1
  <2>9. /\ s1 \in Int /\ s2 \in Int /\ s3 \in Int /\ s4 \in Int
        /\ s5 \in Int /\ s6 \in Int /\ s7 \in Int
    OBVIOUS
  <2>10. /\ s8 = s7 + s6 - s2 - s4 - s5
         /\ w1 = s1 - s2 + (s3 + D - s4) - s5
         /\ z1 = s1 + s3 - s6 + D - s7
    BY <2>7, <2>8
  <2> HIDE DEF s1, s2, s3, s4, s5, s6, s7, s8
  <2>11. s1 - s2 + (s3 + D - s4) - s5 = (s1 + s3 - s6 + D - s7) + (s7 + s6 - s2 - s4 - s5)
    BY <2>9
  <2>12. w1 = z1 + s8
    BY <2>10, <2>11, Zenon
  <2> QED
    BY <2>12 DEF s8
<1>9. /\ l[1] \in Int /\ l[2] \in Int /\ r[1] \in Int /\ r[2] \in Int
      /\ o[1] \in Int /\ o[2] \in Int
      /\ x \in Int /\ y \in Int /\ z \in Int /\ w \in Int /\ P \in Int
      /\ b + r[1] * a - d * x - e - c \in Int
  <2>1. \A n \in Residue : n \in Int
    BY DEF Residue
  <2>2. /\ l[1] \in Int /\ l[2] \in Int /\ r[1] \in Int /\ r[2] \in Int
        /\ o[1] \in Int /\ o[2] \in Int
        /\ x \in Int /\ y \in Int /\ z \in Int /\ w \in Int /\ P \in Int
    <3>1. l[1] \in Int /\ l[2] \in Int /\ r[1] \in Int /\ r[2] \in Int
      BY <1>1, <2>1
    <3>2. o[1] \in Int /\ o[2] \in Int
      BY <1>1, <2>1
    <3>3. x \in Int /\ y \in Int /\ z \in Int /\ w \in Int
      BY <1>3, <1>4, <1>5, <2>1
    <3>4. P \in Int
      OBVIOUS
    <3> QED
      BY <3>1, <3>2, <3>3, <3>4
  <2>3. \A i1, i2, i3, i4, i5, i6, i7 \in Int : i1 + i2 * i3 - i4 * i5 - i6 - i7 \in Int
    OBVIOUS
  <2>4. r[1] \in Int /\ x \in Int
    BY <2>2
  <2>5. b + r[1] * a - d * x - e - c \in Int
    <3> PICK i : i = r[1]
      OBVIOUS
    <3> QED
      BY <2>3, <2>4
  <2> QED
    BY <2>2, <2>5
<1>10. w = z + (b + r[1] * a - d * x - e - c) * P
  <2> HIDE <1>8
  <2> DEFINE A == l[1]
             B == l[2]
             C == r[1]
             D == r[2]
             o1 == o[1]
             o2 == o[2]
  <2>1. /\ A * x + B = y + a * P /\ C * y + D = z + b * P
        /\ o1 * x + o2 = w + c * P /\ C * A = o1 + d * P /\ C * B + D = o2 + e * P
    BY <1>3, <1>4, <1>5, <1>6, <1>7
  <2>2. /\ A \in Int /\ B \in Int /\ C \in Int /\ D \in Int /\ o1 \in Int /\ o2 \in Int
        /\ x \in Int /\ y \in Int /\ z \in Int /\ w \in Int /\ P \in Int
    BY <1>9
  <2> HIDE DEF A, B, C, D, o1, o2
  <2>3. w = z + (b + C * a - d * x - e - c) * P
    BY <1>8, <2>1, <2>2
  <2> QED
    BY <2>3 DEF C
<1>11. w = z
  <2> DEFINE k == b + r[1] * a - d * x - e - c
  <2>1. w = z + k * P /\ k \in Int
    BY <1>9, <1>10
  <2> HIDE DEF k
  <2> QED
    BY <1>4, <1>5, <2>1, SameResidue
<1> QED
  BY <1>11 DEF w, z, o, y

\* The number on the way through the operands.
AppliedBy(g, x, ops) ==
  /\ g[0] = x
  /\ \A i \in 1 .. Len(ops) : g[i] = AffineApply(g[i - 1], ops[i])
  /\ Applied(x, ops) = g[Len(ops)]

LEMMA AppliedRuns ==
  ASSUME NEW x, NEW ops, Len(ops) \in Nat
  PROVE  \E g : AppliedBy(g, x, ops)
<1> DEFINE Made(g, m) == g = [i \in 0 .. m |-> IF i = 0 THEN x ELSE AffineApply(g[i - 1], ops[i])]
           Reached[i \in 0 .. Len(ops)] == IF i = 0 THEN x ELSE AffineApply(Reached[i - 1], ops[i])
           Missing == {m \in Nat : ~\E g : Made(g, m)}
<1>1. Missing = {}
  <2> SUFFICES ASSUME Missing # {} PROVE FALSE
    OBVIOUS
  <2>1. PICK m \in Missing : \A k \in Missing : m <= k
    <3>1. Missing \in SUBSET Nat
      OBVIOUS
    <3> HIDE DEF Missing
    <3> QED
      BY <3>1, LeastElement
  <2>2. m \in Nat /\ ~\E g : Made(g, m)
    OBVIOUS
  <2>3. m # 0
    <3>1. Made([i \in 0 .. 0 |-> x], 0)
      OBVIOUS
    <3> HIDE DEF Made
    <3> QED
      BY <2>2, <3>1
  <2>4. m - 1 \in Nat /\ m - 1 \notin Missing
    <3> HIDE DEF Missing
    <3> QED
      BY <2>1, <2>2, <2>3
  <2>5. PICK g : Made(g, m - 1)
    BY <2>4
  <2> DEFINE h == [i \in 0 .. m |-> IF i < m THEN g[i] ELSE AffineApply(g[m - 1], ops[m])]
  <2>6. ASSUME NEW i \in 0 .. m
        PROVE  h[i] = IF i = 0 THEN x ELSE AffineApply(h[i - 1], ops[i])
    <3>1. CASE i = m
      <4>1. h[i] = AffineApply(g[m - 1], ops[m]) /\ h[i - 1] = g[m - 1]
        BY <2>2, <2>3, <3>1
      <4> HIDE DEF h
      <4> QED
        BY <2>3, <3>1, <4>1
    <3>2. CASE i < m
      <4>1. i \in 0 .. m - 1 /\ (i # 0 => i - 1 \in 0 .. m /\ i - 1 < m)
        BY <2>2, <3>2
      <4>2. g[i] = IF i = 0 THEN x ELSE AffineApply(g[i - 1], ops[i])
        BY <2>5, <4>1
      <4>3. h[i] = g[i] /\ (i # 0 => h[i - 1] = g[i - 1])
        BY <3>2, <4>1
      <4> HIDE DEF h
      <4> QED
        BY <4>2, <4>3
    <3> QED
      BY <2>2, <3>1, <3>2
  <2>7. Made(h, m)
    <3>1. h = [i \in 0 .. m |-> h[i]]
      OBVIOUS
    <3> HIDE DEF h
    <3> QED
      BY <2>6, <3>1
  <2> HIDE DEF Made, h
  <2> QED
    BY <2>2, <2>7
<1>2. \E g : Made(g, Len(ops))
  BY <1>1
<1>3. Applied(x, ops) = Reached[Len(ops)]
  BY DEF Applied
<1>4. Reached = [i \in 0 .. Len(ops) |-> IF i = 0 THEN x ELSE AffineApply(Reached[i - 1], ops[i])]
  <2>1. \E g : g = [i \in 0 .. Len(ops) |-> IF i = 0 THEN x ELSE AffineApply(g[i - 1], ops[i])]
    BY <1>2, Zenon
  <2> HIDE <1>1, <1>2, <1>3
  <2> QED
    BY <2>1, Zenon
<1> HIDE DEF Reached
<1>5. Reached[0] = x
  <2>1. 0 \in 0 .. Len(ops)
    OBVIOUS
  <2> QED
    BY <1>4, <2>1, Zenon
<1>6. \A i \in 1 .. Len(ops) : Reached[i] = AffineApply(Reached[i - 1], ops[i])
  <2> TAKE i \in 1 .. Len(ops)
  <2>1. i \in 0 .. Len(ops) /\ i # 0
    OBVIOUS
  <2> QED
    BY <1>4, <2>1, Zenon
<1>7. AppliedBy(Reached, x, ops)
  BY <1>3, <1>5, <1>6, Zenon DEF AppliedBy
<1> QED
  BY <1>7

LEMMA AppliedIs ==
  ASSUME NEW x, NEW ops, Len(ops) \in Nat, NEW g,
         g[0] = x, \A i \in 1 .. Len(ops) : g[i] = AffineApply(g[i - 1], ops[i])
  PROVE  Applied(x, ops) = g[Len(ops)]
<1>0. PICK h : AppliedBy(h, x, ops)
  BY AppliedRuns
<1>1. /\ h[0] = x
      /\ \A i \in 1 .. Len(ops) : h[i] = AffineApply(h[i - 1], ops[i])
      /\ Applied(x, ops) = h[Len(ops)]
  BY <1>0 DEF AppliedBy
<1> DEFINE T == {i \in Nat : g[i] = h[i]}
<1>2. 0 \in T
  BY <1>1
<1>3. ASSUME NEW i \in 1 .. Len(ops), i - 1 \in T PROVE i \in T
  <2>1. g[i] = AffineApply(g[i - 1], ops[i]) /\ h[i] = AffineApply(h[i - 1], ops[i])
    BY <1>1
  <2>2. g[i - 1] = h[i - 1] /\ i \in Nat
    BY <1>3
  <2> QED
    BY <2>1, <2>2
<1>4. \A i \in 0 .. Len(ops) : i \in T
  <2> HIDE DEF T
  <2> QED
    BY <1>2, <1>3, UpTo
<1> QED
  BY <1>1, <1>4

LEMMA AppliedResidue ==
  ASSUME NEW x \in Residue, NEW ops \in Seq(Operands)
  PROVE  Applied(x, ops) \in Residue
<1>1. Len(ops) \in Nat /\ \A i \in 1 .. Len(ops) : ops[i] \in Operands
  OBVIOUS
<1>0. PICK h : AppliedBy(h, x, ops)
  BY <1>1, AppliedRuns
<1>2. /\ h[0] = x
      /\ \A i \in 1 .. Len(ops) : h[i] = AffineApply(h[i - 1], ops[i])
      /\ Applied(x, ops) = h[Len(ops)]
  BY <1>0 DEF AppliedBy
<1> DEFINE T == {i \in Nat : h[i] \in Residue}
<1>3. 0 \in T
  BY <1>2
<1>4. ASSUME NEW i \in 1 .. Len(ops), i - 1 \in T PROVE i \in T
  <2>1. h[i] = AffineApply(h[i - 1], ops[i]) /\ h[i - 1] \in Residue /\ i \in Nat
    BY <1>1, <1>2, <1>4
  <2>2. ops[i][1] \in Residue /\ ops[i][2] \in Residue
    BY <1>1, OperandParts
  <2>3. h[i] \in Residue
    BY <2>1, <2>2, ApplyRight
  <2> QED
    BY <2>1, <2>3
<1>5. \A i \in 0 .. Len(ops) : i \in T
  <2> HIDE DEF T
  <2> QED
    BY <1>1, <1>3, <1>4, UpTo
<1> QED
  BY <1>1, <1>2, <1>5

LEMMA AppliedNone == \A x : Applied(x, <<>>) = x
<1> SUFFICES ASSUME NEW x PROVE Applied(x, <<>>) = x
  OBVIOUS
<1>1. Len(<<>>) = 0
  OBVIOUS
<1>2. PICK h : AppliedBy(h, x, <<>>)
  BY <1>1, AppliedRuns
<1> QED
  BY <1>1, <1>2 DEF AppliedBy

LEMMA AppliedOne ==
  ASSUME NEW x, NEW o
  PROVE  Applied(x, <<o>>) = AffineApply(x, o)
<1> PICK ops : ops = <<o>>
  OBVIOUS
<1>1. Len(ops) = 1 /\ ops[1] = o /\ Len(ops) \in Nat /\ 1 - 1 = 0 /\ 1 \in 1 .. Len(ops)
  OBVIOUS
<1>0. PICK h : AppliedBy(h, x, ops)
  BY <1>1, AppliedRuns
<1>2. /\ h[0] = x
      /\ \A i \in 1 .. Len(ops) : h[i] = AffineApply(h[i - 1], ops[i])
      /\ Applied(x, ops) = h[Len(ops)]
  BY <1>0 DEF AppliedBy
<1>3. h[1] = AffineApply(h[1 - 1], ops[1])
  BY <1>1, <1>2
<1> QED
  BY <1>1, <1>2, <1>3

\* Operands in two parts: those of the first, then those of the second.
LEMMA AppliedParts ==
  ASSUME NEW x, NEW a \in Seq(Operands), NEW b \in Seq(Operands)
  PROVE  Applied(x, a \o b) = Applied(Applied(x, a), b)
<1> DEFINE ab == a \o b
<1>1. /\ Len(a) \in Nat /\ Len(b) \in Nat /\ ab \in Seq(Operands) /\ Len(ab) = Len(a) + Len(b)
      /\ \A i \in 1 .. Len(a) + Len(b) : ab[i] = IF i <= Len(a) THEN a[i] ELSE b[i - Len(a)]
  BY ConcatProperties
<1> HIDE DEF ab
<1>11. PICK g : AppliedBy(g, x, a)
  BY <1>1, AppliedRuns
<1>2. /\ g[0] = x
      /\ \A i \in 1 .. Len(a) : g[i] = AffineApply(g[i - 1], a[i])
      /\ Applied(x, a) = g[Len(a)]
  BY <1>11 DEF AppliedBy
<1>12. PICK h : AppliedBy(h, Applied(x, a), b)
  BY <1>1, AppliedRuns
<1>3. /\ h[0] = Applied(x, a)
      /\ \A i \in 1 .. Len(b) : h[i] = AffineApply(h[i - 1], b[i])
      /\ Applied(Applied(x, a), b) = h[Len(b)]
  BY <1>12 DEF AppliedBy
<1> DEFINE f == [i \in 0 .. Len(a) + Len(b) |-> IF i <= Len(a) THEN g[i] ELSE h[i - Len(a)]]
<1>4. f[0] = x
  BY <1>1, <1>2
<1>5. ASSUME NEW i \in 1 .. Len(ab) PROVE f[i] = AffineApply(f[i - 1], ab[i])
  <2>1. i \in 1 .. Len(a) + Len(b) /\ i \in Int /\ i - 1 \in 0 .. Len(a) + Len(b)
    BY <1>1
  <2>2. CASE i <= Len(a)
    <3>1. f[i] = g[i] /\ f[i - 1] = g[i - 1] /\ ab[i] = a[i] /\ i \in 1 .. Len(a)
      BY <1>1, <2>1, <2>2
    <3> HIDE DEF f
    <3> QED
      BY <1>2, <3>1
  <2>3. CASE i = Len(a) + 1
    <3>0. i - Len(a) = 1 /\ i - 1 = Len(a) /\ Len(b) >= 1 /\ ~(i <= Len(a))
      BY <1>1, <2>1, <2>3
    <3>1. f[i] = h[1] /\ f[i - 1] = g[Len(a)] /\ ab[i] = b[1] /\ 1 \in 1 .. Len(b)
      <4>1. f[i] = h[1]
        BY <2>1, <3>0
      <4>2. f[i - 1] = g[Len(a)]
        BY <1>1, <2>1, <3>0
      <4> HIDE DEF f
      <4>3. ab[i] = b[1]
        BY <1>1, <2>1, <3>0
      <4> QED
        BY <1>1, <3>0, <4>1, <4>2, <4>3
    <3>2. h[1] = AffineApply(h[0], b[1])
      BY <1>3, <3>1
    <3> HIDE DEF f
    <3> QED
      BY <1>2, <1>3, <3>1, <3>2
  <2>4. CASE i > Len(a) + 1
    <3>1. i - Len(a) \in 1 .. Len(b) /\ (i - 1) - Len(a) = (i - Len(a)) - 1
      BY <1>1, <2>1, <2>4
    <3>2. f[i] = h[i - Len(a)] /\ f[i - 1] = h[(i - Len(a)) - 1] /\ ab[i] = b[i - Len(a)]
      BY <1>1, <2>1, <2>4, <3>1
    <3> HIDE DEF f
    <3> QED
      BY <1>3, <3>1, <3>2
  <2> HIDE DEF f
  <2> QED
    BY <1>1, <2>1, <2>2, <2>3, <2>4
<1>6. Applied(x, ab) = f[Len(ab)]
  <2> HIDE DEF f
  <2>1. Len(ab) \in Nat
    BY <1>1
  <2> QED
    BY <1>4, <1>5, <2>1, AppliedIs
<1>7. f[Len(ab)] = h[Len(b)]
  <2>1. CASE Len(b) = 0
    <3>1. f[Len(ab)] = g[Len(a)]
      BY <1>1, <2>1
    <3> QED
      BY <1>2, <1>3, <2>1, <3>1
  <2>2. CASE Len(b) > 0
    <3>1. Len(ab) \in 0 .. Len(a) + Len(b) /\ ~(Len(ab) <= Len(a)) /\ Len(ab) - Len(a) = Len(b)
      BY <1>1, <2>2
    <3> QED
      BY <3>1
  <2> QED
    BY <1>1, <2>1, <2>2
<1> QED
  BY <1>3, <1>6, <1>7 DEF ab

\* Two neighbours composed before the operands are applied.
LEMMA NeighbourComposed ==
  ASSUME NEW x \in Residue, NEW ops \in Seq(Operands), NEW i \in 1 .. Len(ops) - 1
  PROVE  Applied(x, SubSeq(ops, 1, i - 1)
                      \o <<PartialMerge(ops[i], ops[i + 1])>>
                      \o SubSeq(ops, i + 2, Len(ops)))
           = Applied(x, ops)
<1> DEFINE a == SubSeq(ops, 1, i - 1)
           c == SubSeq(ops, i + 2, Len(ops))
           l == ops[i]
           r == ops[i + 1]
           m == PartialMerge(l, r)
<1>1. /\ Len(ops) \in Nat /\ i \in 1 .. Len(ops) /\ i + 1 \in 1 .. Len(ops) /\ 1 \in 1 .. Len(ops)
      /\ i \in 1 .. Len(ops) /\ i \in Int
  OBVIOUS
<1>2. a \in Seq(Operands) /\ c \in Seq(Operands) /\ l \in Operands /\ r \in Operands
  <2>1. \A j \in 1 .. Len(ops) : ops[j] \in Operands
    OBVIOUS
  <2>2. 1 \in Int /\ i - 1 \in Int /\ i + 2 \in Int /\ Len(ops) \in Int
        /\ (\A j \in 1 .. i - 1 : ops[j] \in Operands)
        /\ (\A j \in i + 2 .. Len(ops) : ops[j] \in Operands)
    BY <1>1, <2>1
  <2>3. a \in Seq(Operands) /\ c \in Seq(Operands)
    BY <2>2, SubSeqProperties
  <2> QED
    BY <1>1, <2>1, <2>3
<1>3. m \in Operands /\ <<m>> \in Seq(Operands) /\ <<l>> \in Seq(Operands) /\ <<r>> \in Seq(Operands)
  BY <1>2, MergedOperand
<1>4. ops = ((a \o <<l>>) \o <<r>>) \o c
  <2>1. SubSeq(ops, 1, i) = a \o <<l>>
    <3>1. 1 \in 1 .. Len(ops) /\ i \in 1 .. Len(ops)
      BY <1>1
    <3> QED
      BY <3>1, SubSeqRecursiveSecond
  <2>2. SubSeq(ops, 1, i + 1) = SubSeq(ops, 1, i) \o <<r>>
    <3>1. PICK j : j = i + 1
      OBVIOUS
    <3>2. 1 \in 1 .. Len(ops) /\ j \in 1 .. Len(ops) /\ j - 1 = i
      BY <1>1, <3>1
    <3>3. SubSeq(ops, 1, j) = SubSeq(ops, 1, j - 1) \o <<ops[j]>>
      BY <3>2, SubSeqRecursiveSecond
    <3> QED
      BY <3>1, <3>2, <3>3
  <2>3. SubSeq(ops, 1, i + 1) \o c = ops
    <3>1. /\ 1 \in 1 .. Len(ops) + 1 /\ i + 1 \in 0 .. Len(ops) /\ 1 - 1 = 0
          /\ Len(ops) \in i + 1 .. Len(ops) /\ (i + 1) + 1 = i + 2
      BY <1>1
    <3>2. SubSeq(ops, 1, i + 1) \o SubSeq(ops, (i + 1) + 1, Len(ops)) = SubSeq(ops, 1, Len(ops))
      BY <3>1, ConcatAdjacentSubSeq
    <3>3. SubSeq(ops, 1, Len(ops)) = ops
      BY SubSeqFull
    <3> QED
      BY <3>1, <3>2, <3>3
  <2> QED
    BY <2>1, <2>2, <2>3
<1> HIDE DEF a, c, l, r, m
<1>5. /\ a \o <<l>> \in Seq(Operands) /\ (a \o <<l>>) \o <<r>> \in Seq(Operands)
      /\ a \o <<m>> \in Seq(Operands)
  BY <1>2, <1>3, ConcatProperties
<1>6. Applied(x, a) \in Residue
  BY <1>2, AppliedResidue
<1>0. ASSUME NEW s \in Seq(Operands), NEW o \in Operands
      PROVE  Applied(x, s \o <<o>>) = AffineApply(Applied(x, s), o)
  <2>1. PICK t : t = <<o>>
    OBVIOUS
  <2>2. t \in Seq(Operands)
    BY <2>1
  <2>3. Applied(x, s \o t) = Applied(Applied(x, s), t)
    BY <2>2, AppliedParts
  <2>4. Applied(Applied(x, s), <<o>>) = AffineApply(Applied(x, s), o)
    BY AppliedOne
  <2> QED
    BY <2>1, <2>3, <2>4
<1>7. Applied(x, (a \o <<l>>) \o <<r>>)
        = AffineApply(AffineApply(Applied(x, a), l), r)
  <2>1. Applied(x, (a \o <<l>>) \o <<r>>) = AffineApply(Applied(x, a \o <<l>>), r)
    BY <1>0, <1>2, <1>5
  <2>2. Applied(x, a \o <<l>>) = AffineApply(Applied(x, a), l)
    BY <1>0, <1>2
  <2> QED
    BY <2>1, <2>2
<1>8. Applied(x, a \o <<m>>) = AffineApply(Applied(x, a), m)
  BY <1>0, <1>2, <1>3
<1>9. AffineApply(Applied(x, a), m) = AffineApply(AffineApply(Applied(x, a), l), r)
  BY <1>2, <1>6, ComposedIsBoth DEF m
<1>10. Applied(x, (a \o <<m>>) \o c) = Applied(Applied(x, a \o <<m>>), c)
  BY <1>2, <1>5, AppliedParts
<1>11. Applied(x, ((a \o <<l>>) \o <<r>>) \o c) = Applied(Applied(x, (a \o <<l>>) \o <<r>>), c)
  BY <1>2, <1>5, AppliedParts
<1>12. Applied(x, (a \o <<m>>) \o c) = Applied(x, ops)
  BY <1>4, <1>7, <1>8, <1>9, <1>10, <1>11
<1> QED
  BY <1>12 DEF a, c, l, r, m

-----------------------------------------------------------------------------
\* What a read shows of an entry, however its operands have been folded.

Cells == {NoValue} \cup {<<v>> : v \in Values}
Entries == [base : Cells, ops : Seq(Operands)]

\* The number that a merge starts from, and the length it keeps.
StartOf(h, c) == IF c = NoValue THEN h ELSE c[1].x
LengthOf(c) == IF c = NoValue THEN 0 ELSE c[1].len

ValueOf(k, e) ==
  IF e.ops = <<>> THEN e.base ELSE <<AffineFullMerge(HashOfKey(k), e.base, e.ops)>>

LEMMA CellParts ==
  ASSUME NEW h \in Residue, NEW c \in Cells
  PROVE  StartOf(h, c) \in Residue /\ LengthOf(c) \in Nat
BY DEF Cells, Values, StartOf, LengthOf, NoValue

LEMMA FullMergeIs ==
  \A h, c, ops : AffineFullMerge(h, c, ops) =
    AffineMerged(Applied(StartOf(h, c), ops), LengthOf(c))
BY DEF AffineFullMerge, StartOf, LengthOf, NoValue

LEMMA MergedRight ==
  ASSUME NEW x \in Residue, NEW n \in Nat
  PROVE  /\ AffineMerged(x, n) \in Values
         /\ \A h : StartOf(h, <<AffineMerged(x, n)>>) = x
         /\ LengthOf(<<AffineMerged(x, n)>>) \in Nat
         /\ \A y : AffineMerged(y, LengthOf(<<AffineMerged(x, n)>>)) = AffineMerged(y, n)
<1>1. CASE n > Digits
  BY <1>1 DEF AffineMerged, Values, StartOf, LengthOf, NoValue
<1>2. CASE ~(n > Digits)
  BY <1>2 DEF AffineMerged, Values, StartOf, LengthOf, NoValue
<1> QED
  BY <1>1, <1>2

LEMMA FullMergeValue ==
  ASSUME NEW h \in Residue, NEW c \in Cells, NEW ops \in Seq(Operands)
  PROVE  AffineFullMerge(h, c, ops) \in Values /\ <<AffineFullMerge(h, c, ops)>> \in Cells
<1>1. AffineFullMerge(h, c, ops) \in Values
  BY CellParts, AppliedResidue, FullMergeIs, MergedRight
<1> QED
  BY <1>1 DEF Cells

\* Operands folded in two goes.
LEMMA FullMergeTwice ==
  ASSUME NEW h \in Residue, NEW c \in Cells, NEW a \in Seq(Operands), NEW b \in Seq(Operands)
  PROVE  AffineFullMerge(h, <<AffineFullMerge(h, c, a)>>, b) = AffineFullMerge(h, c, a \o b)
<1> DEFINE x == Applied(StartOf(h, c), a)
           v == AffineMerged(x, LengthOf(c))
<1>1. x \in Residue /\ LengthOf(c) \in Nat
  BY CellParts, AppliedResidue
<1>2. AffineFullMerge(h, c, a) = v
  BY FullMergeIs
<1>3. Applied(StartOf(h, c), a \o b) = Applied(x, b)
  BY AppliedParts
<1> HIDE DEF x
<1>4. StartOf(h, <<v>>) = x /\ \A y : AffineMerged(y, LengthOf(<<v>>)) = AffineMerged(y, LengthOf(c))
  BY <1>1, MergedRight
<1> HIDE DEF v
<1>5. AffineFullMerge(h, <<v>>, b) = AffineMerged(Applied(x, b), LengthOf(c))
  BY <1>4, FullMergeIs
<1>6. AffineFullMerge(h, c, a \o b) = AffineMerged(Applied(x, b), LengthOf(c))
  BY <1>3, FullMergeIs
<1> QED
  BY <1>2, <1>5, <1>6

\* Every way of folding the operands comes to the same.
LEMMA OneFolding ==
  ASSUME NEW h \in Residue, NEW c \in Cells, NEW ops \in Seq(Operands)
  PROVE  Foldings(h, c, ops) = {AffineFullMerge(h, c, ops)}
<1> DEFINE near(i) == SubSeq(ops, 1, i - 1)
                        \o <<PartialMerge(ops[i], ops[i + 1])>>
                        \o SubSeq(ops, i + 2, Len(ops))
           first(i) == AffineFullMerge(h, <<AffineFullMerge(h, c, SubSeq(ops, 1, i))>>,
                         SubSeq(ops, i + 1, Len(ops)))
<1>1. ASSUME NEW i \in 1 .. Len(ops) - 1
      PROVE  AffineFullMerge(h, c, near(i)) = AffineFullMerge(h, c, ops)
  <2>1. StartOf(h, c) \in Residue
    BY CellParts
  <2>2. Applied(StartOf(h, c), near(i)) = Applied(StartOf(h, c), ops)
    BY <2>1, NeighbourComposed
  <2> HIDE DEF near
  <2> QED
    BY <2>2, FullMergeIs
<1>2. ASSUME NEW i \in 1 .. Len(ops) - 1
      PROVE  first(i) = AffineFullMerge(h, c, ops)
  <2> DEFINE a == SubSeq(ops, 1, i)
             b == SubSeq(ops, i + 1, Len(ops))
  <2>1. Len(ops) \in Nat /\ i \in Int /\ 1 \in Int /\ i + 1 \in Int /\ Len(ops) \in Int
        /\ (\A j \in 1 .. i : ops[j] \in Operands)
        /\ (\A j \in i + 1 .. Len(ops) : ops[j] \in Operands)
    OBVIOUS
  <2>2. a \in Seq(Operands) /\ b \in Seq(Operands)
    BY <2>1, SubSeqProperties
  <2>3. a \o b = ops
    <3>1. 1 \in 1 .. Len(ops) + 1 /\ i \in 1 - 1 .. Len(ops) /\ Len(ops) \in i .. Len(ops)
      BY <2>1
    <3>2. a \o b = SubSeq(ops, 1, Len(ops))
      BY <3>1, ConcatAdjacentSubSeq
    <3> QED
      BY <3>2, SubSeqFull
  <2> HIDE DEF a, b
  <2>4. AffineFullMerge(h, <<AffineFullMerge(h, c, a)>>, b) = AffineFullMerge(h, c, ops)
    BY <2>2, <2>3, FullMergeTwice
  <2> QED
    BY <2>4 DEF a, b
<1> DEFINE v == AffineFullMerge(h, c, ops)
           A == {AffineFullMerge(h, c, near(i)) : i \in 1 .. Len(ops) - 1}
           B == {first(i) : i \in 1 .. Len(ops) - 1}
<1>3. Foldings(h, c, ops) = {v} \cup A \cup B
  BY DEF Foldings
<1> HIDE DEF near, first
<1>4. A \subseteq {v} /\ B \subseteq {v}
  BY <1>1, <1>2
<1> HIDE DEF A, B, v
<1>5. Foldings(h, c, ops) = {v}
  BY <1>3, <1>4
<1> QED
  BY <1>5 DEF v

LEMMA HashResidue == \A k \in Keys : HashOfKey(k) \in Residue
BY DEF Keys, HashOfKey, Residue

\* A read has one answer.
LEMMA OneAnswer ==
  ASSUME NEW k \in Keys, NEW e \in Entries
  PROVE  Reads(k, e) = {ValueOf(k, e)} /\ ValueOf(k, e) \in Cells
<1> DEFINE h == HashOfKey(k)
<1>1. h \in Residue /\ e.base \in Cells /\ e.ops \in Seq(Operands)
  BY HashResidue DEF Entries
<1>2. CASE e.ops = <<>>
  <2>1. ValueOf(k, e) = e.base
    BY <1>2 DEF ValueOf
  <2>2. CASE e.base = NoValue
    <3>1. e = Absent
      BY <1>2, <2>2 DEF Entries, Absent
    <3> QED
      BY <1>1, <2>1, <2>2, <3>1 DEF Reads
  <2>3. CASE e.base # NoValue
    <3>1. PICK v \in Values : e.base = <<v>>
      BY <1>1, <2>3 DEF Cells
    <3>2. e # Absent
      BY <2>3 DEF Absent
    <3> QED
      BY <1>1, <1>2, <2>1, <3>1, <3>2 DEF Reads
  <2> QED
    BY <2>2, <2>3
<1>3. CASE e.ops # <<>>
  <2> DEFINE v == AffineFullMerge(h, e.base, e.ops)
  <2>1. ValueOf(k, e) = <<v>>
    BY <1>3 DEF ValueOf
  <2>2. e # Absent
    BY <1>3 DEF Absent
  <2>3. Foldings(h, e.base, e.ops) = {v}
    BY <1>1, OneFolding
  <2>4. Reads(k, e) = {<<w>> : w \in Foldings(h, e.base, e.ops)}
    BY <1>3, <2>2 DEF Reads
  <2>5. <<v>> \in Cells
    BY <1>1, FullMergeValue
  <2> HIDE DEF v, h
  <2> QED
    BY <2>1, <2>3, <2>4, <2>5
<1> QED
  BY <1>2, <1>3

-----------------------------------------------------------------------------
\* Writes, on the database and on the models.

ModelsSet == [live : SUBSET Families, m : [Families -> [Keys -> Cells]]]
Tables == [Families -> [Keys -> Entries]]
DbSet == [exists : BOOLEAN, live : SUBSET Families, births : [Families -> Nat], m : Tables]

\* What a write makes of one entry, and of one cell.
EntryAfter(w, k, e) ==
  IF w.kind = "range" THEN IF w.id <= k /\ k < w.end THEN Absent ELSE e
  ELSE IF k # w.id THEN e
  ELSE IF w.kind = "put" THEN [base |-> <<w.value>>, ops |-> <<>>]
  ELSE IF w.kind = "delete" THEN Absent
  ELSE [e EXCEPT !.ops = Append(@, w.value)]

CellAfter(w, k, c) ==
  IF w.kind = "range" THEN IF w.id <= k /\ k < w.end THEN NoValue ELSE c
  ELSE IF k # w.id THEN c
  ELSE IF w.kind = "put" THEN <<w.value>>
  ELSE IF w.kind = "delete" THEN NoValue
  ELSE <<AffineFullMerge(HashOfKey(k), c, <<w.value>>)>>

LEMMA AbsentEntry == Absent \in Entries /\ \A k : ValueOf(k, Absent) = NoValue
<1>1. <<>> \in Seq(Operands)
  OBVIOUS
<1> QED
  BY <1>1 DEF Absent, Entries, Cells, ValueOf, NoValue

\* One more operand, on an entry and on what it shows.
LEMMA OneMore ==
  ASSUME NEW k \in Keys, NEW e \in Entries, NEW v \in Operands
  PROVE  /\ [e EXCEPT !.ops = Append(@, v)] \in Entries
         /\ ValueOf(k, [e EXCEPT !.ops = Append(@, v)])
              = <<AffineFullMerge(HashOfKey(k), ValueOf(k, e), <<v>>)>>
<1> DEFINE h == HashOfKey(k)
           a == Append(e.ops, v)
           e2 == [e EXCEPT !.ops = Append(@, v)]
<1>1. h \in Residue /\ e.base \in Cells /\ e.ops \in Seq(Operands)
  BY HashResidue DEF Entries
<1>2. a \in Seq(Operands) /\ a # <<>> /\ a = e.ops \o <<v>> /\ <<v>> \in Seq(Operands)
  <2>1. a \in Seq(Operands) /\ Len(a) = Len(e.ops) + 1 /\ Len(e.ops) \in Nat /\ <<v>> \in Seq(Operands)
    BY <1>1
  <2>2. a # <<>>
    BY <2>1
  <2>3. a = e.ops \o <<v>>
    BY <1>1, AppendIsConcat
  <2> QED
    BY <2>1, <2>2, <2>3
<1>3. e2 \in Entries /\ e2.base = e.base /\ e2.ops = a
  BY <1>1, <1>2 DEF Entries
<1> HIDE DEF e2, a
<1>4. ValueOf(k, e2) = <<AffineFullMerge(h, e.base, a)>>
  BY <1>2, <1>3 DEF ValueOf
<1>5. AffineFullMerge(h, e.base, a) = AffineFullMerge(h, ValueOf(k, e), <<v>>)
  <2>1. CASE e.ops = <<>>
    <3>1. a = <<v>>
      BY <1>1, <1>2, <2>1, ConcatEmptySeq
    <3> QED
      BY <2>1, <3>1 DEF ValueOf
  <2>2. CASE e.ops # <<>>
    <3>1. ValueOf(k, e) = <<AffineFullMerge(h, e.base, e.ops)>>
      BY <2>2 DEF ValueOf
    <3> PICK b : b = <<v>>
      OBVIOUS
    <3>2. b \in Seq(Operands) /\ a = e.ops \o b
      BY <1>2
    <3>3. AffineFullMerge(h, <<AffineFullMerge(h, e.base, e.ops)>>, b)
            = AffineFullMerge(h, e.base, e.ops \o b)
      BY <1>1, <3>2, FullMergeTwice
    <3> QED
      BY <3>1, <3>2, <3>3
  <2> QED
    BY <2>1, <2>2
<1> QED
  BY <1>3, <1>4, <1>5 DEF e2

LEMMA EntryWritten ==
  ASSUME NEW w, WriteOk(w), NEW k \in Keys, NEW e \in Entries
  PROVE  /\ EntryAfter(w, k, e) \in Entries
         /\ ValueOf(k, EntryAfter(w, k, e)) = CellAfter(w, k, ValueOf(k, e))
<1>0. w.kind \in {"put", "delete", "merge", "range"}
  BY DEF WriteOk
<1>1. CASE w.kind = "range"
  BY <1>1, AbsentEntry DEF EntryAfter, CellAfter
<1>2. CASE w.kind # "range" /\ k # w.id
  BY <1>2 DEF EntryAfter, CellAfter
<1>3. CASE w.kind = "put" /\ k = w.id
  <2> DEFINE e2 == [base |-> <<w.value>>, ops |-> <<>>]
  <2>1. EntryAfter(w, k, e) = e2 /\ CellAfter(w, k, ValueOf(k, e)) = <<w.value>>
    BY <1>3 DEF EntryAfter, CellAfter
  <2>2. <<w.value>> \in Cells /\ <<>> \in Seq(Operands)
    BY <1>3 DEF WriteOk, Cells
  <2>3. e2 \in Entries /\ ValueOf(k, e2) = <<w.value>>
    BY <2>2 DEF Entries, ValueOf
  <2> QED
    BY <2>1, <2>3
<1>4. CASE w.kind = "delete" /\ k = w.id
  BY <1>4, AbsentEntry DEF EntryAfter, CellAfter
<1>5. CASE w.kind = "merge" /\ k = w.id
  <2>1. w.value \in Operands
    BY <1>5 DEF WriteOk
  <2>2. /\ EntryAfter(w, k, e) = [e EXCEPT !.ops = Append(@, w.value)]
        /\ \A c : CellAfter(w, k, c) = <<AffineFullMerge(HashOfKey(k), c, <<w.value>>)>>
    BY <1>5 DEF EntryAfter, CellAfter
  <2> QED
    BY <2>1, <2>2, OneMore
<1> QED
  BY <1>0, <1>1, <1>2, <1>3, <1>4, <1>5

LEMMA CellWritten ==
  ASSUME NEW w, WriteOk(w), NEW k \in Keys, NEW c \in Cells
  PROVE  CellAfter(w, k, c) \in Cells
<1>0. w.kind \in {"put", "delete", "merge", "range"} /\ NoValue \in Cells
  BY DEF WriteOk, Cells
<1>1. CASE w.kind = "put"
  BY <1>0, <1>1 DEF CellAfter, WriteOk, Cells
<1>2. CASE w.kind \in {"delete", "range"}
  BY <1>0, <1>2 DEF CellAfter
<1>3. CASE w.kind = "merge"
  <2> PICK o : o = <<w.value>>
    OBVIOUS
  <2>1. o \in Seq(Operands)
    BY <1>3 DEF WriteOk
  <2>2. <<AffineFullMerge(HashOfKey(k), c, o)>> \in Cells
    BY <2>1, HashResidue, FullMergeValue
  <2> QED
    BY <1>0, <1>3, <2>2 DEF CellAfter
<1> QED
  BY <1>0, <1>1, <1>2, <1>3

LEMMA WriteOneIs ==
  ASSUME NEW t \in Tables, NEW w, WriteOk(w)
  PROVE  /\ Target(w.family) \in Families
         /\ WriteOne(t, w) \in Tables
         /\ \A f \in Families, k \in Keys :
              WriteOne(t, w)[f][k] = IF f = Target(w.family) THEN EntryAfter(w, k, t[f][k])
                                     ELSE t[f][k]
<1> DEFINE g == Target(w.family)
           row == [k \in Keys |-> EntryAfter(w, k, t[g][k])]
<1>1. g \in Families
  BY DEF Target, WriteOk, Families
<1> HIDE DEF g
<1>2. t \in [Families -> [Keys -> Entries]] /\ t[g] \in [Keys -> Entries] /\ DOMAIN t[g] = Keys
  BY <1>1 DEF Tables
<1>3. WriteOne(t, w) = [t EXCEPT ![g] = row]
  <2>0. w.kind \in {"put", "delete", "merge", "range"}
    BY DEF WriteOk
  <2>1. EntriesAfter(t[g], w) = row
    <3>1. CASE w.kind = "put"
      BY <1>2, <3>1 DEF EntriesAfter, EntryAfter
    <3>2. CASE w.kind = "delete"
      BY <1>2, <3>2 DEF EntriesAfter, EntryAfter
    <3>3. CASE w.kind = "merge"
      BY <1>2, <3>3 DEF EntriesAfter, EntryAfter
    <3>4. CASE w.kind = "range"
      BY <1>2, <3>4 DEF EntriesAfter, EntryAfter
    <3> QED
      BY <2>0, <3>1, <3>2, <3>3, <3>4
  <2>2. WriteOne(t, w) = [t EXCEPT ![g] = EntriesAfter(t[g], w)]
    BY DEF WriteOne, g
  <2> QED
    BY <2>1, <2>2
<1>4. row \in [Keys -> Entries]
  BY <1>2, EntryWritten
<1>5. \A k \in Keys : row[k] = EntryAfter(w, k, t[g][k])
  OBVIOUS
<1> HIDE DEF row
<1>6. /\ WriteOne(t, w) \in Tables
      /\ \A f \in Families : WriteOne(t, w)[f] = IF f = g THEN row ELSE t[f]
  BY <1>1, <1>2, <1>3, <1>4 DEF Tables
<1> QED
  BY <1>1, <1>5, <1>6 DEF g

LEMMA ApplyWriteIs ==
  ASSUME NEW ms \in ModelsSet, NEW w, WriteOk(w)
  PROVE  /\ ApplyWrite(ms, w) \in ModelsSet
         /\ ApplyWrite(ms, w).live = ms.live
         /\ \A f \in Families, k \in Keys :
              ApplyWrite(ms, w).m[f][k] = IF f = w.family THEN CellAfter(w, k, ms.m[f][k])
                                          ELSE ms.m[f][k]
<1> DEFINE g == w.family
           row == [k \in Keys |-> CellAfter(w, k, ms.m[g][k])]
<1>1. g \in Families
  BY DEF WriteOk
<1> HIDE DEF g
<1>2. ms.m \in [Families -> [Keys -> Cells]] /\ ms.m[g] \in [Keys -> Cells] /\ DOMAIN ms.m[g] = Keys
  BY <1>1 DEF ModelsSet
<1>3. ApplyWrite(ms, w) = [ms EXCEPT !.m[g] = row]
  <2>0. w.kind \in {"put", "delete", "merge", "range"}
    BY DEF WriteOk
  <2>1. CellsAfter(ms.m[g], w) = row
    <3>1. CASE w.kind = "put"
      BY <1>2, <3>1 DEF CellsAfter, CellAfter
    <3>2. CASE w.kind = "delete"
      BY <1>2, <3>2 DEF CellsAfter, CellAfter
    <3>3. CASE w.kind = "merge"
      BY <1>2, <3>3 DEF CellsAfter, CellAfter
    <3>4. CASE w.kind = "range"
      BY <1>2, <3>4 DEF CellsAfter, CellAfter
    <3> QED
      BY <2>0, <3>1, <3>2, <3>3, <3>4
  <2>2. ApplyWrite(ms, w) = [ms EXCEPT !.m[g] = CellsAfter(ms.m[g], w)]
    BY DEF ApplyWrite, g
  <2> QED
    BY <2>1, <2>2
<1>4. row \in [Keys -> Cells]
  BY <1>2, CellWritten
<1>5. \A k \in Keys : row[k] = CellAfter(w, k, ms.m[g][k])
  OBVIOUS
<1> HIDE DEF row
<1>6. /\ ApplyWrite(ms, w) \in ModelsSet
      /\ ApplyWrite(ms, w).live = ms.live
      /\ \A f \in Families : ApplyWrite(ms, w).m[f] = IF f = g THEN row ELSE ms.m[f]
  <2> DEFINE t == [ms.m EXCEPT ![g] = row]
  <2>1. t \in [Families -> [Keys -> Cells]]
        /\ \A f \in Families : t[f] = IF f = g THEN row ELSE ms.m[f]
    BY <1>1, <1>2, <1>4
  <2>2. ApplyWrite(ms, w) = [ms EXCEPT !.m = t]
    BY <1>3
  <2> HIDE DEF t
  <2> QED
    BY <2>1, <2>2 DEF ModelsSet
<1> QED
  BY <1>1, <1>5, <1>6 DEF g

\* The models, and the tables of the database, on the way through the writes.
ModelsBy(g, ms, ws) ==
  /\ g[0] = ms
  /\ \A i \in 1 .. Len(ws) : g[i] = ApplyWrite(g[i - 1], ws[i])
  /\ ApplyWrites(ms, ws) = g[Len(ws)]

WrittenBy(g, d, ws) ==
  /\ g[0] = d.m
  /\ \A i \in 1 .. Len(ws) : g[i] = WriteOne(g[i - 1], ws[i])
  /\ DoWrite(d, ws) = [d EXCEPT !.m = g[Len(ws)]]

LEMMA ModelsRun ==
  ASSUME NEW ms, NEW ws, Len(ws) \in Nat
  PROVE  \E g : ModelsBy(g, ms, ws)
<1> DEFINE Made(g, m) == g = [i \in 0 .. m |-> IF i = 0 THEN ms ELSE ApplyWrite(g[i - 1], ws[i])]
           Written[i \in 0 .. Len(ws)] == IF i = 0 THEN ms ELSE ApplyWrite(Written[i - 1], ws[i])
           Missing == {m \in Nat : ~\E g : Made(g, m)}
<1>1. Missing = {}
  <2> SUFFICES ASSUME Missing # {} PROVE FALSE
    OBVIOUS
  <2>1. PICK m \in Missing : \A k \in Missing : m <= k
    <3>1. Missing \in SUBSET Nat
      OBVIOUS
    <3> HIDE DEF Missing
    <3> QED
      BY <3>1, LeastElement
  <2>2. m \in Nat /\ ~\E g : Made(g, m)
    OBVIOUS
  <2>3. m # 0
    <3>1. Made([i \in 0 .. 0 |-> ms], 0)
      OBVIOUS
    <3> HIDE DEF Made
    <3> QED
      BY <2>2, <3>1
  <2>4. m - 1 \in Nat /\ m - 1 \notin Missing
    <3> HIDE DEF Missing
    <3> QED
      BY <2>1, <2>2, <2>3
  <2>5. PICK g : Made(g, m - 1)
    BY <2>4
  <2> DEFINE h == [i \in 0 .. m |-> IF i < m THEN g[i] ELSE ApplyWrite(g[m - 1], ws[m])]
  <2>6. ASSUME NEW i \in 0 .. m
        PROVE  h[i] = IF i = 0 THEN ms ELSE ApplyWrite(h[i - 1], ws[i])
    <3>1. CASE i = m
      <4>1. h[i] = ApplyWrite(g[m - 1], ws[m]) /\ h[i - 1] = g[m - 1]
        BY <2>2, <2>3, <3>1
      <4> HIDE DEF h
      <4> QED
        BY <2>3, <3>1, <4>1
    <3>2. CASE i < m
      <4>1. i \in 0 .. m - 1 /\ (i # 0 => i - 1 \in 0 .. m /\ i - 1 < m)
        BY <2>2, <3>2
      <4>2. g[i] = IF i = 0 THEN ms ELSE ApplyWrite(g[i - 1], ws[i])
        BY <2>5, <4>1
      <4>3. h[i] = g[i] /\ (i # 0 => h[i - 1] = g[i - 1])
        BY <3>2, <4>1
      <4> HIDE DEF h
      <4> QED
        BY <4>2, <4>3
    <3> QED
      BY <2>2, <3>1, <3>2
  <2>7. Made(h, m)
    <3>1. h = [i \in 0 .. m |-> h[i]]
      OBVIOUS
    <3> HIDE DEF h
    <3> QED
      BY <2>6, <3>1
  <2> HIDE DEF Made, h
  <2> QED
    BY <2>2, <2>7
<1>2. \E g : Made(g, Len(ws))
  BY <1>1
<1>3. ApplyWrites(ms, ws) = Written[Len(ws)]
  BY DEF ApplyWrites
<1>4. Written = [i \in 0 .. Len(ws) |-> IF i = 0 THEN ms ELSE ApplyWrite(Written[i - 1], ws[i])]
  <2>1. \E g : g = [i \in 0 .. Len(ws) |-> IF i = 0 THEN ms ELSE ApplyWrite(g[i - 1], ws[i])]
    BY <1>2, Zenon
  <2> HIDE <1>1, <1>2, <1>3
  <2> QED
    BY <2>1, Zenon
<1> HIDE DEF Written
<1>5. Written[0] = ms
  <2>1. 0 \in 0 .. Len(ws)
    OBVIOUS
  <2> QED
    BY <1>4, <2>1, Zenon
<1>6. \A i \in 1 .. Len(ws) : Written[i] = ApplyWrite(Written[i - 1], ws[i])
  <2> TAKE i \in 1 .. Len(ws)
  <2>1. i \in 0 .. Len(ws) /\ i # 0
    OBVIOUS
  <2> QED
    BY <1>4, <2>1, Zenon
<1>7. ModelsBy(Written, ms, ws)
  BY <1>3, <1>5, <1>6, Zenon DEF ModelsBy
<1> QED
  BY <1>7

LEMMA WritesRun ==
  ASSUME NEW d, NEW ws, Len(ws) \in Nat
  PROVE  \E g : WrittenBy(g, d, ws)
<1> DEFINE Made(g, m) == g = [i \in 0 .. m |-> IF i = 0 THEN d.m ELSE WriteOne(g[i - 1], ws[i])]
           Written[i \in 0 .. Len(ws)] == IF i = 0 THEN d.m ELSE WriteOne(Written[i - 1], ws[i])
           Missing == {m \in Nat : ~\E g : Made(g, m)}
<1>1. Missing = {}
  <2> SUFFICES ASSUME Missing # {} PROVE FALSE
    OBVIOUS
  <2>1. PICK m \in Missing : \A k \in Missing : m <= k
    <3>1. Missing \in SUBSET Nat
      OBVIOUS
    <3> HIDE DEF Missing
    <3> QED
      BY <3>1, LeastElement
  <2>2. m \in Nat /\ ~\E g : Made(g, m)
    OBVIOUS
  <2>3. m # 0
    <3>1. Made([i \in 0 .. 0 |-> d.m], 0)
      OBVIOUS
    <3> HIDE DEF Made
    <3> QED
      BY <2>2, <3>1
  <2>4. m - 1 \in Nat /\ m - 1 \notin Missing
    <3> HIDE DEF Missing
    <3> QED
      BY <2>1, <2>2, <2>3
  <2>5. PICK g : Made(g, m - 1)
    BY <2>4
  <2> DEFINE h == [i \in 0 .. m |-> IF i < m THEN g[i] ELSE WriteOne(g[m - 1], ws[m])]
  <2>6. ASSUME NEW i \in 0 .. m
        PROVE  h[i] = IF i = 0 THEN d.m ELSE WriteOne(h[i - 1], ws[i])
    <3>1. CASE i = m
      <4>1. h[i] = WriteOne(g[m - 1], ws[m]) /\ h[i - 1] = g[m - 1]
        BY <2>2, <2>3, <3>1
      <4> HIDE DEF h
      <4> QED
        BY <2>3, <3>1, <4>1
    <3>2. CASE i < m
      <4>1. i \in 0 .. m - 1 /\ (i # 0 => i - 1 \in 0 .. m /\ i - 1 < m)
        BY <2>2, <3>2
      <4>2. g[i] = IF i = 0 THEN d.m ELSE WriteOne(g[i - 1], ws[i])
        BY <2>5, <4>1
      <4>3. h[i] = g[i] /\ (i # 0 => h[i - 1] = g[i - 1])
        BY <3>2, <4>1
      <4> HIDE DEF h
      <4> QED
        BY <4>2, <4>3
    <3> QED
      BY <2>2, <3>1, <3>2
  <2>7. Made(h, m)
    <3>1. h = [i \in 0 .. m |-> h[i]]
      OBVIOUS
    <3> HIDE DEF h
    <3> QED
      BY <2>6, <3>1
  <2> HIDE DEF Made, h
  <2> QED
    BY <2>2, <2>7
<1>2. \E g : Made(g, Len(ws))
  BY <1>1
<1>3. DoWrite(d, ws) = [d EXCEPT !.m = Written[Len(ws)]]
  BY DEF DoWrite
<1>4. Written = [i \in 0 .. Len(ws) |-> IF i = 0 THEN d.m ELSE WriteOne(Written[i - 1], ws[i])]
  <2>1. \E g : g = [i \in 0 .. Len(ws) |-> IF i = 0 THEN d.m ELSE WriteOne(g[i - 1], ws[i])]
    BY <1>2, Zenon
  <2> HIDE <1>1, <1>2, <1>3
  <2> QED
    BY <2>1, Zenon
<1> HIDE DEF Written
<1>5. Written[0] = d.m
  <2>1. 0 \in 0 .. Len(ws)
    OBVIOUS
  <2> QED
    BY <1>4, <2>1, Zenon
<1>6. \A i \in 1 .. Len(ws) : Written[i] = WriteOne(Written[i - 1], ws[i])
  <2> TAKE i \in 1 .. Len(ws)
  <2>1. i \in 0 .. Len(ws) /\ i # 0
    OBVIOUS
  <2> QED
    BY <1>4, <2>1, Zenon
<1>7. WrittenBy(Written, d, ws)
  BY <1>3, <1>5, <1>6, Zenon DEF WrittenBy
<1> QED
  BY <1>7


AllOk(ws) == Len(ws) \in Nat /\ \A i \in 1 .. Len(ws) : WriteOk(ws[i])

LEMMA WritesApplied ==
  ASSUME NEW ms \in ModelsSet, NEW ws, AllOk(ws)
  PROVE  ApplyWrites(ms, ws) \in ModelsSet /\ ApplyWrites(ms, ws).live = ms.live
<1>0. Len(ws) \in Nat /\ \A i \in 1 .. Len(ws) : WriteOk(ws[i])
  BY DEF AllOk
<1>1. PICK g : ModelsBy(g, ms, ws)
  BY <1>0, ModelsRun
<1>2. /\ g[0] = ms
      /\ \A i \in 1 .. Len(ws) : g[i] = ApplyWrite(g[i - 1], ws[i])
      /\ ApplyWrites(ms, ws) = g[Len(ws)]
  BY <1>1 DEF ModelsBy
<1> DEFINE T == {i \in Nat : g[i] \in ModelsSet /\ g[i].live = ms.live}
<1>3. 0 \in T
  BY <1>2
<1>4. ASSUME NEW i \in 1 .. Len(ws), i - 1 \in T PROVE i \in T
  <2>1. g[i] = ApplyWrite(g[i - 1], ws[i]) /\ WriteOk(ws[i]) /\ i \in Nat
    BY <1>0, <1>2
  <2>2. g[i - 1] \in ModelsSet /\ g[i - 1].live = ms.live
    BY <1>4
  <2> QED
    BY <2>1, <2>2, ApplyWriteIs
<1>5. \A i \in 0 .. Len(ws) : i \in T
  <2> HIDE DEF T
  <2> QED
    BY <1>0, <1>3, <1>4, UpTo
<1> QED
  BY <1>0, <1>2, <1>5

LEMMA WritesDone ==
  ASSUME NEW d \in DbSet, NEW ws, AllOk(ws)
  PROVE  /\ DoWrite(d, ws) \in DbSet
         /\ DoWrite(d, ws).live = d.live /\ DoWrite(d, ws).births = d.births
         /\ DoWrite(d, ws).exists = d.exists
<1>0. Len(ws) \in Nat /\ \A i \in 1 .. Len(ws) : WriteOk(ws[i])
  BY DEF AllOk
<1>1. PICK g : WrittenBy(g, d, ws)
  BY <1>0, WritesRun
<1>2. /\ g[0] = d.m
      /\ \A i \in 1 .. Len(ws) : g[i] = WriteOne(g[i - 1], ws[i])
      /\ DoWrite(d, ws) = [d EXCEPT !.m = g[Len(ws)]]
  BY <1>1 DEF WrittenBy
<1> DEFINE T == {i \in Nat : g[i] \in Tables}
<1>3. 0 \in T
  BY <1>2 DEF DbSet
<1>4. ASSUME NEW i \in 1 .. Len(ws), i - 1 \in T PROVE i \in T
  <2>1. g[i] = WriteOne(g[i - 1], ws[i]) /\ WriteOk(ws[i]) /\ i \in Nat
    BY <1>0, <1>2
  <2>2. g[i - 1] \in Tables
    BY <1>4
  <2> QED
    BY <2>1, <2>2, WriteOneIs
<1>5. \A i \in 0 .. Len(ws) : i \in T
  <2> HIDE DEF T
  <2> QED
    BY <1>0, <1>3, <1>4, UpTo
<1>6. g[Len(ws)] \in Tables
  BY <1>0, <1>5
<1> QED
  BY <1>2, <1>6 DEF DbSet

\* The tables show, on the families of L, what the models say.
SameOn(t, m, L) == \A f \in L, k \in Keys : ValueOf(k, t[f][k]) = m[f][k]

LEMMA SameOneWrite ==
  ASSUME NEW t \in Tables, NEW ms \in ModelsSet, NEW w, WriteOk(w),
         Target(w.family) = w.family, NEW L \in SUBSET Families, SameOn(t, ms.m, L)
  PROVE  SameOn(WriteOne(t, w), ApplyWrite(ms, w).m, L)
<1> SUFFICES ASSUME NEW f \in L, NEW k \in Keys
             PROVE  ValueOf(k, WriteOne(t, w)[f][k]) = ApplyWrite(ms, w).m[f][k]
  BY DEF SameOn
<1>1. f \in Families /\ t[f][k] \in Entries /\ ValueOf(k, t[f][k]) = ms.m[f][k]
  BY DEF Tables, SameOn
<1>2. /\ WriteOne(t, w)[f][k] = IF f = w.family THEN EntryAfter(w, k, t[f][k]) ELSE t[f][k]
      /\ ApplyWrite(ms, w).m[f][k] = IF f = w.family THEN CellAfter(w, k, ms.m[f][k])
                                     ELSE ms.m[f][k]
  BY <1>1, WriteOneIs, ApplyWriteIs
<1>3. ValueOf(k, EntryAfter(w, k, t[f][k])) = CellAfter(w, k, ValueOf(k, t[f][k]))
  BY <1>1, EntryWritten
<1> QED
  BY <1>1, <1>2, <1>3

LEMMA SameWrites ==
  ASSUME NEW d \in DbSet, NEW ms \in ModelsSet, NEW ws, AllOk(ws),
         \A i \in 1 .. Len(ws) : Target(ws[i].family) = ws[i].family,
         NEW L \in SUBSET Families, SameOn(d.m, ms.m, L)
  PROVE  SameOn(DoWrite(d, ws).m, ApplyWrites(ms, ws).m, L)
<1>0. Len(ws) \in Nat /\ \A i \in 1 .. Len(ws) : WriteOk(ws[i])
  BY DEF AllOk
<1>1. PICK g : WrittenBy(g, d, ws)
  BY <1>0, WritesRun
<1>2. /\ g[0] = d.m
      /\ \A i \in 1 .. Len(ws) : g[i] = WriteOne(g[i - 1], ws[i])
      /\ DoWrite(d, ws) = [d EXCEPT !.m = g[Len(ws)]]
  BY <1>1 DEF WrittenBy
<1>3. PICK h : ModelsBy(h, ms, ws)
  BY <1>0, ModelsRun
<1>4. /\ h[0] = ms
      /\ \A i \in 1 .. Len(ws) : h[i] = ApplyWrite(h[i - 1], ws[i])
      /\ ApplyWrites(ms, ws) = h[Len(ws)]
  BY <1>3 DEF ModelsBy
<1> DEFINE T == {i \in Nat : g[i] \in Tables /\ h[i] \in ModelsSet /\ SameOn(g[i], h[i].m, L)}
<1>5. 0 \in T
  BY <1>2, <1>4 DEF DbSet
<1>6. ASSUME NEW i \in 1 .. Len(ws), i - 1 \in T PROVE i \in T
  <2>1. /\ g[i] = WriteOne(g[i - 1], ws[i]) /\ h[i] = ApplyWrite(h[i - 1], ws[i])
        /\ WriteOk(ws[i]) /\ i \in Nat /\ Target(ws[i].family) = ws[i].family
    BY <1>0, <1>2, <1>4
  <2>2. g[i - 1] \in Tables /\ h[i - 1] \in ModelsSet /\ SameOn(g[i - 1], h[i - 1].m, L)
    BY <1>6
  <2>3. g[i] \in Tables /\ h[i] \in ModelsSet
    BY <2>1, <2>2, WriteOneIs, ApplyWriteIs
  <2>4. SameOn(g[i], h[i].m, L)
    BY <2>1, <2>2, SameOneWrite
  <2> QED
    BY <2>1, <2>3, <2>4
<1>7. \A i \in 0 .. Len(ws) : i \in T
  <2> HIDE DEF T
  <2> QED
    BY <1>0, <1>5, <1>6, UpTo
<1>8. SameOn(g[Len(ws)], h[Len(ws)].m, L)
  BY <1>0, <1>7
<1>9. DoWrite(d, ws).m = g[Len(ws)]
  BY <1>2 DEF DbSet
<1> QED
  BY <1>4, <1>8, <1>9

-----------------------------------------------------------------------------
\* The generator run again.

LEMMA NextDone ==
  ASSUME NEW g0 \in Generator, NEW ms, NEW d \in Draw
  PROVE  NextOp(g0, ms, d).g.done = g0.done + 1
<1> DEFINE g == [g0 EXCEPT !.done = @ + 1]
<1>1. g.done = g0.done + 1 /\ g = [done |-> g.done, version |-> g.version,
                                  snapsOpen |-> g.snapsOpen, live |-> g.live]
  BY DEF Generator
<1> HIDE DEF g
<1>2. NextOp(g0, ms, d) =
        CASE d.kind \in {"create", "drop"} ->
               IF Candidates(g, d.kind = "create") = {} THEN ReadOp(g, "walk", d) ELSE DdlOp(g, d)
          [] d.kind \in {"write", "clear"} -> WriteOp(g, ms, d)
          [] d.kind = "snap"    -> SnapOp(g, d)
          [] d.kind = "reopen"  -> ReopenOp(g)
          [] d.kind \in {"walk", "compact"} -> ReadOp(g, d.kind, d)
  BY DEF NextOp, g
<1>3. d.kind \in {"create", "drop", "write", "clear", "snap", "reopen", "walk", "compact"}
  BY DEF Draw
<1>4. \A kind : ReadOp(g, kind, d).g.done = g.done
  BY DEF ReadOp
<1>5. DdlOp(g, d).g.done = g.done
  BY <1>1 DEF DdlOp
<1>6. WriteOp(g, ms, d).g.done = g.done
  BY <1>1 DEF WriteOp
<1>7. SnapOp(g, d).g.done = g.done
  BY <1>1 DEF SnapOp
<1>8. ReopenOp(g).g.done = g.done
  BY <1>1 DEF ReopenOp
<1> QED
  BY <1>1, <1>2, <1>3, <1>4, <1>5, <1>6, <1>7, <1>8

\* What a replay starts from, and one operation of it.
Fresh == [g |-> NewGen, ms |-> NoModels, n |-> 0]

Replayed(last, d) ==
  [g |-> NextOp(last.g, last.ms, d).g,
   ms |-> Apply(NextOp(last.g, last.ms, d).op, last.ms),
   n |-> last.n + (IF Durable(NextOp(last.g, last.ms, d).op) THEN 1 ELSE 0)]

LEMMA ReplaySteps ==
  ASSUME MaxOps \in Nat
  PROVE  Replay[0] = Fresh /\ \A i \in 1 .. MaxOps : Replay[i] = Replayed(Replay[i - 1], seed[i])
<1> DEFINE Made(g, m) == g = [i \in 0 .. m |-> IF i = 0 THEN Fresh ELSE Replayed(g[i - 1], seed[i])]
           Missing == {m \in Nat : ~\E g : Made(g, m)}
<1>1. Missing = {}
  <2> SUFFICES ASSUME Missing # {} PROVE FALSE
    OBVIOUS
  <2>1. PICK m \in Missing : \A k \in Missing : m <= k
    <3>1. Missing \in SUBSET Nat
      OBVIOUS
    <3> HIDE DEF Missing
    <3> QED
      BY <3>1, LeastElement
  <2>2. m \in Nat /\ ~\E g : Made(g, m)
    OBVIOUS
  <2>3. m # 0
    <3>1. Made([i \in 0 .. 0 |-> Fresh], 0)
      OBVIOUS
    <3> HIDE DEF Made
    <3> QED
      BY <2>2, <3>1
  <2>4. m - 1 \in Nat /\ m - 1 \notin Missing
    <3> HIDE DEF Missing
    <3> QED
      BY <2>1, <2>2, <2>3
  <2>5. PICK g : Made(g, m - 1)
    BY <2>4
  <2> DEFINE h == [i \in 0 .. m |-> IF i < m THEN g[i] ELSE Replayed(g[m - 1], seed[m])]
  <2>6. ASSUME NEW i \in 0 .. m
        PROVE  h[i] = IF i = 0 THEN Fresh ELSE Replayed(h[i - 1], seed[i])
    <3>1. CASE i = m
      <4>1. h[i] = Replayed(g[m - 1], seed[m]) /\ h[i - 1] = g[m - 1]
        BY <2>2, <2>3, <3>1
      <4> HIDE DEF h
      <4> QED
        BY <2>3, <3>1, <4>1
    <3>2. CASE i < m
      <4>1. i \in 0 .. m - 1 /\ (i # 0 => i - 1 \in 0 .. m /\ i - 1 < m)
        BY <2>2, <3>2
      <4>2. g[i] = IF i = 0 THEN Fresh ELSE Replayed(g[i - 1], seed[i])
        BY <2>5, <4>1
      <4>3. h[i] = g[i] /\ (i # 0 => h[i - 1] = g[i - 1])
        BY <3>2, <4>1
      <4> HIDE DEF h
      <4> QED
        BY <4>2, <4>3
    <3> QED
      BY <2>2, <3>1, <3>2
  <2>7. Made(h, m)
    <3>1. h = [i \in 0 .. m |-> h[i]]
      OBVIOUS
    <3> HIDE DEF h
    <3> QED
      BY <2>6, <3>1
  <2> HIDE DEF Made, h
  <2> QED
    BY <2>2, <2>7
<1>2. \E g : Made(g, MaxOps)
  BY <1>1
<1>3. Replay = [i \in 0 .. MaxOps |-> IF i = 0 THEN Fresh ELSE Replayed(Replay[i - 1], seed[i])]
  <2>1. \E g : g = [i \in 0 .. MaxOps |-> IF i = 0 THEN Fresh ELSE Replayed(g[i - 1], seed[i])]
    BY <1>2, Zenon
  <2> HIDE <1>1, <1>2
  <2> QED
    BY <2>1, Zenon DEF Replay, Fresh, Replayed
<1>4. Replay[0] = Fresh
  <2>1. 0 \in 0 .. MaxOps
    OBVIOUS
  <2> QED
    BY <1>3, <2>1, Zenon
<1>5. \A i \in 1 .. MaxOps : Replay[i] = Replayed(Replay[i - 1], seed[i])
  <2> TAKE i \in 1 .. MaxOps
  <2>1. i \in 0 .. MaxOps /\ i # 0
    OBVIOUS
  <2> QED
    BY <1>3, <2>1, Zenon
<1> QED
  BY <1>4, <1>5, Zenon

LEMMA FreshModels == NoModels \in ModelsSet /\ NoModels.live = {0} /\ 0 \in Families
<1>1. 0 \in Families
  BY DEF Families
<1>2. NoValue \in Cells
  BY DEF Cells
<1> QED
  BY <1>1, <1>2 DEF NoModels, ModelsSet

LEMMA AllOnOk ==
  ASSUME NEW ws, NEW L, AllOn(ws, L)
  PROVE  AllOk(ws) /\ \A i \in 1 .. Len(ws) : ws[i].family \in L
<1>1. Len(ws) \in Nat /\ DOMAIN ws = 1 .. Len(ws)
  BY DEF AllOn, IsSequence
<1> QED
  BY <1>1 DEF AllOn, AllOk

\* The models after an operation have the families that the generator knows.
LEMMA OperationApplied ==
  ASSUME NEW g, NEW ms \in ModelsSet, ms.live = g.live, NEW r, GeneratedRightly(g, r)
  PROVE  /\ Apply(r.op, ms) \in ModelsSet /\ Apply(r.op, ms).live = r.g.live
         /\ ~Durable(r.op) => Apply(r.op, ms) = ms
<1> DEFINE o == r.op
<1>1. /\ o.kind \in {"create", "drop", "write", "snapTake", "snapCheck", "reopen",
                     "walk", "compact"}
      /\ o.kind \in {"create", "drop"} => o.family \in Families
      /\ o.kind = "write" => AllOn(o.writes, g.live)
      /\ r.g.live = CASE o.kind = "create" -> g.live \cup {o.family}
                      [] o.kind = "drop"   -> g.live \ {o.family}
                      [] OTHER             -> g.live
  BY DEF GeneratedRightly
<1> HIDE DEF o
<1> DEFINE none == [k \in Keys |-> NoValue]
           t == [ms.m EXCEPT ![o.family] = none]
<1>2. none \in [Keys -> Cells] /\ ms.m \in [Families -> [Keys -> Cells]]
  BY DEF Cells, ModelsSet
<1>3. t \in [Families -> [Keys -> Cells]]
  <2> HIDE DEF none
  <2> QED
    BY <1>2
<1>4. CASE o.kind = "create"
  <2> DEFINE L == ms.live \cup {o.family}
  <2>1. Apply(o, ms) = [[ms EXCEPT !.live = L] EXCEPT !.m = t]
    BY <1>4 DEF Apply, ModelsSet
  <2>2. L \in SUBSET Families /\ r.g.live = L /\ Durable(o)
    BY <1>1, <1>4 DEF ModelsSet, Durable
  <2> HIDE DEF t, L
  <2>3. Apply(o, ms) \in ModelsSet /\ Apply(o, ms).live = L
    BY <1>3, <2>1, <2>2 DEF ModelsSet
  <2> QED
    BY <2>2, <2>3 DEF o
<1>5. CASE o.kind = "drop"
  <2> DEFINE L == ms.live \ {o.family}
  <2>1. Apply(o, ms) = [[ms EXCEPT !.live = L] EXCEPT !.m = t]
    BY <1>5 DEF Apply, ModelsSet
  <2>2. L \in SUBSET Families /\ r.g.live = L /\ Durable(o)
    BY <1>1, <1>5 DEF ModelsSet, Durable
  <2> HIDE DEF t, L
  <2>3. Apply(o, ms) \in ModelsSet /\ Apply(o, ms).live = L
    BY <1>3, <2>1, <2>2 DEF ModelsSet
  <2> QED
    BY <2>2, <2>3 DEF o
<1>6. CASE o.kind = "write"
  <2>1. Apply(o, ms) = ApplyWrites(ms, o.writes)
    BY <1>6 DEF Apply
  <2>2. AllOk(o.writes)
    BY <1>1, <1>6, AllOnOk
  <2> QED
    BY <1>1, <1>6, <2>1, <2>2, WritesApplied DEF o, Durable
<1>7. CASE o.kind \notin {"create", "drop", "write"}
  <2>1. Apply(o, ms) = ms /\ r.g.live = g.live
    BY <1>1, <1>7 DEF Apply
  <2> QED
    BY <2>1 DEF o
<1> QED
  BY <1>4, <1>5, <1>6, <1>7

\* What holds at every point of the replay.
ReplayRight(i) ==
  /\ Replay[i].g \in Generator /\ 0 \in Replay[i].g.live /\ Replay[i].g.done = i
  /\ Replay[i].ms \in ModelsSet /\ Replay[i].ms.live = Replay[i].g.live
  /\ Replay[i].n \in Nat

\* The operation that the replay makes of the draw after i operations.
Drawn(i) == NextOp(Replay[i].g, Replay[i].ms, seed[i + 1])

LEMMA ReplayOnce ==
  ASSUME seed \in Seq(Draw), NEW i \in 0 .. MaxOps - 1, ReplayRight(i)
  PROVE  /\ ReplayRight(i + 1) /\ GeneratedRightly(Replay[i].g, Drawn(i))
         /\ Replay[i + 1].g = Drawn(i).g /\ Replay[i + 1].ms = Apply(Drawn(i).op, Replay[i].ms)
         /\ IF Durable(Drawn(i).op) THEN Replay[i + 1].n = Replay[i].n + 1
            ELSE Replay[i + 1].n = Replay[i].n /\ Replay[i + 1].ms = Replay[i].ms
<1> DEFINE r == Drawn(i)
           last == Replay[i]
           next == Replay[i + 1]
           d == seed[i + 1]
<1>1. MaxOps \in Nat /\ i + 1 \in 1 .. MaxOps /\ (i + 1) - 1 = i /\ d \in Draw /\ i \in Nat
  BY DEF MaxOps
<1>2. next = Replayed(last, d)
  <2> PICK j : j = i + 1
    OBVIOUS
  <2>1. j \in 1 .. MaxOps /\ j - 1 = i
    BY <1>1
  <2>2. Replay[j] = Replayed(Replay[j - 1], seed[j])
    BY <1>1, <2>1, ReplaySteps
  <2> QED
    BY <2>1, <2>2
<1>3. /\ next.g = r.g /\ next.ms = Apply(r.op, last.ms)
      /\ next.n = last.n + (IF Durable(r.op) THEN 1 ELSE 0)
  BY <1>2 DEF Replayed, Drawn
<1>4. /\ last.g \in Generator /\ 0 \in last.g.live /\ last.g.done = i
      /\ last.ms \in ModelsSet /\ last.ms.live = last.g.live /\ last.n \in Nat
  BY DEF ReplayRight
<1>5. GeneratedRightly(last.g, r) /\ r.g.done = i + 1
  BY <1>1, <1>4, NextRight, NextDone DEF Drawn
<1> HIDE DEF r, last, next
<1>6. /\ Apply(r.op, last.ms) \in ModelsSet /\ Apply(r.op, last.ms).live = r.g.live
      /\ ~Durable(r.op) => Apply(r.op, last.ms) = last.ms
  BY <1>4, <1>5, OperationApplied
<1>7. r.g \in Generator /\ 0 \in r.g.live
  BY <1>4, <1>5 DEF GeneratedRightly
<1>8. next.n \in Nat
  BY <1>3, <1>4
<1>9. ReplayRight(i + 1)
  BY <1>3, <1>5, <1>6, <1>7, <1>8 DEF ReplayRight, next
<1>10. IF Durable(r.op) THEN next.n = last.n + 1 ELSE next.n = last.n /\ next.ms = last.ms
  BY <1>3, <1>4, <1>6
<1> QED
  BY <1>3, <1>5, <1>9, <1>10 DEF r, last, next

LEMMA ReplayAll ==
  ASSUME seed \in Seq(Draw)
  PROVE  MaxOps \in Nat /\ \A i \in 0 .. MaxOps : ReplayRight(i)
<1>1. MaxOps \in Nat
  BY DEF MaxOps
<1> DEFINE T == {i \in Nat : ReplayRight(i)}
<1>2. 0 \in T
  <2>1. Replay[0] = Fresh
    BY <1>1, ReplaySteps
  <2>2. NewGen \in Generator /\ 0 \in NewGen.live /\ NewGen.done = 0 /\ NewGen.live = {0}
    BY DEF NewGen, Generator, Families
  <2>3. ReplayRight(0)
    <3>1. Replay[0].g = NewGen /\ Replay[0].ms = NoModels /\ Replay[0].n = 0
      BY <2>1 DEF Fresh
    <3> QED
      BY <2>2, <3>1, FreshModels DEF ReplayRight
  <2> QED
    BY <2>3
<1>3. ASSUME NEW i \in 1 .. MaxOps, i - 1 \in T PROVE i \in T
  <2>1. i - 1 \in 0 .. MaxOps - 1 /\ ReplayRight(i - 1) /\ i \in Nat /\ (i - 1) + 1 = i
    BY <1>1, <1>3
  <2>2. ReplayRight((i - 1) + 1)
    BY <2>1, ReplayOnce
  <2> QED
    BY <2>1, <2>2
<1>4. \A i \in 0 .. MaxOps : i \in T
  <2> HIDE DEF T
  <2> QED
    BY <1>1, <1>2, <1>3, UpTo
<1> QED
  BY <1>1, <1>4

\* The count of writes never falls, and while it stays the models do too.
LEMMA CountsGrow ==
  ASSUME seed \in Seq(Draw), NEW i \in 0 .. MaxOps, NEW j \in i .. MaxOps
  PROVE  /\ Replay[i].n <= Replay[j].n
         /\ Replay[i].n = Replay[j].n => Replay[i].ms = Replay[j].ms
<1>1. MaxOps \in Nat /\ \A m \in 0 .. MaxOps : ReplayRight(m)
  BY ReplayAll
<1> DEFINE Ok(m) == /\ Replay[i].n <= Replay[m].n
                    /\ Replay[i].n = Replay[m].n => Replay[i].ms = Replay[m].ms
           T == {m \in Nat : m >= i /\ m <= MaxOps => Ok(m)}
<1>2. Replay[i].n \in Nat /\ i \in Nat
  BY <1>1 DEF ReplayRight
<1>3. 0 \in T
  <2>1. 0 >= i => i = 0
    BY <1>2
  <2>2. 0 >= i => Ok(0)
    BY <1>2, <2>1
  <2> HIDE DEF Ok
  <2> QED
    BY <2>2
<1>4. ASSUME NEW m \in 1 .. MaxOps, m - 1 \in T PROVE m \in T
  <2>1. m \in Nat /\ m - 1 \in 0 .. MaxOps - 1 /\ (m - 1) + 1 = m /\ m - 1 \in 0 .. MaxOps
    BY <1>1
  <2>2. CASE m = i
    <3>1. Ok(m)
      BY <1>2, <2>2
    <3> HIDE DEF Ok
    <3> QED
      BY <2>1, <3>1
  <2>3. CASE m > i
    <3>1. m - 1 >= i /\ m - 1 <= MaxOps
      BY <1>1, <1>2, <2>1, <2>3
    <3>2. Ok(m - 1)
      <4> HIDE DEF Ok
      <4> QED
        BY <1>4, <3>1
    <3>3. ReplayRight(m - 1)
      BY <1>1, <2>1
    <3> PICK p : p = m - 1
      OBVIOUS
    <3>4. p \in 0 .. MaxOps - 1 /\ ReplayRight(p) /\ p + 1 = m /\ Ok(p)
      BY <2>1, <3>2, <3>3
    <3>5. IF Durable(Drawn(p).op) THEN Replay[m].n = Replay[p].n + 1
          ELSE Replay[m].n = Replay[p].n /\ Replay[m].ms = Replay[p].ms
      BY <3>4, ReplayOnce
    <3>6. Replay[p].n \in Nat
      BY <3>4 DEF ReplayRight
    <3>8. \A a, b, c \in Nat : a <= b /\ (c = b + 1 \/ c = b) => a <= c /\ (a = c => a = b /\ c = b)
      OBVIOUS
    <3>9. Replay[m].n \in Nat
      BY <1>1 DEF ReplayRight
    <3>10. Replay[i].n <= Replay[m].n
           /\ (Replay[i].n = Replay[m].n => Replay[i].n = Replay[p].n /\ Replay[m].n = Replay[p].n)
      BY <1>2, <3>4, <3>5, <3>6, <3>8, <3>9
    <3>11. Replay[m].n = Replay[p].n => Replay[m].ms = Replay[p].ms
      <4>1. \A a \in Nat : a + 1 # a
        OBVIOUS
      <4> QED
        BY <3>5, <3>6, <4>1
    <3>7. Ok(m)
      BY <3>4, <3>10, <3>11
    <3> HIDE DEF Ok
    <3> QED
      BY <2>1, <3>7
  <2>4. CASE ~(m >= i)
    <3> HIDE DEF Ok
    <3> QED
      BY <2>1, <2>4
  <2> QED
    BY <1>2, <2>1, <2>2, <2>3, <2>4
<1>5. \A m \in 0 .. MaxOps : m \in T
  <2> HIDE DEF T
  <2> QED
    BY <1>1, <1>3, <1>4, UpTo
<1>6. j \in 0 .. MaxOps /\ j >= i /\ j <= MaxOps
  BY <1>1, <1>2
<1>7. Ok(j)
  <2> HIDE DEF Ok
  <2> QED
    BY <1>5, <1>6
<1> QED
  BY <1>7

LEMMA SameCount ==
  ASSUME seed \in Seq(Draw), NEW i \in 0 .. MaxOps, NEW j \in 0 .. MaxOps,
         Replay[i].n = Replay[j].n
  PROVE  Replay[i].ms = Replay[j].ms
<1>1. CASE i <= j
  <2>1. j \in i .. MaxOps
    BY <1>1
  <2> QED
    BY <2>1, CountsGrow
<1>2. CASE j <= i
  <2>1. i \in j .. MaxOps
    BY <1>2
  <2> QED
    BY <2>1, CountsGrow
<1> QED
  BY <1>1, <1>2

\* Every count up to the last is reached.
LEMMA CountReached ==
  ASSUME seed \in Seq(Draw), NEW m \in Nat, m <= Replay[MaxOps].n
  PROVE  \E i \in 0 .. MaxOps : Replay[i].n = m
<1>1. MaxOps \in Nat /\ \A i \in 0 .. MaxOps : ReplayRight(i)
  BY ReplayAll
<1> DEFINE There == \E i \in 0 .. MaxOps : Replay[i].n = m
           T == {j \in Nat : j <= MaxOps => (There \/ Replay[j].n < m)}
<1>2. Replay[0].n = 0
  BY <1>1, ReplaySteps DEF Fresh
<1>3. 0 \in T
  <2>1. CASE m = 0
    BY <1>1, <1>2, <2>1
  <2>2. CASE m # 0
    BY <1>2, <2>2
  <2> QED
    BY <2>1, <2>2
<1>4. ASSUME NEW j \in 1 .. MaxOps, j - 1 \in T PROVE j \in T
  <2> PICK p : p = j - 1
    OBVIOUS
  <2>1. p \in 0 .. MaxOps - 1 /\ p \in 0 .. MaxOps /\ p + 1 = j /\ j \in Nat /\ j \in 0 .. MaxOps
    BY <1>1
  <2>2. There \/ Replay[p].n < m
    <3>1. p \in T /\ p <= MaxOps
      BY <1>1, <1>4, <2>1
    <3> HIDE DEF There
    <3> QED
      BY <3>1
  <2>3. ReplayRight(p) /\ ReplayRight(j)
    BY <1>1, <2>1
  <2>4. Replay[j].n = Replay[p].n + 1 \/ Replay[j].n = Replay[p].n
    BY <2>1, <2>3, ReplayOnce
  <2>5. Replay[p].n \in Nat /\ Replay[j].n \in Nat
    BY <2>3 DEF ReplayRight
  <2>6. Replay[p].n < m => Replay[j].n < m \/ Replay[j].n = m
    <3>1. \A a, b \in Nat : a < m /\ (b = a + 1 \/ b = a) => b < m \/ b = m
      OBVIOUS
    <3> QED
      BY <2>4, <2>5, <3>1
  <2>7. There \/ Replay[j].n < m
    BY <2>1, <2>2, <2>6
  <2> HIDE DEF There
  <2> QED
    BY <2>1, <2>7
<1>5. \A j \in 0 .. MaxOps : j \in T
  <2> HIDE DEF T
  <2> QED
    BY <1>1, <1>3, <1>4, UpTo
<1>6. There \/ Replay[MaxOps].n < m
  <2> HIDE DEF There
  <2> QED
    BY <1>1, <1>5
<1>7. Replay[MaxOps].n \in Nat
  BY <1>1 DEF ReplayRight
<1> QED
  BY <1>6, <1>7

\* ModelsAfterWrites gives the models that the replay had after n writes.
LEMMA ModelsFound ==
  ASSUME seed \in Seq(Draw), NEW n \in Nat, ~PastEnd(n)
  PROVE  \E i \in 0 .. MaxOps : Replay[i].n = n /\ ModelsAfterWrites(n) = Replay[i].ms
<1>1. MaxOps \in Nat /\ \A i \in 0 .. MaxOps : ReplayRight(i)
  BY ReplayAll
<1>2. n <= Replay[MaxOps].n
  BY <1>1 DEF PastEnd, ReplayRight
<1> DEFINE T == {i \in 0 .. MaxOps : Replay[i].n = n}
<1>3. T # {} /\ T \in SUBSET Nat
  BY <1>1, <1>2, CountReached
<1>4. Min(T) \in T
  <2>1. \E x \in T : \A y \in T : x <= y
    <3> HIDE DEF T
    <3> QED
      BY <1>3, LeastElement
  <2> HIDE DEF T
  <2> QED
    BY <2>1 DEF Min
<1>5. ModelsAfterWrites(n) = Replay[Min(T)].ms
  BY DEF ModelsAfterWrites
<1> QED
  BY <1>4, <1>5

-----------------------------------------------------------------------------
\* What the database holds, and what the models say of it.

Holds(d, ms) ==
  /\ d \in DbSet /\ ms \in ModelsSet /\ d.live = ms.live
  /\ SameOn(d.m, ms.m, Families)

LEMMA SameAgrees ==
  ASSUME NEW d \in DbSet, NEW ms, NEW L \in SUBSET Families, SameOn(d.m, ms.m, L), NEW f \in L
  PROVE  Agrees(d, ms, f)
<1> SUFFICES ASSUME NEW k \in Keys PROVE Reads(k, d.m[f][k]) = {ms.m[f][k]}
  BY DEF Agrees
<1>1. d.m[f][k] \in Entries
  BY DEF DbSet, Tables
<1>2. Reads(k, d.m[f][k]) = {ValueOf(k, d.m[f][k])}
  BY <1>1, OneAnswer
<1> QED
  BY <1>2 DEF SameOn

LEMMA AgreesSame ==
  ASSUME NEW d \in DbSet, NEW ms, NEW L \in SUBSET Families, \A f \in L : Agrees(d, ms, f)
  PROVE  SameOn(d.m, ms.m, L)
<1> SUFFICES ASSUME NEW f \in L, NEW k \in Keys PROVE ValueOf(k, d.m[f][k]) = ms.m[f][k]
  BY DEF SameOn
<1>1. d.m[f][k] \in Entries
  BY DEF DbSet, Tables
<1>2. {ValueOf(k, d.m[f][k])} = {ms.m[f][k]}
  BY <1>1, OneAnswer DEF Agrees
<1> QED
  BY <1>2

LEMMA HoldsAgrees ==
  ASSUME NEW d, NEW ms, Holds(d, ms), NEW f \in Families
  PROVE  Agrees(d, ms, f)
BY SameAgrees DEF Holds

\* The same is shown of databases that read alike.
LEMMA ShownAlike ==
  ASSUME NEW d, NEW e, Shown(d) = Shown(e)
  PROVE  /\ d.live = e.live
         /\ \A f \in d.live, k \in Keys : Reads(k, d.m[f][k]) = Reads(k, e.m[f][k])
<1> DEFINE a(f) == [k \in Keys |-> Reads(k, d.m[f][k])]
           b(f) == [k \in Keys |-> Reads(k, e.m[f][k])]
<1>1. d.live = e.live /\ Shown(d).m = Shown(e).m
  BY DEF Shown
<1>2. Shown(d).m = [f \in d.live |-> a(f)] /\ Shown(e).m = [f \in e.live |-> b(f)]
  BY DEF Shown
<1>3. ASSUME NEW f \in d.live, NEW k \in Keys PROVE Reads(k, d.m[f][k]) = Reads(k, e.m[f][k])
  <2>1. a(f) = b(f)
    <3> HIDE DEF a, b
    <3> QED
      BY <1>1, <1>2
  <2>2. a(f)[k] = Reads(k, d.m[f][k]) /\ b(f)[k] = Reads(k, e.m[f][k])
    OBVIOUS
  <2> QED
    BY <2>1, <2>2
<1> QED
  BY <1>1, <1>3

LEMMA ShownAsModels ==
  ASSUME NEW d, NEW ms, d.live = ms.live, \A f \in ms.live : Agrees(d, ms, f)
  PROVE  Shown(d) = ShownBy(ms)
<1> DEFINE a(f) == [k \in Keys |-> Reads(k, d.m[f][k])]
           b(f) == [k \in Keys |-> {ms.m[f][k]}]
<1>1. \A f \in ms.live : a(f) = b(f)
  BY DEF Agrees
<1>2. Shown(d) = [live |-> ms.live, m |-> [f \in ms.live |-> a(f)]]
  BY DEF Shown
<1>3. ShownBy(ms) = [live |-> ms.live, m |-> [f \in ms.live |-> b(f)]]
  BY DEF ShownBy
<1> HIDE DEF a, b
<1>4. [f \in ms.live |-> a(f)] = [f \in ms.live |-> b(f)]
  BY <1>1
<1> QED
  BY <1>2, <1>3, <1>4

LEMMA HoldsShown ==
  ASSUME NEW d, NEW ms, Holds(d, ms)
  PROVE  Shown(d) = ShownBy(ms)
<1>1. d.live = ms.live /\ ms.live \subseteq Families
  BY DEF Holds, ModelsSet
<1>2. \A f \in ms.live : Agrees(d, ms, f)
  BY <1>1, HoldsAgrees
<1> QED
  BY <1>1, <1>2, ShownAsModels

LEMMA EmptyDb == NoDb \in DbSet /\ Holds(NoDb, NoModels) /\ Holds([NoDb EXCEPT !.exists = TRUE], NoModels)
<1> DEFINE row == [k \in Keys |-> Absent]
           t == [f \in Families |-> row]
<1>1. t \in Tables
  <2>1. row \in [Keys -> Entries]
    BY AbsentEntry
  <2> HIDE DEF row
  <2> QED
    BY <2>1 DEF Tables
<1>2. SameOn(t, NoModels.m, Families)
  BY AbsentEntry DEF SameOn, NoModels
<1>3. NoDb = [exists |-> FALSE, live |-> {0}, births |-> [f \in Families |-> 0], m |-> t]
  BY DEF NoDb
<1> HIDE DEF t
<1>4. NoDb \in DbSet /\ [NoDb EXCEPT !.exists = TRUE] \in DbSet
  BY <1>1, <1>3, FreshModels DEF DbSet
<1>5. [NoDb EXCEPT !.exists = TRUE].m = t /\ [NoDb EXCEPT !.exists = TRUE].live = {0}
      /\ NoDb.m = t /\ NoDb.live = {0}
  BY <1>3
<1> QED
  BY <1>2, <1>4, <1>5, FreshModels DEF Holds

\* A call that is carried out, on the database and on the models.
CarriedRight(d, ms, o) ==
  /\ Holds(Carried(d, o), Apply(o, ms))
  /\ Carried(d, o).exists = d.exists
  /\ \A f \in Families : f \in handles \/ o.kind # "create" =>
       Carried(d, o).births[f] = d.births[f]

LEMMA CarriedHolds ==
  ASSUME NEW d, NEW ms, Holds(d, ms), NEW g, g.live = ms.live, handles = ms.live,
         NEW r, GeneratedRightly(g, r), Durable(r.op)
  PROVE  CarriedRight(d, ms, r.op)
<1> DEFINE o == r.op
           d2 == Carried(d, o)
           ms2 == Apply(o, ms)
<1>1. /\ o.kind \in {"create", "drop", "write"}
      /\ o.kind \in {"create", "drop"} => o.family \in Families
      /\ o.kind = "create" => o.family \notin handles
      /\ o.kind = "write" => AllOn(o.writes, handles)
  BY DEF GeneratedRightly, Durable
<1>2. d \in DbSet /\ ms \in ModelsSet /\ d.live = ms.live /\ SameOn(d.m, ms.m, Families)
  BY DEF Holds
<1>3. ms2 \in ModelsSet
  BY <1>2, OperationApplied
<1> HIDE DEF o
<1> DEFINE none == [k \in Keys |-> NoValue]
           row == [k \in Keys |-> Absent]
           t == [d.m EXCEPT ![o.family] = row]
           u == [ms.m EXCEPT ![o.family] = none]
<1>4. ASSUME o.family \in Families PROVE t \in Tables /\ SameOn(t, u, Families)
  <2>1. row \in [Keys -> Entries] /\ \A k \in Keys : ValueOf(k, row[k]) = none[k]
    BY AbsentEntry
  <2>2. d.m \in [Families -> [Keys -> Entries]] /\ ms.m \in [Families -> [Keys -> Cells]]
    BY <1>2 DEF DbSet, Tables, ModelsSet
  <2> HIDE DEF row, none
  <2>3. /\ t \in [Families -> [Keys -> Entries]]
        /\ \A f \in Families : t[f] = (IF f = o.family THEN row ELSE d.m[f])
                               /\ u[f] = (IF f = o.family THEN none ELSE ms.m[f])
    BY <2>1, <2>2
  <2> HIDE DEF t, u
  <2> QED
    BY <1>2, <2>1, <2>3 DEF Tables, SameOn
<1>5. CASE o.kind = "create"
  <2> DEFINE L == ms.live \cup {o.family}
             n == [d.births EXCEPT ![o.family] = @ + 1]
  <2>1. d2 = [[[d EXCEPT !.live = L] EXCEPT !.births = n] EXCEPT !.m = t]
    BY <1>2, <1>5 DEF Carried, DbSet
  <2>2. ms2 = [[ms EXCEPT !.live = L] EXCEPT !.m = u]
    BY <1>2, <1>5 DEF Apply, ModelsSet
  <2>3. /\ L \in SUBSET Families /\ n \in [Families -> Nat]
        /\ \A f \in Families : f \in handles => n[f] = d.births[f]
    BY <1>1, <1>2, <1>5 DEF DbSet, ModelsSet
  <2>4. t \in Tables /\ SameOn(t, u, Families)
    BY <1>1, <1>4, <1>5
  <2> HIDE DEF t, u, L, n, d2, ms2
  <2>5. d2 \in DbSet /\ d2.live = L /\ d2.births = n /\ d2.m = t /\ d2.exists = d.exists
    BY <1>2, <2>1, <2>3, <2>4 DEF DbSet
  <2>6. ms2.live = L /\ ms2.m = u
    BY <1>2, <2>2 DEF ModelsSet
  <2>7. Holds(d2, ms2)
    BY <1>3, <2>4, <2>5, <2>6 DEF Holds
  <2> QED
    BY <1>5, <2>3, <2>5, <2>7 DEF d2, ms2, o, CarriedRight
<1>6. CASE o.kind = "drop"
  <2> DEFINE L == ms.live \ {o.family}
  <2>1. d2 = [[d EXCEPT !.live = L] EXCEPT !.m = t]
    BY <1>2, <1>6 DEF Carried, DbSet
  <2>2. ms2 = [[ms EXCEPT !.live = L] EXCEPT !.m = u]
    BY <1>2, <1>6 DEF Apply, ModelsSet
  <2>3. L \in SUBSET Families
    BY <1>2 DEF ModelsSet
  <2>4. t \in Tables /\ SameOn(t, u, Families)
    BY <1>1, <1>4, <1>6
  <2> HIDE DEF t, u, L, d2, ms2
  <2>5. d2 \in DbSet /\ d2.live = L /\ d2.births = d.births /\ d2.m = t /\ d2.exists = d.exists
    BY <1>2, <2>1, <2>3, <2>4 DEF DbSet
  <2>6. ms2.live = L /\ ms2.m = u
    BY <1>2, <2>2 DEF ModelsSet
  <2>7. Holds(d2, ms2)
    BY <1>3, <2>4, <2>5, <2>6 DEF Holds
  <2> QED
    BY <2>5, <2>7 DEF d2, ms2, o, CarriedRight
<1>7. CASE o.kind = "write"
  <2>1. d2 = DoWrite(d, o.writes) /\ ms2 = ApplyWrites(ms, o.writes)
    BY <1>7 DEF Carried, Apply
  <2>2. AllOk(o.writes) /\ \A i \in 1 .. Len(o.writes) : o.writes[i].family \in handles
    BY <1>1, <1>7, AllOnOk
  <2>3. \A i \in 1 .. Len(o.writes) : Target(o.writes[i].family) = o.writes[i].family
    BY <2>2 DEF Target
  <2>4. /\ d2 \in DbSet /\ d2.live = d.live /\ d2.births = d.births /\ d2.exists = d.exists
    BY <1>2, <2>1, <2>2, WritesDone
  <2>5. ms2.live = ms.live
    BY <1>2, <2>1, <2>2, WritesApplied
  <2>6. SameOn(d2.m, ms2.m, Families)
    BY <1>2, <2>1, <2>2, <2>3, SameWrites
  <2> HIDE DEF d2, ms2
  <2>7. Holds(d2, ms2)
    BY <1>2, <1>3, <2>4, <2>5, <2>6 DEF Holds
  <2> QED
    BY <2>4, <2>7 DEF d2, ms2, o, CarriedRight
<1> QED
  BY <1>1, <1>5, <1>6, <1>7

-----------------------------------------------------------------------------
\* The run and the replay, and what is compared with the models.

\* Between two operations, and after the draw of one more.
AtPoint(i) == gen = Replay[i].g /\ models = Replay[i].ms /\ writes = Replay[i].n

InCall(i) == /\ gen = Drawn(i).g /\ op = Drawn(i).op
             /\ models = Replay[i].ms /\ writes = Replay[i].n

\* The run is where a replay of its seed is, and the database holds what the
\* models say, after a call what they are about to say.
Following ==
  /\ pc \in {"open", "loop"} => Holds(db, models) /\ \E i \in 0 .. MaxOps : AtPoint(i)
  /\ pc \in {"call", "apply"} => \E i \in 0 .. MaxOps - 1 : InCall(i)
  /\ pc = "call" => Holds(db, models)
  /\ pc = "apply" => Durable(op) /\ Holds(db, Apply(op, models))

\* The database is there from the first opening on.
Held ==
  /\ pc = "open" => db = NoDb
  /\ pc \in Running => db.exists

\* After each durable call the database held what the replay comes to after as
\* many writes.
TrailPoint(j, i) == Replay[i].n = j - 1 /\ Holds(trail[j], Replay[i].ms)
TrailRight ==
  \A j \in 1 .. Len(trail) : trail[j].exists /\ \E i \in 0 .. MaxOps : TrailPoint(j, i)

\* A snapshot shows what its copy of the models says, on the families that it
\* still shows.
SnapshotRight(s, L, births) ==
  /\ s \in [db : DbSet, models : ModelsSet]
  /\ s.models.live \subseteq L
  /\ \A f \in s.models.live : s.db.births[f] = births[f]
  /\ SameOn(s.db.m, s.models.m, s.models.live)
SnapsRight == pc \in Running => \A i \in DOMAIN snaps : SnapshotRight(snaps[i], handles, db.births)

\* What NoFalseAlarm and LossIsFound say of a rejected and an accepted disk.
RightlyRejected ==
  Shown(recovery.disk) \notin {Shown(trail[i]) : i \in {ack + 1, ack + 2} \cap DOMAIN trail}
RightlyAccepted ==
  Shown(recovery.disk) \in
    {Shown(trail[i]) : i \in {ack + 1, ack + 2} \cap DOMAIN trail}
      \cup {ShownBy(ModelsAfterWrites(ack + 1))}

\* Between the attempts: nothing has been written, and a second attempt comes
\* after a first that had a reason to fail.
Trying ==
  /\ recovery.attempt \in {0, 1} /\ db.live = recovery.disk.live /\ db.m = recovery.disk.m
  /\ db.exists \/ (recovery.attempt = 0 /\ ack = 0 /\ db.live = {0})
  /\ recovery.attempt = 1 => Shown(recovery.disk) # Shown(trail[ack + 1])

\* The recovered database holds what the models say.
Usable ==
  /\ db.exists /\ models \in ModelsSet /\ handles = models.live /\ models.live = db.live
  /\ SameOn(db.m, models.m, models.live)

RecoveryRight ==
  /\ pc \in {"recover", "touch", "recheck", "passed", "recoveryFailed"} =>
       /\ recovery \in [attempt : Nat, recovered : Nat, disk : DbSet] /\ db \in DbSet
       /\ Len(trail) \in {ack + 1, ack + 2}
  /\ pc = "recover" => Trying
  /\ pc \in {"touch", "recheck"} => Usable
  /\ pc \in {"touch", "recheck", "passed"} => RightlyAccepted
  /\ pc = "recoveryFailed" => RightlyRejected

CompareInv ==
  /\ RunInv /\ pc # "runFailed"
  /\ Following /\ Held /\ TrailRight /\ SnapsRight /\ RecoveryRight

\* What depends on the seed alone stays.
LEMMA SameReplay ==
  ASSUME seed' = seed
  PROVE  /\ Replay' = Replay /\ MaxOps' = MaxOps
         /\ \A n : ModelsAfterWrites(n)' = ModelsAfterWrites(n)
<1> DEFINE F(s) == CHOOSE R : R = [i \in 0 .. Len(s) |->
                      IF i = 0 THEN [g |-> NewGen, ms |-> NoModels, n |-> 0]
                      ELSE LET last == R[i - 1]
                               next == NextOp(last.g, last.ms, s[i])
                           IN  [g |-> next.g, ms |-> Apply(next.op, last.ms),
                                n |-> last.n + (IF Durable(next.op) THEN 1 ELSE 0)]]
           M(R, m, n) == IF R[m].n < n THEN R[m].ms
                         ELSE R[Min({i \in 0 .. m : R[i].n = n})].ms
<1>1. Replay = F(seed) /\ Replay' = F(seed')
  BY Zenon DEF Replay, MaxOps
<1>2. \A n : ModelsAfterWrites(n) = M(Replay, MaxOps, n)
  BY Zenon DEF ModelsAfterWrites, PastEnd
<1>3. \A n : ModelsAfterWrites(n)' = M(Replay', MaxOps', n)
  BY Zenon DEF ModelsAfterWrites, PastEnd
<1> HIDE DEF F, M
<1>4. MaxOps' = MaxOps
  BY DEF MaxOps
<1>5. Replay' = Replay
  BY <1>1, Zenon
<1> QED
  BY <1>2, <1>3, <1>4, <1>5

LEMMA TrailStays ==
  ASSUME TrailRight, seed' = seed, trail' = trail
  PROVE  TrailRight'
BY SameReplay DEF TrailRight, TrailPoint

LEMMA PointRight ==
  ASSUME RunInv, NEW i \in 0 .. MaxOps
  PROVE  /\ ReplayRight(i) /\ MaxOps \in Nat /\ i \in Nat
         /\ AtPoint(i) => /\ gen \in Generator /\ gen.done = i
                          /\ models \in ModelsSet /\ models.live = gen.live
<1>1. ReplayRight(i) /\ MaxOps \in Nat
  BY ReplayAll DEF RunInv, RunTypes
<1> QED
  BY <1>1 DEF ReplayRight, AtPoint

LEMMA CallRight ==
  ASSUME RunInv, NEW i \in 0 .. MaxOps - 1, InCall(i)
  PROVE  /\ ReplayRight(i) /\ GeneratedRightly(Replay[i].g, Drawn(i))
         /\ i + 1 \in 0 .. MaxOps /\ gen = Replay[i + 1].g
         /\ Replay[i + 1].ms = Apply(op, models)
         /\ IF Durable(op) THEN Replay[i + 1].n = writes + 1
            ELSE Replay[i + 1].n = writes /\ Replay[i + 1].ms = models
         /\ Replay[i].g.live = models.live
<1>1. seed \in Seq(Draw) /\ MaxOps \in Nat
  BY ReplayAll DEF RunInv, RunTypes
<1>2. ReplayRight(i) /\ i + 1 \in 0 .. MaxOps
  BY <1>1, ReplayAll
<1>3. /\ GeneratedRightly(Replay[i].g, Drawn(i))
      /\ Replay[i + 1].g = Drawn(i).g /\ Replay[i + 1].ms = Apply(Drawn(i).op, Replay[i].ms)
      /\ IF Durable(Drawn(i).op) THEN Replay[i + 1].n = Replay[i].n + 1
         ELSE Replay[i + 1].n = Replay[i].n /\ Replay[i + 1].ms = Replay[i].ms
  BY <1>1, <1>2, ReplayOnce
<1> QED
  BY <1>2, <1>3 DEF InCall, ReplayRight

LEMMA CompareInit == Init => CompareInv
<1> SUFFICES ASSUME Init PROVE CompareInv
  OBVIOUS
<1>1. RunInv
  BY RunInvInit
<1>2. /\ pc = "open" /\ gen = NewGen /\ models = NoModels /\ writes = 0 /\ db = NoDb
      /\ trail = <<[NoDb EXCEPT !.exists = TRUE]>>
  BY DEF Init
<1>3. MaxOps \in Nat /\ Replay[0] = Fresh
  BY <1>1, ReplaySteps, ReplayAll DEF RunInv, RunTypes
<1>4. 0 \in 0 .. MaxOps /\ Replay[0].g = NewGen /\ Replay[0].ms = NoModels /\ Replay[0].n = 0
  BY <1>3 DEF Fresh
<1>5. Following
  BY <1>2, <1>4, EmptyDb DEF Following, AtPoint
<1>6. Held
  BY <1>2 DEF Held, Running
<1>7. TrailRight
  <2> DEFINE e == [NoDb EXCEPT !.exists = TRUE]
  <2>1. e.exists
    BY EmptyDb DEF DbSet
  <2>2. Holds(e, NoModels) /\ trail = <<e>>
    BY <1>2, EmptyDb
  <2> HIDE DEF e
  <2>3. Len(trail) = 1 /\ trail[1] = e
    BY <2>2
  <2>4. TrailPoint(1, 0)
    BY <1>4, <2>2, <2>3 DEF TrailPoint
  <2>5. \A j \in 1 .. Len(trail) : j = 1
    BY <2>3
  <2> QED
    BY <1>4, <2>1, <2>3, <2>4, <2>5 DEF TrailRight
<1>8. SnapsRight
  BY <1>2 DEF SnapsRight, Running
<1>9. RecoveryRight
  BY <1>2 DEF RecoveryRight
<1> QED
  BY <1>1, <1>2, <1>5, <1>6, <1>7, <1>8, <1>9 DEF CompareInv

LEMMA CompareOpen == ASSUME CompareInv, Open PROVE CompareInv'
<1> USE DEF CompareInv
<1>1. /\ pc = "open" /\ pc' = "loop" /\ db' = [db EXCEPT !.exists = TRUE]
      /\ UNCHANGED <<seed, gen, models, snaps, writes, ack, trail>>
  BY DEF Open
<1>2. RunInv'
  BY RunOpen
<1>3. Replay' = Replay /\ MaxOps' = MaxOps
  BY <1>1, SameReplay
<1>4. db = NoDb /\ snaps = <<>>
  BY <1>1 DEF Held, RunInv, Bookkeeping
<1>5. db'.exists
  BY <1>1, <1>4, EmptyDb DEF DbSet
<1>6. Following'
  <2>1. PICK i \in 0 .. MaxOps : AtPoint(i)
    BY <1>1 DEF Following
  <2>2. models = NoModels
    <3>1. gen = NewGen
      BY <1>1 DEF RunInv, Bookkeeping
    <3>2. gen.done = i /\ NewGen.done = 0
      BY <2>1, PointRight DEF NewGen
    <3>3. i = 0
      BY <3>1, <3>2
    <3>4. Replay[0].ms = NoModels
      BY PointRight, ReplaySteps DEF Fresh
    <3> QED
      BY <2>1, <3>3, <3>4 DEF AtPoint
  <2>3. Holds(db', models')
    BY <1>1, <1>4, <2>2, EmptyDb
  <2>4. AtPoint(i)' /\ i \in 0 .. MaxOps'
    BY <1>1, <1>3, <2>1 DEF AtPoint
  <2> QED
    BY <1>1, <2>3, <2>4 DEF Following
<1>7. Held'
  BY <1>1, <1>5 DEF Held
<1>8. TrailRight'
  BY <1>1, TrailStays
<1>9. SnapsRight'
  BY <1>1, <1>4 DEF SnapsRight
<1>10. RecoveryRight'
  BY <1>1 DEF RecoveryRight
<1> QED
  BY <1>1, <1>2, <1>6, <1>7, <1>8, <1>9, <1>10

LEMMA CompareGenerate == ASSUME CompareInv, Generate PROVE CompareInv'
<1> USE DEF CompareInv
<1>1. /\ pc = "loop" /\ pc' = "call" /\ gen.done < MaxOps
      /\ gen' = NextOp(gen, models, seed[gen.done + 1]).g
      /\ op' = NextOp(gen, models, seed[gen.done + 1]).op
      /\ UNCHANGED <<seed, models, handles, snaps, writes, db, trail>>
  BY DEF Generate
<1>2. RunInv'
  BY RunGenerate
<1>3. Replay' = Replay /\ MaxOps' = MaxOps
  BY <1>1, SameReplay
<1>4. PICK i \in 0 .. MaxOps : AtPoint(i)
  BY <1>1 DEF Following
<1>5. gen.done = i /\ i \in 0 .. MaxOps - 1
  BY <1>1, <1>4, PointRight
<1>6. gen' = Drawn(i).g /\ op' = Drawn(i).op
  BY <1>1, <1>4, <1>5 DEF AtPoint, Drawn
<1>7. InCall(i)'
  <2>1. Drawn(i)' = Drawn(i)
    BY <1>1, <1>3 DEF Drawn
  <2> QED
    BY <1>1, <1>3, <1>4, <1>6, <2>1 DEF InCall, AtPoint
<1>8. Following'
  BY <1>1, <1>3, <1>5, <1>7 DEF Following
<1>9. Held'
  BY <1>1 DEF Held, Running
<1>10. TrailRight'
  BY <1>1, TrailStays
<1>11. SnapsRight'
  BY <1>1 DEF SnapsRight, Running
<1>12. RecoveryRight'
  BY <1>1 DEF RecoveryRight
<1> QED
  BY <1>1, <1>2, <1>8, <1>9, <1>10, <1>11, <1>12

LEMMA CompareDurable == ASSUME CompareInv, CallDurable PROVE CompareInv'
<1> USE DEF CompareInv
<1>1. /\ pc = "call" /\ pc' = "apply" /\ Durable(op)
      /\ db' = Carried(db, op) /\ trail' = Append(trail, db') /\ handles' = db'.live
      /\ UNCHANGED <<seed, gen, op, models, writes, ack>>
  BY DEF CallDurable
<1>2. RunInv'
  BY RunDurable
<1>3. Replay' = Replay /\ MaxOps' = MaxOps
  BY <1>1, SameReplay
<1>4. PICK i \in 0 .. MaxOps - 1 : InCall(i)
  BY <1>1 DEF Following
<1>5. Holds(db, models) /\ handles = models.live /\ db.exists
  BY <1>1 DEF Following, RunInv, FamiliesKnown, Running, Holds, Held
<1> DEFINE r == Drawn(i)
<1>6. GeneratedRightly(Replay[i].g, r) /\ op = r.op /\ Replay[i].g.live = models.live
  BY <1>4, CallRight DEF InCall
<1> HIDE DEF r
<1>7. /\ Holds(db', Apply(op, models)) /\ db'.exists = db.exists
      /\ \A f \in Families : f \in handles \/ op.kind # "create" => db'.births[f] = db.births[f]
  <2> PICK g : g = Replay[i].g
    OBVIOUS
  <2>1. GeneratedRightly(g, r) /\ g.live = models.live /\ Durable(r.op)
    BY <1>1, <1>6
  <2>2. CarriedRight(db, models, r.op)
    BY <1>5, <2>1, CarriedHolds
  <2> QED
    BY <1>1, <1>6, <2>2 DEF CarriedRight
<1>8. Following'
  <2>1. Drawn(i)' = Drawn(i)
    BY <1>1, <1>3 DEF Drawn
  <2>2. InCall(i)' /\ i \in 0 .. MaxOps' - 1
    BY <1>1, <1>3, <1>4, <2>1 DEF InCall
  <2>3. (Durable(op) /\ Holds(db, Apply(op, models)))'
    BY <1>1, <1>7
  <2> QED
    BY <1>1, <2>2, <2>3 DEF Following
<1>9. Held'
  BY <1>1, <1>5, <1>7 DEF Held
<1>10. TrailRight'
  <2>1. /\ IsSequence(trail) /\ Len(trail) \in Nat /\ writes \in Nat
        /\ Len(trail) - 1 = writes
    BY <1>1 DEF RunInv, RunTypes, Bookkeeping, Running, IsSequence
  <2>2. Len(trail') = Len(trail) + 1 /\ trail'[Len(trail) + 1] = db'
        /\ \A j \in 1 .. Len(trail) : trail'[j] = trail[j]
    <3>1. PICK S : trail \in Seq(S)
      BY <2>1 DEF IsSequence
    <3>2. trail \in Seq(S \cup {db'}) /\ db' \in S \cup {db'}
      BY <3>1, SeqMonotonic
    <3> QED
      BY <1>1, <3>2, AppendProperties
  <2>3. ASSUME NEW j \in 1 .. Len(trail')
        PROVE  trail'[j].exists /\ \E p \in 0 .. MaxOps' : TrailPoint(j, p)'
    <3>1. CASE j \in 1 .. Len(trail)
      <4>1. trail[j].exists /\ \E p \in 0 .. MaxOps : TrailPoint(j, p)
        BY <3>1 DEF TrailRight
      <4> QED
        BY <1>3, <2>2, <3>1, <4>1 DEF TrailPoint
    <3>2. CASE j = Len(trail) + 1
      <4>1. /\ i + 1 \in 0 .. MaxOps /\ Replay[i + 1].ms = Apply(op, models)
            /\ Replay[i + 1].n = writes + 1
        BY <1>1, <1>4, CallRight
      <4> PICK p : p = i + 1
        OBVIOUS
      <4>2. p \in 0 .. MaxOps' /\ Replay'[p].ms = Apply(op, models) /\ Replay'[p].n = j - 1
        BY <1>3, <2>1, <3>2, <4>1
      <4>3. trail'[j] = db'
        BY <2>2, <3>2
      <4>4. TrailPoint(j, p)'
        BY <1>7, <4>2, <4>3 DEF TrailPoint
      <4> QED
        BY <1>5, <1>7, <4>2, <4>3, <4>4
    <3> QED
      BY <2>1, <2>2, <2>3, <3>1, <3>2
  <2> QED
    BY <2>3 DEF TrailRight
<1>11. SnapsRight'
  <2>1. db'.live = CASE op.kind = "create" -> db.live \cup {op.family}
                     [] op.kind = "drop"   -> db.live \ {op.family}
                     [] op.kind = "write"  -> db.live
    <3>1. Apply(op, models).live = r.g.live /\ db'.live = Apply(op, models).live
      BY <1>5, <1>6, <1>7, OperationApplied DEF Holds
    <3>2. db.live = models.live /\ op.kind \in {"create", "drop", "write"}
      BY <1>1, <1>5 DEF Holds, Durable
    <3> QED
      BY <1>6, <3>1, <3>2 DEF GeneratedRightly
  <2>2. handles = db.live /\ op.kind \in {"create", "drop", "write"}
        /\ models.live \subseteq Families
    BY <1>1, <1>5 DEF Holds, Durable, ModelsSet
  <2>3. ASSUME NEW s, SnapshotRight(s, handles, db.births), op.kind # "drop"
        PROVE  SnapshotRight(s, handles', db'.births)
    <3>1. s.models.live \subseteq handles' /\ s.models.live \subseteq handles
      BY <1>1, <2>1, <2>2, <2>3 DEF SnapshotRight
    <3>2. \A f \in s.models.live : db'.births[f] = db.births[f]
      BY <1>5, <1>7, <2>2, <3>1
    <3> QED
      BY <2>3, <3>1, <3>2 DEF SnapshotRight
  <2>4. ASSUME NEW s, SnapshotRight(s, handles, db.births), op.kind = "drop",
               NEW t, t = [s EXCEPT !.models.live = @ \ {op.family}]
        PROVE  SnapshotRight(t, handles', db'.births)
    <3> DEFINE L == s.models.live \ {op.family}
               ms == [s.models EXCEPT !.live = L]
    <3>1. t = [s EXCEPT !.models = ms] /\ s \in [db : DbSet, models : ModelsSet]
      BY <2>4 DEF SnapshotRight
    <3>2. ms \in ModelsSet /\ ms.live = L /\ ms.m = s.models.m
      <4>1. s.models \in ModelsSet
        BY <3>1
      <4> QED
        BY <4>1 DEF ModelsSet
    <3> HIDE DEF ms
    <3>3. t \in [db : DbSet, models : ModelsSet] /\ t.models = ms /\ t.db = s.db
      BY <3>1, <3>2
    <3>4. L \subseteq handles' /\ L \subseteq handles /\ L \subseteq s.models.live
      BY <1>1, <2>1, <2>2, <2>4 DEF SnapshotRight
    <3> HIDE DEF L
    <3>5. \A f \in L : db'.births[f] = s.db.births[f]
      BY <1>5, <1>7, <2>2, <2>4, <3>4 DEF SnapshotRight
    <3>6. SameOn(t.db.m, t.models.m, t.models.live)
      <4>1. SameOn(s.db.m, s.models.m, s.models.live)
        BY <2>4 DEF SnapshotRight
      <4>2. SameOn(s.db.m, s.models.m, L)
        BY <3>4, <4>1 DEF SameOn
      <4> QED
        BY <3>2, <3>3, <4>2
    <3> QED
      BY <3>2, <3>3, <3>4, <3>5, <3>6 DEF SnapshotRight
  <2>5. \A j \in DOMAIN snaps : SnapshotRight(snaps[j], handles, db.births)
    BY <1>1 DEF SnapsRight, Running
  <2>6. ASSUME NEW j \in DOMAIN snaps' PROVE SnapshotRight(snaps'[j], handles', db'.births)
    <3>1. CASE op.kind = "drop"
      <4>1. snaps' = [n \in DOMAIN snaps |-> [snaps[n] EXCEPT !.models.live = @ \ {op.family}]]
        BY <3>1 DEF CallDurable
      <4>2. j \in DOMAIN snaps /\ snaps'[j] = [snaps[j] EXCEPT !.models.live = @ \ {op.family}]
        BY <2>6, <4>1
      <4>3. SnapshotRight(snaps[j], handles, db.births)
        BY <2>5, <4>2
      <4> QED
        BY <2>4, <3>1, <4>2, <4>3
    <3>2. CASE op.kind # "drop"
      <4>1. snaps' = snaps
        BY <3>2 DEF CallDurable
      <4> QED
        BY <2>3, <2>5, <2>6, <3>2, <4>1
    <3> QED
      BY <3>1, <3>2
  <2> QED
    BY <2>6 DEF SnapsRight
<1>12. RecoveryRight'
  BY <1>1 DEF RecoveryRight
<1> QED
  BY <1>1, <1>2, <1>8, <1>9, <1>10, <1>11, <1>12

LEMMA CompareApply == ASSUME CompareInv, ApplyAndAck PROVE CompareInv'
<1> USE DEF CompareInv
<1>1. /\ pc = "apply" /\ pc' = "loop" /\ models' = Apply(op, models) /\ writes' = writes + 1
      /\ UNCHANGED <<seed, gen, op, handles, snaps, db, trail>>
  BY DEF ApplyAndAck
<1>2. RunInv'
  BY RunApply
<1>3. Replay' = Replay /\ MaxOps' = MaxOps
  BY <1>1, SameReplay
<1>4. PICK i \in 0 .. MaxOps - 1 : InCall(i)
  BY <1>1 DEF Following
<1>5. Durable(op) /\ Holds(db, Apply(op, models))
  BY <1>1 DEF Following
<1>6. Following'
  <2>1. /\ i + 1 \in 0 .. MaxOps /\ gen = Replay[i + 1].g
        /\ Replay[i + 1].ms = Apply(op, models) /\ Replay[i + 1].n = writes + 1
    BY <1>4, <1>5, CallRight
  <2> PICK p : p = i + 1
    OBVIOUS
  <2>2. AtPoint(p)' /\ p \in 0 .. MaxOps'
    BY <1>1, <1>3, <2>1 DEF AtPoint
  <2> QED
    BY <1>1, <1>5, <2>2 DEF Following
<1>7. Held'
  BY <1>1 DEF Held, Running
<1>8. TrailRight'
  BY <1>1, TrailStays
<1>9. SnapsRight'
  BY <1>1 DEF SnapsRight, Running
<1>10. RecoveryRight'
  BY <1>1 DEF RecoveryRight
<1> QED
  BY <1>1, <1>2, <1>6, <1>7, <1>8, <1>9, <1>10

\* A call that writes nothing, finds what it looks for, and leaves the
\* snapshots as they should be.
LEMMA CompareCall ==
  ASSUME CompareInv, RunInv', pc = "call", pc' = "loop",
         op.kind \in {"walk", "compact", "snapTake", "snapCheck", "reopen"},
         UNCHANGED <<seed, gen, models, handles, writes, db, trail>>,
         \A j \in DOMAIN snaps' : SnapshotRight(snaps'[j], handles, db.births)
  PROVE  CompareInv'
<1> USE DEF CompareInv
<1>1. Replay' = Replay /\ MaxOps' = MaxOps
  BY SameReplay
<1>2. PICK i \in 0 .. MaxOps - 1 : InCall(i)
  BY DEF Following
<1>3. Following'
  <2>1. /\ i + 1 \in 0 .. MaxOps /\ gen = Replay[i + 1].g
        /\ Replay[i + 1].ms = models /\ Replay[i + 1].n = writes
    <3>1. ~Durable(op)
      BY DEF Durable
    <3> QED
      BY <1>2, <3>1, CallRight
  <2> PICK p : p = i + 1
    OBVIOUS
  <2>2. AtPoint(p)' /\ p \in 0 .. MaxOps'
    BY <1>1, <2>1 DEF AtPoint
  <2>3. Holds(db', models')
    BY DEF Following
  <2> QED
    BY <2>2, <2>3 DEF Following
<1>4. Held'
  BY DEF Held, Running
<1>5. TrailRight'
  BY TrailStays
<1>6. SnapsRight'
  BY DEF SnapsRight, Running
<1>7. RecoveryRight'
  BY DEF RecoveryRight
<1> QED
  BY <1>3, <1>4, <1>5, <1>6, <1>7

\* What the checks of a run look at.
LEMMA ChecksPass ==
  ASSUME CompareInv, pc \in {"loop", "call"}
  PROVE  /\ CheckAll /\ Opens(handles, FALSE)
         /\ \A f \in Families : Agrees(db, models, f)
         /\ \A s : SnapshotRight(s, handles, db.births) => CheckSnapshot(s)
         /\ \A j \in DOMAIN snaps : SnapshotRight(snaps[j], handles, db.births)
<1> USE DEF CompareInv
<1>1. Holds(db, models) /\ handles = db.live /\ db.exists
  BY DEF Following, Held, RunInv, FamiliesKnown, Running
<1>2. \A f \in Families : Agrees(db, models, f)
  BY <1>1, HoldsAgrees
<1>3. handles \subseteq Families
  BY <1>1 DEF Holds, DbSet
<1>4. CheckAll /\ Opens(handles, FALSE)
  BY <1>1, <1>2, <1>3 DEF CheckAll, Opens
<1>5. ASSUME NEW s, SnapshotRight(s, handles, db.births) PROVE CheckSnapshot(s)
  <2>1. /\ s.db \in DbSet /\ s.models.live \in SUBSET Families
        /\ SameOn(s.db.m, s.models.m, s.models.live)
    BY <1>5 DEF SnapshotRight, ModelsSet
  <2>2. ASSUME NEW f \in s.models.live \cap handles PROVE Agrees(View(s), s.models, f)
    <3> DEFINE shown(e) == IF s.db.births[e] = db.births[e] THEN s.db.m[e]
                           ELSE [k \in Keys |-> Absent]
    <3>1. View(s) = [s.db EXCEPT !.m = [e \in Families |-> shown(e)]]
      BY DEF View
    <3>2. shown(f) = s.db.m[f] /\ f \in Families
      BY <1>5, <2>1, <2>2 DEF SnapshotRight
    <3> HIDE DEF shown
    <3>3. View(s).m[f] = s.db.m[f]
      BY <2>1, <3>1, <3>2 DEF DbSet
    <3>4. Agrees(s.db, s.models, f)
      BY <2>1, <2>2, SameAgrees
    <3> QED
      BY <3>3, <3>4 DEF Agrees
  <2> QED
    BY <2>2 DEF CheckSnapshot
<1>6. \A j \in DOMAIN snaps : SnapshotRight(snaps[j], handles, db.births)
  BY DEF SnapsRight, Running
<1> QED
  BY <1>2, <1>4, <1>5, <1>6

LEMMA CompareRead == ASSUME CompareInv, RunInv', CallRead PROVE CompareInv'
<1>1. /\ pc = "call" /\ op.kind = "walk"
      /\ pc' = IF Agrees(db, models, op.family) THEN "loop" ELSE "runFailed"
      /\ UNCHANGED <<seed, gen, models, handles, snaps, writes, db, trail>>
  BY DEF CallRead, After
<1>2. op.family \in Families
  <2>1. PICK i \in 0 .. MaxOps - 1 : InCall(i)
    BY <1>1 DEF CompareInv, Following
  <2>2. GeneratedRightly(Replay[i].g, Drawn(i)) /\ op = Drawn(i).op
    BY <2>1, CallRight DEF InCall, CompareInv
  <2> QED
    BY <1>1, <2>2 DEF GeneratedRightly
<1>3. pc' = "loop"
  BY <1>1, <1>2, ChecksPass
<1> QED
  BY <1>1, <1>3, ChecksPass, CompareCall

LEMMA CompareCompact == ASSUME CompareInv, RunInv', CallCompact PROVE CompareInv'
<1>1. /\ pc = "call" /\ op.kind = "compact"
      /\ pc' = IF CheckAll /\ (snaps # <<>> => CheckSnapshot(snaps[1])) THEN "loop" ELSE "runFailed"
      /\ UNCHANGED <<seed, gen, models, handles, snaps, writes, db, trail>>
  BY DEF CallCompact, After
<1>2. snaps # <<>> => 1 \in DOMAIN snaps
  BY DEF CompareInv, RunInv, RunTypes, IsSequence
<1>3. pc' = "loop"
  BY <1>1, <1>2, ChecksPass
<1> QED
  BY <1>1, <1>3, ChecksPass, CompareCall

LEMMA CompareReopen == ASSUME CompareInv, RunInv', CallReopen PROVE CompareInv'
<1>1. /\ pc = "call" /\ op.kind = "reopen" /\ snaps' = <<>>
      /\ pc' = IF Opens(handles, FALSE) /\ CheckAll THEN "loop" ELSE "runFailed"
      /\ UNCHANGED <<seed, gen, models, handles, writes, db, trail>>
  BY DEF CallReopen, After
<1>2. pc' = "loop"
  BY <1>1, ChecksPass
<1>3. \A j \in DOMAIN snaps' : SnapshotRight(snaps'[j], handles, db.births)
  BY <1>1
<1> QED
  BY <1>1, <1>2, <1>3, CompareCall

LEMMA CompareSnapTake == ASSUME CompareInv, RunInv', CallSnapTake PROVE CompareInv'
<1> DEFINE s == [db |-> db, models |-> models]
<1>1. /\ pc = "call" /\ op.kind = "snapTake" /\ pc' = "loop" /\ snaps' = Append(snaps, s)
      /\ UNCHANGED <<seed, gen, models, handles, writes, db, trail>>
  BY DEF CallSnapTake, After
<1>2. SnapshotRight(s, handles, db.births)
  <2>1. Holds(db, models) /\ handles = db.live
    BY <1>1 DEF CompareInv, Following, RunInv, FamiliesKnown, Running
  <2> QED
    BY <2>1 DEF SnapshotRight, Holds, SameOn, ModelsSet
<1> HIDE DEF s
<1>3. PICK S : snaps \in Seq(S)
  BY DEF CompareInv, RunInv, RunTypes, IsSequence
<1>4. snaps \in Seq(S \cup {s}) /\ s \in S \cup {s}
  BY <1>3, SeqMonotonic
<1>5. /\ DOMAIN snaps = 1 .. Len(snaps) /\ DOMAIN snaps' = 1 .. Len(snaps) + 1
      /\ Len(snaps) \in Nat /\ snaps'[Len(snaps) + 1] = s
      /\ \A j \in 1 .. Len(snaps) : snaps'[j] = snaps[j]
  BY <1>1, <1>4, AppendProperties
<1>6. \A j \in DOMAIN snaps' : j \in DOMAIN snaps \/ j = Len(snaps) + 1
  BY <1>5
<1>7. \A j \in DOMAIN snaps' : SnapshotRight(snaps'[j], handles, db.births)
  BY <1>1, <1>2, <1>5, <1>6, ChecksPass
<1> QED
  BY <1>1, <1>7, CompareCall

LEMMA CompareSnapCheck == ASSUME CompareInv, RunInv', CallSnapCheck PROVE CompareInv'
<1>1. /\ pc = "call" /\ op.kind = "snapCheck"
      /\ UNCHANGED <<seed, gen, models, handles, writes, db, trail>>
  BY DEF CallSnapCheck
<1>2. op.id \in 0 .. gen.snapsOpen /\ gen.snapsOpen + 1 <= Len(snaps) /\ gen.snapsOpen \in Nat
  BY <1>1 DEF CompareInv, RunInv, RunTypes, SnapshotsKnown, Running
<1>3. PICK S : snaps \in Seq(S)
  BY DEF CompareInv, RunInv, RunTypes, IsSequence
<1>0. PICK n : n = op.id + 1
  OBVIOUS
<1>4. n \in 1 .. Len(snaps) /\ op.id < Len(snaps) /\ Len(snaps) \in Nat /\ DOMAIN snaps = 1 .. Len(snaps)
  BY <1>0, <1>2, <1>3
<1>5. snaps' = RemoveAt(snaps, n) /\ pc' = IF CheckSnapshot(snaps[n]) THEN "loop" ELSE "runFailed"
  BY <1>0, <1>4 DEF CallSnapCheck, After
<1>6. pc' = "loop"
  BY <1>1, <1>4, <1>5, ChecksPass
<1>7. ASSUME NEW j \in DOMAIN snaps' PROVE \E p \in DOMAIN snaps : snaps'[j] = snaps[p]
  <2> DEFINE a == SubSeq(snaps, 1, n - 1)
             b == SubSeq(snaps, n + 1, Len(snaps))
  <2>1. a \in Seq(S) /\ Len(a) = n - 1 /\ \A p \in 1 .. n - 1 : a[p] = snaps[p]
    BY <1>3, <1>4
  <2>2. b \in Seq(S) /\ Len(b) = Len(snaps) - n /\ \A p \in 1 .. Len(snaps) - n : b[p] = snaps[n + p]
    <3>1. \A p \in n + 1 .. Len(snaps) : snaps[p] \in S
      BY <1>3, <1>4
    <3>0. PICK m, l : m = n + 1 /\ l = Len(snaps)
      OBVIOUS
    <3>2. l \in Nat /\ n \in Nat /\ n <= l /\ m = n + 1 /\ m \in Int /\ l \in Int
          /\ \A p \in m .. l : snaps[p] \in S
      BY <1>4, <3>0, <3>1
    <3> DEFINE c == SubSeq(snaps, m, l)
    <3>3. /\ c \in Seq(S) /\ Len(c) = IF m <= l THEN l - m + 1 ELSE 0
          /\ \A p \in 1 .. l - m + 1 : c[p] = snaps[m + p - 1]
      BY <3>2, SubSeqProperties
    <3> HIDE DEF c
    <3>4. Len(c) = l - n /\ l - m + 1 = l - n
      BY <3>2, <3>3
    <3>5. \A p \in 1 .. l - n : c[p] = snaps[n + p]
      BY <3>2, <3>3
    <3>6. c = b /\ l = Len(snaps)
      BY <3>0 DEF c
    <3> HIDE DEF b
    <3> QED
      BY <3>3, <3>4, <3>5, <3>6
  <2>3. snaps' = a \o b
    BY <1>5 DEF RemoveAt
  <2> HIDE DEF a, b
  <2>4. /\ a \o b \in Seq(S) /\ Len(a \o b) = Len(a) + Len(b)
        /\ \A p \in 1 .. Len(a) + Len(b) : (a \o b)[p] = IF p <= Len(a) THEN a[p] ELSE b[p - Len(a)]
    BY <2>1, <2>2, ConcatProperties
  <2>5. j \in 1 .. Len(snaps) - 1
    BY <1>4, <1>7, <2>1, <2>2, <2>3, <2>4
  <2>8. snaps'[j] = IF j <= n - 1 THEN a[j] ELSE b[j - (n - 1)]
    <3>1. Len(a) = n - 1 /\ Len(a) + Len(b) = Len(snaps) - 1
      BY <1>4, <2>1, <2>2
    <3>2. j \in 1 .. Len(a) + Len(b)
      BY <2>5, <3>1
    <3>3. (a \o b)[j] = IF j <= Len(a) THEN a[j] ELSE b[j - Len(a)]
      BY <2>4, <3>2
    <3> QED
      BY <2>3, <3>1, <3>3
  <2>6. CASE j <= n - 1
    <3>1. snaps'[j] = snaps[j] /\ j \in DOMAIN snaps
      BY <1>4, <2>1, <2>5, <2>6, <2>8
    <3> QED
      BY <3>1
  <2>7. CASE ~(j <= n - 1)
    <3>1. snaps'[j] = b[j - (n - 1)]
      BY <2>7, <2>8
    <3>2. j - (n - 1) \in 1 .. Len(snaps) - n /\ n + (j - (n - 1)) = j + 1 /\ j + 1 \in DOMAIN snaps
      BY <1>4, <2>5, <2>7
    <3>3. snaps'[j] = snaps[j + 1]
      BY <2>2, <3>1, <3>2
    <3> QED
      BY <3>2, <3>3
  <2> QED
    BY <2>6, <2>7
<1>8. \A j \in DOMAIN snaps' : SnapshotRight(snaps'[j], handles, db.births)
  BY <1>1, <1>7, ChecksPass
<1> QED
  BY <1>1, <1>6, <1>8, CompareCall

LEMMA CompareFinish == ASSUME CompareInv, RunInv', Finish PROVE CompareInv'
<1> USE DEF CompareInv
<1>1. /\ pc = "loop" /\ UNCHANGED <<seed, trail>>
      /\ pc' = IF (\A j \in DOMAIN snaps : CheckSnapshot(snaps[j]))
                  /\ CheckAll /\ Opens(handles, FALSE)
               THEN "finished" ELSE "runFailed"
  BY DEF Finish
<1>2. pc' = "finished"
  BY <1>1, ChecksPass
<1>3. TrailRight'
  BY <1>1, TrailStays
<1>4. Following' /\ Held' /\ SnapsRight' /\ RecoveryRight'
  BY <1>2 DEF Following, Held, SnapsRight, RecoveryRight, Running
<1> QED
  BY <1>2, <1>3, <1>4

\* What a crash may leave: a database, or nothing before the first opening.
Leavable(d) == d \in DbSet /\ (d.exists \/ (ack = 0 /\ d.live = {0}))

LEMMA LeftRight ==
  ASSUME CompareInv, pc \in {"open", "loop", "call", "apply"}, NEW d \in Left
  PROVE  Leavable(d)
<1> USE DEF CompareInv
<1>1. CASE d = db
  <2>1. CASE pc = "open"
    <3>1. db = NoDb /\ ack = 0
      BY <2>1 DEF Held, RunInv, Bookkeeping
    <3>2. NoDb.live = {0} /\ NoDb \in DbSet
      BY EmptyDb DEF NoDb
    <3> QED
      BY <1>1, <3>1, <3>2 DEF Leavable
  <2>2. CASE pc \in Running
    BY <1>1, <2>2 DEF Leavable, Held, Following, Holds, Running
  <2> QED
    BY <2>1, <2>2 DEF Running
<1>2. CASE pc = "open" /\ d = [db EXCEPT !.exists = TRUE]
  BY <1>2, EmptyDb DEF Leavable, Held, Holds, DbSet
<1>3. IsSequence(trail) /\ Len(trail) \in Nat /\ writes \in Nat
  BY DEF RunInv, RunTypes, IsSequence
<1>4. ASSUME NEW j \in 1 .. Len(trail) PROVE trail[j] \in DbSet /\ trail[j].exists
  BY DEF TrailRight, TrailPoint, Holds
<1>5. CASE pc = "loop" /\ writes > 0 /\ d = trail[Len(trail) - 1]
  <2>1. Len(trail) - 1 = writes
    BY <1>3, <1>5 DEF RunInv, Bookkeeping, Running
  <2>2. Len(trail) - 1 \in 1 .. Len(trail)
    BY <1>3, <1>5, <2>1
  <2> QED
    BY <1>4, <1>5, <2>2 DEF Leavable
<1>6. CASE /\ pc = "apply" /\ op.kind = "write"
           /\ \E i \in 1 .. Len(op.writes) - 1 :
                d = DoWrite(trail[Len(trail) - 1], SubSeq(op.writes, 1, i))
  <2>1. Len(trail) - 1 = writes + 1
    BY <1>6 DEF RunInv, Bookkeeping, Running
  <2>2. Len(trail) - 1 \in 1 .. Len(trail)
    BY <1>3, <2>1
  <2>0. PICK e : e = trail[Len(trail) - 1]
    OBVIOUS
  <2>3. e \in DbSet /\ e.exists
    BY <1>4, <2>0, <2>2
  <2>4. PICK p \in 0 .. MaxOps - 1 : InCall(p)
    BY <1>6 DEF Following
  <2>5. AllOn(op.writes, Replay[p].g.live)
    BY <1>6, <2>4, CallRight DEF GeneratedRightly, InCall
  <2>6. PICK i \in 1 .. Len(op.writes) - 1 : d = DoWrite(e, SubSeq(op.writes, 1, i))
    BY <1>6, <2>0
  <2> DEFINE ws == SubSeq(op.writes, 1, i)
  <2>7. AllOk(ws)
    <3>1. PICK S : op.writes \in Seq(S)
      BY <2>5 DEF AllOn, IsSequence
    <3>2. Len(ws) = i /\ \A j \in 1 .. i : ws[j] = op.writes[j]
      BY <3>1
    <3>3. i \in Nat /\ \A j \in 1 .. i : j \in 1 .. Len(op.writes)
      BY <3>1
    <3>4. \A j \in 1 .. Len(op.writes) : WriteOk(op.writes[j])
      BY <2>5, AllOnOk DEF AllOk
    <3> HIDE DEF ws
    <3> QED
      BY <3>2, <3>3, <3>4 DEF AllOk
  <2> HIDE DEF ws
  <2>8. DoWrite(e, ws) \in DbSet /\ DoWrite(e, ws).exists = e.exists
    BY <2>3, <2>7, WritesDone
  <2> QED
    BY <2>3, <2>6, <2>8 DEF Leavable, ws
<1>7. \/ d = db
      \/ pc = "open" /\ d = [db EXCEPT !.exists = TRUE]
      \/ pc = "loop" /\ writes > 0 /\ d = trail[Len(trail) - 1]
      \/ /\ pc = "apply" /\ op.kind = "write"
         /\ \E i \in 1 .. Len(op.writes) - 1 :
              d = DoWrite(trail[Len(trail) - 1], SubSeq(op.writes, 1, i))
  BY Zenon DEF Left
<1> QED
  BY <1>1, <1>2, <1>5, <1>6, <1>7

LEMMA CompareCrash == ASSUME CompareInv, RunInv', Crash PROVE CompareInv'
<1> USE DEF CompareInv
<1>1. /\ pc \in {"open", "loop", "call", "apply"} /\ pc' = "recover"
      /\ UNCHANGED <<seed, ack, trail>>
  BY DEF Crash
<1>2. PICK d \in Left : db' = d /\ recovery' = [NoRecovery EXCEPT !.disk = d]
  BY DEF Crash
<1>3. Leavable(d)
  BY <1>1, LeftRight
<1>4. Following' /\ Held' /\ SnapsRight'
  BY <1>1 DEF Following, Held, SnapsRight, Running
<1>5. TrailRight'
  BY <1>1, TrailStays
<1>6. RecoveryRight'
  <2>1. recovery' = [attempt |-> 0, recovered |-> 0, disk |-> d]
    BY <1>2 DEF NoRecovery
  <2>2. Len(trail) \in {ack + 1, ack + 2}
    <3>1. Len(trail) \in Nat /\ writes \in Nat /\ ack \in Nat
      BY DEF RunInv, RunTypes, IsSequence
    <3>2. CASE pc = "open"
      BY <3>1, <3>2 DEF RunInv, Bookkeeping
    <3>3. CASE pc \in Running
      BY <3>1, <3>3 DEF RunInv, Bookkeeping
    <3> QED
      BY <1>1, <3>2, <3>3 DEF Running
  <2>3. Trying'
    BY <1>1, <1>2, <1>3, <2>1 DEF Trying, Leavable
  <2> QED
    <3>1. recovery' \in [attempt : Nat, recovered : Nat, disk : DbSet] /\ db' \in DbSet
      <4>1. d \in DbSet
        BY <1>3 DEF Leavable
      <4>2. db' \in DbSet
        BY <1>2, <4>1
      <4>3. 0 \in Nat /\ recovery' = [attempt |-> 0, recovered |-> 0, disk |-> d]
        BY <2>1
      <4> HIDE DEF DbSet
      <4> QED
        BY <4>1, <4>2, <4>3
    <3>2. Len(trail') \in {ack' + 1, ack' + 2}
      BY <1>1, <2>2
    <3> QED
      BY <1>1, <2>3, <3>1, <3>2 DEF RecoveryRight
<1> QED
  BY <1>1, <1>4, <1>5, <1>6

-----------------------------------------------------------------------------
\* CheckRecovered.

\* What the run held after n writes is what the second process is told to
\* expect.
LEMMA TrailModels ==
  ASSUME CompareInv, NEW n \in Nat, n + 1 \in 1 .. Len(trail)
  PROVE  ~PastEnd(n) /\ Holds(trail[n + 1], ModelsAfterWrites(n))
<1>1. seed \in Seq(Draw)
  BY DEF CompareInv, RunInv, RunTypes
<1>2. MaxOps \in Nat /\ \A i \in 0 .. MaxOps : ReplayRight(i)
  BY <1>1, ReplayAll
<1>0. PICK j : j = n + 1
  OBVIOUS
<1>3. PICK i \in 0 .. MaxOps : TrailPoint(j, i)
  BY <1>0 DEF CompareInv, TrailRight
<1>4. Replay[i].n = n /\ Holds(trail[n + 1], Replay[i].ms)
  BY <1>0, <1>3 DEF TrailPoint
<1>5. ~PastEnd(n)
  <2>1. MaxOps \in i .. MaxOps
    BY <1>2
  <2>2. Replay[i].n <= Replay[MaxOps].n
    BY <1>1, <2>1, CountsGrow
  <2>3. Replay[MaxOps].n \in Nat
    BY <1>2 DEF ReplayRight
  <2> QED
    BY <1>4, <2>2, <2>3 DEF PastEnd
<1>6. PICK p \in 0 .. MaxOps : Replay[p].n = n /\ ModelsAfterWrites(n) = Replay[p].ms
  BY <1>1, <1>5, ModelsFound
<1>7. Replay[p].ms = Replay[i].ms
  BY <1>1, <1>4, <1>6, SameCount
<1> QED
  BY <1>4, <1>5, <1>6, <1>7

Found(n) == LET ms == ModelsAfterWrites(n)
            IN  Opens(ms.live, n = 0) /\ \A f \in ms.live : Agrees(db, ms, f)

LEMMA TryingTypes ==
  ASSUME CompareInv, pc = "recover", NEW n, n = ack + recovery.attempt
  PROVE  /\ ack \in Nat /\ n \in Nat /\ recovery.attempt \in {0, 1}
         /\ db \in DbSet /\ recovery.disk \in DbSet /\ Shown(db) = Shown(recovery.disk)
         /\ Len(trail) \in {ack + 1, ack + 2}
<1>1. /\ Trying /\ ack \in Nat /\ db \in DbSet /\ recovery.disk \in DbSet
      /\ Len(trail) \in {ack + 1, ack + 2}
  BY DEF CompareInv, RecoveryRight, RunInv, RunTypes
<1>2. Shown(db) = Shown(recovery.disk)
  BY <1>1 DEF Trying, Shown
<1> QED
  BY <1>1, <1>2 DEF Trying

\* A disk that shows what the run held after n writes is accepted for n.
LEMMA Matched ==
  ASSUME CompareInv, pc = "recover", NEW n, n = ack + recovery.attempt,
         n + 1 \in 1 .. Len(trail), Shown(recovery.disk) = Shown(trail[n + 1])
  PROVE  ~PastEnd(n) /\ Found(n)
<1> DEFINE ms == ModelsAfterWrites(n)
           e == trail[n + 1]
<1>1. n \in Nat /\ ack \in Nat /\ recovery.attempt \in {0, 1}
  BY TryingTypes
<1>2. ~PastEnd(n) /\ Holds(e, ms)
  BY <1>1, TrailModels
<1>3. Shown(db) = Shown(e)
  BY TryingTypes
<1>4. db.live = e.live /\ \A f \in db.live, k \in Keys : Reads(k, db.m[f][k]) = Reads(k, e.m[f][k])
  <2> HIDE DEF e
  <2> QED
    BY <1>3, ShownAlike
<1> HIDE DEF ms, e
<1>5. e.live = ms.live /\ ms.live \subseteq Families
  BY <1>2 DEF Holds, ModelsSet
<1>6. ASSUME NEW f \in ms.live PROVE Agrees(db, ms, f)
  <2>1. Agrees(e, ms, f)
    BY <1>2, <1>5, HoldsAgrees
  <2> QED
    BY <1>4, <1>5, <2>1 DEF Agrees
<1>7. Opens(ms.live, n = 0)
  <2>1. db.exists \/ (recovery.attempt = 0 /\ ack = 0 /\ db.live = {0})
    BY DEF CompareInv, RecoveryRight, Trying
  <2>2. db.live = ms.live
    BY <1>4, <1>5
  <2>3. ~db.exists => n = 0
    BY <2>1
  <2> QED
    BY <2>1, <2>2, <2>3 DEF Opens
<1> QED
  BY <1>2, <1>6, <1>7 DEF Found, ms

\* A disk that is accepted for n shows what the models say after n writes.
LEMMA Accepted ==
  ASSUME CompareInv, pc = "recover", NEW n, n = ack + recovery.attempt,
         Found(n), recovery.attempt = 1 => ~PastEnd(n)
  PROVE  /\ RightlyAccepted
         /\ ModelsAfterWrites(n) \in ModelsSet /\ db.live = ModelsAfterWrites(n).live
         /\ SameOn(db.m, ModelsAfterWrites(n).m, ModelsAfterWrites(n).live)
<1> DEFINE ms == ModelsAfterWrites(n)
<1>1. /\ n \in Nat /\ ack \in Nat /\ recovery.attempt \in {0, 1}
      /\ db \in DbSet /\ Shown(db) = Shown(recovery.disk) /\ Len(trail) \in {ack + 1, ack + 2}
  BY TryingTypes
<1>2. recovery.attempt = 0 => ~PastEnd(n) /\ Holds(trail[ack + 1], ms)
  <2>1. recovery.attempt = 0 => n = ack /\ n + 1 \in 1 .. Len(trail)
    BY <1>1
  <2> HIDE DEF ms
  <2> QED
    BY <1>1, <2>1, TrailModels DEF ms
<1>3. PICK i \in 0 .. MaxOps : Replay[i].n = n /\ ms = Replay[i].ms
  BY <1>1, <1>2, ModelsFound DEF CompareInv, RunInv, RunTypes
<1>4. ms \in ModelsSet
  BY <1>3, ReplayAll DEF CompareInv, RunInv, RunTypes, ReplayRight
<1>5. Opens(ms.live, n = 0) /\ \A f \in ms.live : Agrees(db, ms, f)
  BY DEF Found
<1> HIDE DEF ms
<1>6. db.live = ms.live
  <2>1. db.exists \/ db.live = {0}
    BY DEF CompareInv, RecoveryRight, Trying
  <2> QED
    BY <1>5, <2>1 DEF Opens
<1>7. SameOn(db.m, ms.m, ms.live)
  BY <1>1, <1>4, <1>5, AgreesSame DEF ModelsSet
<1>8. Shown(recovery.disk) = ShownBy(ms)
  BY <1>1, <1>5, <1>6, ShownAsModels
<1>9. CASE recovery.attempt = 0
  <2>1. Shown(trail[ack + 1]) = ShownBy(ms)
    BY <1>2, <1>9, HoldsShown
  <2>2. ack + 1 \in DOMAIN trail
    BY <1>1 DEF CompareInv, RunInv, RunTypes, IsSequence
  <2> QED
    BY <1>4, <1>6, <1>7, <1>8, <2>1, <2>2 DEF RightlyAccepted, ms
<1>10. CASE recovery.attempt = 1
  <2>1. n = ack + 1
    BY <1>10
  <2> QED
    BY <1>4, <1>6, <1>7, <1>8, <2>1 DEF RightlyAccepted, ms
<1> QED
  BY <1>1, <1>9, <1>10

\* A disk that is rejected for n does not show what the run held then.
LEMMA Unmatched ==
  ASSUME CompareInv, pc = "recover", NEW n, n = ack + recovery.attempt, PastEnd(n) \/ ~Found(n)
  PROVE  n + 1 \in 1 .. Len(trail) => Shown(recovery.disk) # Shown(trail[n + 1])
BY Matched

LEMMA CompareAttempt == ASSUME CompareInv, RunInv', Attempt PROVE CompareInv'
<1> USE DEF CompareInv
<1>0. PICK n : n = ack + recovery.attempt
  OBVIOUS
<1>1. pc = "recover" /\ UNCHANGED <<seed, ack, trail>>
  BY DEF Attempt
<1>2. /\ ack \in Nat /\ n \in Nat /\ recovery.attempt \in {0, 1} /\ Trying
      /\ db \in DbSet /\ Shown(db) = Shown(recovery.disk) /\ Len(trail) \in {ack + 1, ack + 2}
      /\ recovery \in [attempt : Nat, recovered : Nat, disk : DbSet]
  BY <1>0, <1>1, TryingTypes DEF RecoveryRight
<1>3. DOMAIN trail = 1 .. Len(trail)
  BY DEF RunInv, RunTypes, IsSequence
<1>4. TrailRight'
  BY <1>1, TrailStays
<1>5. \A k : ModelsAfterWrites(k)' = ModelsAfterWrites(k)
  BY <1>1, SameReplay
<1>6. ASSUME pc' \in {"recover", "touch", "recoveryFailed"}
      PROVE  Following' /\ Held' /\ SnapsRight'
  BY <1>6 DEF Following, Held, SnapsRight, Running
<1> DEFINE ms == ModelsAfterWrites(n)
           opens == Opens(ms.live, n = 0)
<1>7. \/ /\ recovery.attempt = 1 /\ PastEnd(ack + 1)
         /\ pc' = "recoveryFailed" /\ UNCHANGED <<models, handles, db, recovery>>
      \/ /\ ~(recovery.attempt = 1 /\ PastEnd(ack + 1)) /\ Found(n)
         /\ pc' = "touch" /\ models' = ms /\ handles' = ms.live
         /\ db' = [db EXCEPT !.exists = TRUE]
         /\ recovery' = [recovery EXCEPT !.recovered = n]
      \/ /\ ~Found(n)
         /\ pc' = IF recovery.attempt = 0 THEN "recover" ELSE "recoveryFailed"
         /\ recovery' = [recovery EXCEPT !.attempt = 1]
         /\ db' = [db EXCEPT !.exists = @ \/ opens]
  BY <1>0, Zenon DEF Attempt, Found
<1> HIDE DEF ms, opens
\* The second attempt has failed in one of its two ways.
<1>8. ASSUME recovery.attempt = 1, PastEnd(n) \/ ~Found(n), recovery'.disk = recovery.disk
      PROVE  RightlyRejected'
  <2>1. n = ack + 1
    BY <1>0, <1>2, <1>8
  <2>2. Shown(recovery.disk) # Shown(trail[ack + 1])
    BY <1>2, <1>8 DEF Trying
  <2>3. ack + 2 \in 1 .. Len(trail) => Shown(recovery.disk) # Shown(trail[ack + 2])
    <3>1. n + 1 = ack + 2
      BY <1>2, <2>1
    <3> QED
      BY <1>0, <1>1, <1>8, <3>1, Unmatched
  <2>4. \A i \in {ack + 1, ack + 2} \cap DOMAIN trail : Shown(recovery.disk) # Shown(trail[i])
    BY <1>3, <2>2, <2>3
  <2>5. /\ Shown(recovery.disk)' = Shown(recovery.disk)
        /\ \A i : Shown(trail[i])' = Shown(trail[i])
    BY <1>1, <1>8 DEF Shown
  <2> QED
    BY <1>1, <1>8, <2>4 DEF RightlyRejected
<1>9. CASE /\ recovery.attempt = 1 /\ PastEnd(ack + 1)
           /\ pc' = "recoveryFailed" /\ UNCHANGED <<models, handles, db, recovery>>
  <2>1. RightlyRejected'
    BY <1>0, <1>2, <1>8, <1>9
  <2>2. RecoveryRight'
    BY <1>1, <1>2, <1>9, <2>1 DEF RecoveryRight
  <2> QED
    BY <1>4, <1>6, <1>9, <2>2
<1>10. CASE /\ ~(recovery.attempt = 1 /\ PastEnd(ack + 1)) /\ Found(n)
            /\ pc' = "touch" /\ models' = ms /\ handles' = ms.live
            /\ db' = [db EXCEPT !.exists = TRUE]
            /\ recovery' = [recovery EXCEPT !.recovered = n]
  <2>1. recovery.attempt = 1 => ~PastEnd(n)
    BY <1>0, <1>10
  <2>2. /\ RightlyAccepted
        /\ ms \in ModelsSet /\ db.live = ms.live /\ SameOn(db.m, ms.m, ms.live)
    BY <1>0, <1>1, <1>10, <2>1, Accepted DEF ms
  <2>3. db' \in DbSet /\ db'.exists /\ db'.live = db.live /\ db'.m = db.m
    BY <1>2, <1>10 DEF DbSet
  <2>4. Usable'
    BY <1>10, <2>2, <2>3 DEF Usable
  <2>5. /\ recovery' \in [attempt : Nat, recovered : Nat, disk : DbSet]
        /\ recovery'.disk = recovery.disk
    <3> HIDE DEF DbSet
    <3> QED
      BY <1>2, <1>10
  <2>6. RightlyAccepted'
    BY <1>1, <1>5, <2>2, <2>5 DEF RightlyAccepted
  <2>7. RecoveryRight'
    BY <1>1, <1>2, <1>10, <2>3, <2>4, <2>5, <2>6 DEF RecoveryRight
  <2> QED
    BY <1>4, <1>6, <1>10, <2>7
<1>11. CASE /\ ~Found(n)
            /\ pc' = IF recovery.attempt = 0 THEN "recover" ELSE "recoveryFailed"
            /\ recovery' = [recovery EXCEPT !.attempt = 1]
            /\ db' = [db EXCEPT !.exists = @ \/ opens]
  <2>1. /\ recovery' \in [attempt : Nat, recovered : Nat, disk : DbSet]
        /\ recovery'.disk = recovery.disk /\ recovery'.attempt = 1
    <3> HIDE DEF DbSet
    <3> QED
      BY <1>2, <1>11
  <2>2. db' \in DbSet /\ db'.live = db.live /\ db'.m = db.m /\ db'.exists = (db.exists \/ opens)
    <3>1. opens \in BOOLEAN /\ db.exists \in BOOLEAN
      BY <1>2 DEF opens, Opens, DbSet
    <3> QED
      BY <1>2, <1>11, <3>1 DEF DbSet
  <2>3. CASE recovery.attempt = 1
    <3>1. RightlyRejected'
      BY <1>8, <1>11, <2>1, <2>3
    <3>2. RecoveryRight'
      BY <1>1, <1>2, <1>11, <2>1, <2>2, <2>3, <3>1 DEF RecoveryRight
    <3> QED
      BY <1>4, <1>6, <1>11, <2>3, <3>2
  <2>4. CASE recovery.attempt = 0
    <3>1. n = ack /\ n + 1 \in 1 .. Len(trail)
      BY <1>0, <1>2, <2>4
    <3>2. Shown(recovery.disk) # Shown(trail[ack + 1])
      BY <1>0, <1>1, <1>11, <3>1, Unmatched
    <3>3. db'.exists
      <4>1. CASE db.exists
        BY <2>2, <4>1
      <4>2. CASE ~db.exists
        <5>1. ack = 0 /\ n = 0 /\ db.live = {0}
          BY <1>2, <3>1, <4>2 DEF Trying
        <5>2. ms.live = {0}
          <6>1. Replay[0].n = 0 /\ Replay[0].ms = NoModels /\ MaxOps \in Nat
            BY ReplayAll, ReplaySteps DEF RunInv, RunTypes, Fresh
          <6>2. ~PastEnd(n)
            BY <1>2, <3>1, TrailModels
          <6>3. PICK i \in 0 .. MaxOps : Replay[i].n = n /\ ms = Replay[i].ms
            BY <1>2, <6>2, ModelsFound DEF RunInv, RunTypes, ms
          <6>4. Replay[i].ms = Replay[0].ms
            <7>1. /\ seed \in Seq(Draw) /\ i \in 0 .. MaxOps /\ 0 \in 0 .. MaxOps
                  /\ Replay[i].n = Replay[0].n
              BY <5>1, <6>1, <6>3 DEF RunInv, RunTypes
            <7> QED
              BY <7>1, SameCount
          <6> QED
            BY <6>1, <6>3, <6>4, FreshModels
        <5> QED
          BY <2>2, <4>2, <5>1, <5>2 DEF opens, Opens
      <4> QED
        BY <4>1, <4>2
    <3>4. Trying'
      <4>1. Shown(recovery.disk)' = Shown(recovery.disk)
            /\ Shown(trail[ack + 1])' = Shown(trail[ack + 1])
        BY <1>1, <2>1 DEF Shown
      <4> QED
        BY <1>1, <1>2, <2>1, <2>2, <3>2, <3>3, <4>1 DEF Trying
    <3>5. RecoveryRight'
      BY <1>1, <1>2, <1>11, <2>1, <2>2, <2>4, <3>4 DEF RecoveryRight
    <3> QED
      BY <1>4, <1>6, <1>11, <2>4, <3>5
  <2> QED
    BY <1>2, <2>3, <2>4
<1> QED
  BY <1>7, <1>9, <1>10, <1>11

LEMMA CompareTouch == ASSUME CompareInv, RunInv', Touch PROVE CompareInv'
<1> USE DEF CompareInv
<1>1. pc = "touch" /\ pc' = "recheck" /\ UNCHANGED <<seed, handles, ack, trail, recovery>>
  BY DEF Touch
<1>2. PICK t \in Touches, f \in models.live :
        /\ db' = DoWrite(db, <<RandomWrite(NewGen, t, f, 0)>>)
        /\ models' = ApplyWrite(models, RandomWrite(NewGen, t, f, 0))
  BY Zenon DEF Touch
<1>3. PICK w : w = RandomWrite(NewGen, t, f, 0)
  OBVIOUS
<1>4. Usable /\ db \in DbSet /\ RightlyAccepted
  BY <1>1 DEF RecoveryRight
<1>5. WriteOk(w) /\ w.family = f /\ f \in handles
  <2>1. f \in Families /\ f \in handles
    BY <1>4 DEF Usable, ModelsSet
  <2>2. NewGen.version = 1 /\ 1 \in Nat /\ 0 \in Nat /\ t \in WriteDraw
    BY DEF NewGen
  <2>3. PICK g : g = NewGen
    OBVIOUS
  <2>4. WriteOk(RandomWrite(g, t, f, 0)) /\ RandomWrite(g, t, f, 0).family = f
    BY <2>1, <2>2, <2>3, RandomWriteOk
  <2> QED
    BY <1>3, <2>1, <2>3, <2>4
<1> DEFINE ws == <<w>>
<1>6. Len(ws) = 1 /\ ws[1] = w /\ Len(ws) \in Nat
  OBVIOUS
<1>7. db' = DoWrite(db, ws) /\ models' = ApplyWrite(models, w)
  BY <1>2, <1>3
<1> HIDE DEF ws
<1>8. AllOk(ws)
  BY <1>5, <1>6 DEF AllOk
<1>9. ApplyWrites(models, ws) = ApplyWrite(models, w)
  <2>1. PICK g : ModelsBy(g, models, ws)
    BY <1>6, ModelsRun
  <2>2. g[0] = models /\ g[1] = ApplyWrite(g[0], ws[1]) /\ ApplyWrites(models, ws) = g[1]
    BY <1>6, <2>1 DEF ModelsBy
  <2> QED
    BY <1>6, <2>2
<1>10. models \in ModelsSet /\ models.live \in SUBSET Families /\ SameOn(db.m, models.m, models.live)
  BY <1>4 DEF Usable, ModelsSet
<1>11. \A i \in 1 .. Len(ws) : Target(ws[i].family) = ws[i].family
  BY <1>5, <1>6 DEF Target
<1>12. models' \in ModelsSet /\ models'.live = models.live
  BY <1>7, <1>8, <1>9, <1>10, WritesApplied
<1>13. db' \in DbSet /\ db'.live = db.live /\ db'.exists = db.exists
  BY <1>4, <1>7, <1>8, WritesDone
<1>14. SameOn(DoWrite(db, ws).m, ApplyWrites(models, ws).m, models.live)
  BY <1>4, <1>8, <1>10, <1>11, SameWrites
<1>15. SameOn(db'.m, models'.m, models'.live)
  BY <1>7, <1>9, <1>12, <1>14
<1>16. Usable'
  BY <1>1, <1>4, <1>12, <1>13, <1>15 DEF Usable
<1>17. RightlyAccepted'
  <2>1. \A k : ModelsAfterWrites(k)' = ModelsAfterWrites(k)
    BY <1>1, SameReplay
  <2> QED
    BY <1>1, <1>4, <2>1 DEF RightlyAccepted
<1>18. RecoveryRight'
  BY <1>1, <1>13, <1>16, <1>17 DEF RecoveryRight
<1>19. Following' /\ Held' /\ SnapsRight'
  BY <1>1 DEF Following, Held, SnapsRight, Running
<1>20. TrailRight'
  BY <1>1, TrailStays
<1> QED
  BY <1>1, <1>18, <1>19, <1>20

LEMMA CompareRecheck == ASSUME CompareInv, RunInv', Recheck PROVE CompareInv'
<1> USE DEF CompareInv
<1>1. /\ pc = "recheck" /\ UNCHANGED <<seed, ack, db, trail, recovery>>
      /\ pc' = IF Opens(models.live, FALSE) /\ CheckAll THEN "passed" ELSE "recoveryFailed"
  BY DEF Recheck
<1>2. Usable /\ db \in DbSet /\ RightlyAccepted
  BY <1>1 DEF RecoveryRight
<1>3. models.live \in SUBSET Families /\ SameOn(db.m, models.m, models.live)
  BY <1>2 DEF Usable, ModelsSet
<1>4. \A f \in models.live : Agrees(db, models, f)
  BY <1>2, <1>3, SameAgrees
<1>5. pc' = "passed"
  BY <1>1, <1>2, <1>4 DEF Usable, CheckAll, Opens
<1>6. RightlyAccepted'
  <2>1. \A k : ModelsAfterWrites(k)' = ModelsAfterWrites(k)
    BY <1>1, SameReplay
  <2> QED
    BY <1>1, <1>2, <2>1 DEF RightlyAccepted
<1>7. RecoveryRight'
  BY <1>1, <1>5, <1>6 DEF RecoveryRight
<1>8. Following' /\ Held' /\ SnapsRight'
  BY <1>5 DEF Following, Held, SnapsRight, Running
<1>9. TrailRight'
  BY <1>1, TrailStays
<1> QED
  BY <1>5, <1>7, <1>8, <1>9

LEMMA CompareStays == ASSUME CompareInv, RunInv', UNCHANGED vars PROVE CompareInv'
<1> USE DEF CompareInv
<1>1. /\ Replay' = Replay /\ MaxOps' = MaxOps
      /\ \A k : ModelsAfterWrites(k)' = ModelsAfterWrites(k)
  BY SameReplay DEF vars
<1>2. UNCHANGED <<seed, pc, gen, op, models, handles, snaps, writes, ack, db, trail, recovery>>
  BY DEF vars
<1>3. \A i : Drawn(i)' = Drawn(i)
  BY <1>1, <1>2 DEF Drawn
<1>4. Following'
  BY <1>1, <1>2, <1>3 DEF Following, AtPoint, InCall
<1>5. Held' /\ SnapsRight'
  BY <1>2 DEF Held, SnapsRight
<1>6. TrailRight'
  BY <1>2, TrailStays
<1>7. RecoveryRight'
  <2>1. Shown(recovery.disk)' = Shown(recovery.disk) /\ \A i : Shown(trail[i])' = Shown(trail[i])
    BY <1>2 DEF Shown
  <2>2. RightlyRejected' = RightlyRejected
    BY <1>2 DEF RightlyRejected, Shown
  <2>3. RightlyAccepted' = RightlyAccepted
    BY <1>1, <1>2 DEF RightlyAccepted
  <2> QED
    BY <1>2, <2>1, <2>2, <2>3 DEF RecoveryRight, Trying, Usable
<1> QED
  BY <1>2, <1>4, <1>5, <1>6, <1>7

LEMMA CompareStep == CompareInv /\ [Next]_vars => CompareInv'
<1> SUFFICES ASSUME CompareInv, [Next]_vars PROVE CompareInv'
  OBVIOUS
<1>0. RunInv'
  BY RunInvStep DEF CompareInv
<1>1. CASE Open
  BY <1>1, CompareOpen
<1>2. CASE Generate
  BY <1>2, CompareGenerate
<1>3. CASE CallDurable
  BY <1>3, CompareDurable
<1>4. CASE ApplyAndAck
  BY <1>4, CompareApply
<1>5. CASE CallRead
  BY <1>0, <1>5, CompareRead
<1>6. CASE CallSnapTake
  BY <1>0, <1>6, CompareSnapTake
<1>7. CASE CallSnapCheck
  BY <1>0, <1>7, CompareSnapCheck
<1>8. CASE CallReopen
  BY <1>0, <1>8, CompareReopen
<1>9. CASE CallCompact
  BY <1>0, <1>9, CompareCompact
<1>10. CASE Finish
  BY <1>0, <1>10, CompareFinish
<1>11. CASE Crash
  BY <1>0, <1>11, CompareCrash
<1>12. CASE Attempt
  BY <1>0, <1>12, CompareAttempt
<1>13. CASE Touch
  BY <1>0, <1>13, CompareTouch
<1>14. CASE Recheck
  BY <1>0, <1>14, CompareRecheck
<1>15. CASE UNCHANGED vars
  BY <1>0, <1>15, CompareStays
<1> QED
  BY <1>1, <1>2, <1>3, <1>4, <1>5, <1>6, <1>7, <1>8, <1>9, <1>10, <1>11,
     <1>12, <1>13, <1>14, <1>15 DEF Next

\* RunScenario and CheckRecovered (conf_model.cc 736-892, 894-982): against a
\* database that keeps its promises no comparison of a run ever fails, and what
\* a crash leaves of it is never rejected.
THEOREM NeverFalseAlarm == Spec => []NoFalseAlarm
<1>1. CompareInv => NoFalseAlarm
  BY DEF CompareInv, RecoveryRight, RightlyRejected, NoFalseAlarm
<1> QED
  BY <1>1, CompareInit, CompareStep, PTL DEF Spec

\* CheckRecovered and ModelsAfterWrites (conf_model.cc 894-982, 350-367): what is
\* accepted after a crash is what the run held after the acknowledged writes or
\* one more, or what one more write would make of it.
THEOREM LossAlwaysFound == Spec => []LossIsFound
<1>1. CompareInv => LossIsFound
  BY DEF CompareInv, RecoveryRight, RightlyAccepted, LossIsFound
<1> QED
  BY <1>1, CompareInit, CompareStep, PTL DEF Spec
==============================================================================
