------------------------------ MODULE BenchRunner ------------------------------
(***************************************************************************)
(* The benchmark program (environment/bench/lsmbench.cc): `run` carries    *)
(* out the steps of a workload, checks every read against the model and    *)
(* acknowledges the batches; it may be killed.  `check`, told how many     *)
(* batches were acknowledged, generates the workload again, decides        *)
(* whether the next batch had been applied too, and goes on with it; `read`*)
(* runs phase F over what a completed run has left.                        *)
(*                                                                         *)
(* The generator is deterministic: what a second process generates again   *)
(* is kept in `batches`, the state it reaches then in `gen`.  The database *)
(* holds for each id the version its value was made of, 0 for none; a      *)
(* batch is atomic and survives the kill once Write has returned.  With    *)
(* Faulty an engine that loses the last batch, or part of the one under    *)
(* way, is modelled too.                                                   *)
(***************************************************************************)
EXTENDS Workload

CONSTANTS
  Workloads,  \* the workloads, each with its --reopen-at and, as a bound, the batches
              \* of a run, maxBatches
  Continue,   \* --continue
  ScanLens,   \* the lengths of scans
  Faulty      \* whether the engine may recover wrongly

ASSUME RunnerAssumption ==
  /\ Continue \in Nat \ {0} /\ ScanLens \subseteq Nat /\ Faulty \in BOOLEAN
  /\ \A w \in Workloads : Shaped(w)

NoSnapshot == [held |-> FALSE]
NoStep == Step("none", "?")

VARIABLES
  w,         \* the workload
  batches,   \* history: the batches generated so far
  gen,       \* the generator after them
  mode,      \* "run", "read", or "check" and then "continue"
  pc,        \* where the process is in it
  step,      \* st
  model,     \* model_
  snapshot,  \* snapshot_ and snap_sample_
  executed,  \* executed_batches_
  ack,       \* the number in the ack file
  db,        \* what the database holds
  left,      \* history: what the crash left of it
  check      \* Check: the next batch and whether it was applied, `done`

vars == <<w, batches, gen, mode, pc, step, model, snapshot, executed, ack, db, left, check>>

Ids == 0 .. w.universe - 1

\* The ids that may be read: some beyond those that are written.
ReadIds == 0 .. w.universe

-----------------------------------------------------------------------------
\* Reads, compared with the model.

VersionOf(m, id) == IF id \in DOMAIN m THEN m[id] ELSE 0

\* DoGet.
GetMatches(d, ver, id) == VersionOf(d, id) = VersionOf(Contents(ver), id)

\* An iterator that goes up over the ids S yields s in its first n steps.
Yields(s, S, n) ==
  /\ \A i \in DOMAIN s : s[i] \in S /\ \A id \in S : id < s[i] => \E j \in 1 .. i - 1 : s[j] = id
  /\ \A i, j \in DOMAIN s : i < j => s[i] < s[j]
  /\ 1 .. n \subseteq DOMAIN s \/ \A id \in S : \E i \in DOMAIN s : s[i] = id
YieldsBack(s, S, n) == Yields([i \in DOMAIN s |-> -s[i]], {-id : id \in S}, n)

\* What the model expects: NextLive and PrevLive, again and again.
Expected(ver, from, n) ==
  LET At[i \in 0 .. n] ==
        IF i = 0 THEN NextLive(ver, from)
        ELSE LET id == At[i - 1] IN IF id \in DOMAIN ver THEN NextLive(ver, id + 1) ELSE id
  IN  [i \in {j \in 1 .. n : At[j - 1] \in DOMAIN ver} |-> At[i - 1]]
ExpectedBack(ver, from, n) ==
  LET At[i \in 0 .. n] ==
        IF i = 0 THEN PrevLive(ver, from)
        ELSE LET id == At[i - 1] IN IF id > 0 THEN PrevLive(ver, id - 1) ELSE -1
  IN  [i \in {j \in 1 .. n : At[j - 1] \in DOMAIN ver} |-> At[i - 1]]

\* DoScan and DoRScan; a position past the end is the last key for the reverse
\* scan (SeekToLast).
Visible(d) == {id \in DOMAIN d : d[id] # 0}
ScanMatches(d, ver, from, n) ==
  LET s == Expected(ver, from, n)
  IN  /\ Yields(s, {id \in Visible(d) : id >= from}, n)
      /\ \A i \in DOMAIN s : d[s[i]] = ver[s[i]]
RScanMatches(d, ver, from, n) ==
  LET s == ExpectedBack(ver, from, n)
  IN  /\ YieldsBack(s, {id \in Visible(d) : id <= from}, n)
      /\ \A i \in DOMAIN s : d[s[i]] = ver[s[i]]

\* Phase F and its full scan, forward and backward.
PhaseFMatches(ver) ==
  /\ \A id \in ReadIds : GetMatches(db, ver, id)
  /\ \A from \in ReadIds, n \in ScanLens :
       ScanMatches(db, ver, from, n) /\ RScanMatches(db, ver, from, n)
  /\ db = Contents(ver)

-----------------------------------------------------------------------------
\* Run.

EmptyDb == [id \in Ids |-> 0]

NoCheck == [next |-> <<>>, before |-> <<>>, applied |-> FALSE, done |-> 0]

Init ==
  /\ w \in Workloads
  /\ gen \in NewGens(w)
  /\ batches = <<>> /\ mode = "run" /\ pc = "loop" /\ step = NoStep
  /\ model = NewModel(w) /\ snapshot = NoSnapshot /\ executed = 0
  /\ ack = 0 /\ db = EmptyDb /\ left = EmptyDb /\ check = NoCheck

Generated(r) ==
  /\ gen' = r.g /\ step' = r.step
  /\ batches' = IF r.step.kind = "batch" THEN Append(batches, r.step.ops) ELSE batches

\* The next step, in a run or in the continuation of a check.
Generate ==
  /\ pc = "loop" /\ (mode = "continue" => check.done < Continue)
  /\ mode = "run" => Len(batches) < w.maxBatches
  /\ \E r \in NextStep(w, gen, mode = "continue") : Generated(r)
  /\ pc' = "step"
  /\ UNCHANGED <<w, mode, model, snapshot, executed, ack, db, left, check>>

\* The step is done, or a comparison failed.
GoOn(ok) == pc' = (IF ok THEN "loop" ELSE "mismatch") /\ step' = NoStep

In(kind) == pc = "step" /\ step.kind = kind

\* DoBatch: the write; the values are made of the versions the model will have.
BatchWrite ==
  /\ In("batch")
  /\ LET m == ReplayBatch(model, step.ops)
     IN  db' = [id \in Ids |-> IF \E i \in DOMAIN step.ops : step.ops[i].id = id
                               THEN Contents(m.ver)[id] ELSE db[id]]
  /\ pc' = "written"
  /\ UNCHANGED <<w, mode, batches, gen, step, model, snapshot, executed, ack, left, check>>

\* ... then the model, the acknowledgement (in a run), and perhaps a reopening,
\* which gives up the snapshot.
BatchDone ==
  /\ pc = "written"
  /\ model' = ReplayBatch(model, step.ops)
  /\ executed' = executed + 1
  /\ ack' = IF mode = "run" THEN executed + 1 ELSE ack
  /\ snapshot' = IF w.reopenAt # 0 /\ executed + 1 = w.reopenAt THEN NoSnapshot ELSE snapshot
  /\ check' = IF mode = "continue" THEN [check EXCEPT !.done = @ + 1] ELSE check
  /\ GoOn(TRUE)
  /\ UNCHANGED <<w, mode, batches, gen, db, left>>

Read ==
  /\ In("get") \/ In("scan") \/ In("phase")
  /\ GoOn(CASE step.kind = "get"   -> \A id \in ReadIds : GetMatches(db, model.ver, id)
            [] step.kind = "scan"  -> \A from \in ReadIds, n \in ScanLens :
                                        ScanMatches(db, model.ver, from, n)
            [] step.kind = "phase" -> TRUE)
  /\ UNCHANGED <<w, mode, batches, gen, model, snapshot, executed, ack, db, left, check>>

DoSnapTake ==
  /\ In("snapTake")
  /\ snapshot' = [held |-> TRUE, db |-> db,
                  sample |-> [id \in step.ids \cap Ids |-> model.ver[id]]]
  /\ GoOn(TRUE)
  /\ UNCHANGED <<w, mode, batches, gen, model, executed, ack, db, left, check>>

\* Without a snapshot (after a reopening or a crash) nothing is checked.
DoSnapCheck ==
  /\ In("snapCheck")
  /\ GoOn(snapshot.held =>
            \A id \in DOMAIN snapshot.sample :
              snapshot.db[id] = Contents(snapshot.sample)[id])
  /\ snapshot' = NoSnapshot
  /\ UNCHANGED <<w, mode, batches, gen, model, executed, ack, db, left, check>>

\* The workload is exhausted.
RunEnds ==
  /\ mode = "run" /\ pc = "loop" /\ NextStep(w, gen, FALSE) = {}
  /\ snapshot' = NoSnapshot
  /\ mode' = "read" /\ pc' = "start"
  /\ UNCHANGED <<w, batches, gen, step, model, executed, ack, db, left, check>>

Replayed(n) == ReplayAll(NewModel(w), batches, n)

\* Read: the model is built again from the batches.
ReadPhaseF ==
  /\ mode = "read" /\ pc = "start"
  /\ model' = Replayed(Len(batches))
  /\ pc' = IF PhaseFMatches(Replayed(Len(batches)).ver) THEN "done" ELSE "mismatch"
  /\ UNCHANGED <<w, mode, batches, gen, step, snapshot, executed, ack, db, left, check>>

-----------------------------------------------------------------------------
\* The crash and Check.

InFlight == pc = "written"

\* What a kill may leave; a faulty engine loses the last acknowledged batch
\* or keeps the values of some of the ids of the one under way.
Left ==
  {db}
    \cup (IF Faulty /\ ack > 0 /\ ~InFlight THEN {Contents(Replayed(ack - 1).ver)} ELSE {})
    \cup (IF Faulty /\ InFlight
          THEN {[id \in Ids |-> IF id \in S THEN db[id] ELSE Contents(model.ver)[id]] :
                  S \in SUBSET {step.ops[i].id : i \in DOMAIN step.ops}}
          ELSE {})

\* SIGKILL; Check then replays the acknowledged batches into its model.
Crash ==
  /\ mode = "run" /\ pc \in {"loop", "step", "written"}
  /\ \E d \in Left : db' = d /\ left' = d
  /\ model' = Replayed(ack)
  /\ mode' = "check" /\ pc' = "seek"
  /\ step' = NoStep /\ snapshot' = NoSnapshot /\ executed' = 0
  /\ UNCHANGED <<w, batches, gen, ack, check>>

\* The next batch is generated, with the steps before it, which are skipped.
SeekNext ==
  /\ pc = "seek"
  /\ IF Len(batches) > ack
     THEN /\ pc' = "verify"
          /\ UNCHANGED <<batches, gen, step>>
     ELSE /\ \E r \in NextStep(w, gen, TRUE) :
               Generated(r) /\ pc' = IF r.step.kind = "batch" THEN "verify" ELSE "seek"
  /\ check' = IF pc' = "verify" THEN [check EXCEPT !.next = batches'[ack + 1], !.before = model.ver]
              ELSE check
  /\ UNCHANGED <<w, mode, model, snapshot, executed, ack, db, left>>

\* Mutant: an id that reads the same in both states counts as the state before.
DecideStrict(before, after, ids) ==
  LET old == {id \in ids : db[id] = before[id]}
      new == {id \in ids : db[id] = after[id]} \ old
  IN  IF ids \ (old \cup new) # {} \/ (old # {} /\ new # {}) THEN "mismatch"
      ELSE IF new # {} THEN "new" ELSE "old"

\* decide: ids that read the same in both states say nothing; all the others
\* agree, or the batch was applied only in part.
Decide(before, after, ids) ==
  LET old == {id \in ids : db[id] = before[id]}
      new == {id \in ids : db[id] = after[id]}
  IN  IF ids \ (old \cup new) # {} \/ (old \ new # {} /\ new \ old # {}) THEN "mismatch"
      ELSE IF new \ old # {} THEN "new"
      ELSE IF old \ new # {} THEN "old"
      ELSE "unknown"

\* Mutant: each id of the batch is decided on its own.
VerifyPerId ==
  /\ pc = "verify"
  /\ LET after  == ReplayBatch(model, check.next)
         ids    == {check.next[i].id : i \in DOMAIN check.next}
         newIds == {id \in ids : db[id] = Contents(after.ver)[id] /\ db[id] # Contents(model.ver)[id]}
         patched == [id \in Ids |-> IF id \in newIds THEN after.ver[id] ELSE model.ver[id]]
     IN  /\ model' = [model EXCEPT !.ver = patched]
         /\ check' = [check EXCEPT !.applied = newIds # {}]
         /\ pc' = IF RScanMatches(db, patched, w.universe - 1, w.universe)
                  THEN "resume" ELSE "mismatch"
  /\ UNCHANGED <<w, mode, batches, gen, step, snapshot, executed, ack, db, left>>

\* Verify: the ids of the batch by `decide`, the others against the model;
\* then reads of a sample and the scan backwards with the model patched.
Verify ==
  /\ pc = "verify"
  /\ LET after  == ReplayBatch(model, check.next)
         ids    == {check.next[i].id : i \in DOMAIN check.next}
         state  == Decide(Contents(model.ver), Contents(after.ver), ids)
         others == \A id \in Ids \ ids : db[id] = Contents(model.ver)[id]
         applied == state = "new"
         patched == [id \in Ids |-> IF applied /\ id \in ids
                                    THEN after.ver[id] ELSE model.ver[id]]
     IN  /\ model' = [model EXCEPT !.ver = patched]
         /\ check' = [check EXCEPT !.applied = applied]
         /\ pc' = IF state # "mismatch" /\ others
                     /\ RScanMatches(db, patched, w.universe - 1, w.universe)
                  THEN "resume" ELSE "mismatch"
  /\ UNCHANGED <<w, mode, batches, gen, step, snapshot, executed, ack, db, left>>

ExecuteNext ==
  /\ step' = [Step("batch", "?") EXCEPT !.ops = check.next]
  /\ pc' = "step"
  /\ UNCHANGED model

\* Mutant: the model goes on with the versions Verify patched.
ResumePatched ==
  /\ pc = "resume"
  /\ mode' = "continue"
  /\ IF check.applied THEN pc' = "loop" /\ UNCHANGED <<step, model>> ELSE ExecuteNext
  /\ UNCHANGED <<w, batches, gen, snapshot, executed, ack, db, left, check>>

\* The next batch is replayed over the versions before it, or, when it had not
\* been applied, executed.
Resume ==
  /\ pc = "resume"
  /\ mode' = "continue"
  /\ IF check.applied
     THEN /\ model' = ReplayBatch([model EXCEPT !.ver = check.before], check.next)
          /\ pc' = "loop"
          /\ UNCHANGED step
     ELSE ExecuteNext
  /\ UNCHANGED <<w, batches, gen, snapshot, executed, ack, db, left, check>>

CheckEnds ==
  /\ mode = "continue" /\ pc = "loop" /\ check.done >= Continue
  /\ pc' = "done"
  /\ UNCHANGED <<w, mode, batches, gen, step, model, snapshot, executed, ack, db, left, check>>

Next ==
  \/ Generate \/ BatchWrite \/ BatchDone \/ Read \/ DoSnapTake \/ DoSnapCheck
  \/ RunEnds \/ ReadPhaseF
  \/ Crash \/ SeekNext \/ Verify \/ Resume \/ CheckEnds

Spec == Init /\ [][Next]_vars

-----------------------------------------------------------------------------
\* Properties.

(* The type of the state; every id of every batch lies in the universe,     *)
(* over which the model is a vector that is not bounds-checked.            *)
TypeOK ==
  /\ \A i \in DOMAIN batches : \A j \in DOMAIN batches[i] : batches[i][j].id \in Ids
  /\ mode \in {"run", "read", "check", "continue"}
  /\ pc \in {"loop", "step", "written", "start", "seek", "verify", "resume", "done", "mismatch"}
  /\ gen.phase \in 0 .. Len(Phases(w))
  /\ DOMAIN model.ver = Ids /\ db \in [Ids -> Nat] /\ left \in [Ids -> Nat]
  /\ ack \in 0 .. Len(batches) /\ executed \in 0 .. Len(batches)
  /\ check.done \in 0 .. Continue

AfterBatches(n) == Contents(Replayed(n).ver)

(* No comparison fails on a database that holds the acknowledged batches,  *)
(* or one more: through snapshots, reopenings, the crash, the check and    *)
(* the continuation (Runner::Execute, Verify, Check).                      *)
NoFalseAlarm ==
  pc = "mismatch" =>
    mode \in {"check", "continue"} /\ left \notin {AfterBatches(ack), AfterBatches(ack + 1)}

(* What Check reports as applied is what the database held: a lost batch   *)
(* or a part of one is never accepted (Verify 237-336).                    *)
AppliedIsExact ==
  pc = "resume" => left = AfterBatches(ack + (IF check.applied THEN 1 ELSE 0))

(* A run that goes on after a crash writes what one without a crash would  *)
(* have written: the model has the versions and the count of writes of all *)
(* the batches so far (Check 694-711), and the database their contents.    *)
ResumeExact ==
  mode = "continue" /\ pc \in {"loop", "done"} =>
    /\ model = Replayed(ack + (IF check.applied THEN 1 ELSE 0) + check.done)
    /\ db = Contents(model.ver)

(* Phases A and B put every id of their ranges exactly once, whatever the  *)
(* permutation (LoadStep, InsertStep, Permute).                            *)
InsertsOnce ==
  w.dist = "mixed" /\ gen.phase = 3 /\ gen.inPhase = 0 =>
    LET m == Replayed(Len(batches))
    IN  m.wseq = w.load + w.insert /\ Live(m.ver) = 0 .. w.load + w.insert - 1

(* In an appending workload the live ids are those from the oldest not     *)
(* purged to the newest, and no more than the window: no late correction   *)
(* brings back a purged id (AppendBatch 849-869).                          *)
WindowIsLive ==
  w.dist = "append" =>
    /\ Live(Replayed(Len(batches)).ver) = gen.purged .. gen.head - 1
    /\ w.window > 0 => gen.head - gen.purged <= w.window

(* A snapshot is checked in the phase in which it was taken: none is held  *)
(* when the next phase begins or the run ends.                             *)
SnapshotsAreChecked ==
  mode = "run" /\ pc = "loop" /\ snapshot.held =>
    /\ gen.inPhase > 0
    /\ NextStep(w, gen, FALSE) # {}
================================================================================
