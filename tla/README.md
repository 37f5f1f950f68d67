# A TLA+ model of the column-family storage engine

The program is the storage engine in `src/solution/reference.patch`: LevelDB 1.23 extended with column
families that share one write-ahead log, range deletes and merge operands. What it promises is written
in `src/environment/spec.md`. The stock LevelDB sources are in archives that the build unpacks, so
parts of LevelDB which the patch calls without changing are modelled from how the patch uses them and
marked external in the map. Line numbers without a file are lines of `src/solution/reference.patch`.

Around the engine stand the programs that test and measure it, in `src/environment/bench` (a copy is in
`src/tests/harness`): an Env with a worker thread and a crash injector, the conformance scenarios with their
reference models, and the benchmark with its workloads. They decide by a crash and a replay whether an engine
is correct, so they have hazards of their own: an oracle that blames a correct engine, or accepts a wrong one.

Contents: [the system](#the-system), [modules](#modules), [SharedLog](#sharedlog-log-flush-recovery),
[Levels](#tables-and-levels-reads-flush-and-compaction), [Cursor](#cursor-the-users-iterator),
[BenchEnv](#benchenv-the-measuring-environment), [Scenario](#affine-and-scenario-the-conformance-oracle),
[BenchRunner](#workload-permutation-and-benchrunner-the-benchmark), [runs](#runs), [proofs](#proofs),
[where code and documents differ](#where-the-code-and-its-documents-differ),
[not modelled](#not-modelled), [plan](#plan).

## The system

| Component | State | Operations | What makes it correct |
|---|---|---|---|
| Write path (`DBImpl::Write`, `MakeRoomForWrite`, 2143-2372) | writer queue, `log_`, `logfile_number_`, `last_sequence_`, one memtable pair per family | append one record for a batch group, insert it into the memtables of the families it touches, switch a memtable onto a new log | a batch is in all its families or none, also after a crash; nobody holds a log back for ever; every write returns |
| Flush (`CompactMemTable`, `WriteLevel0Table`, 1062-1161) | `imm` and `imm_log_number` of a family | write a table, record it and the log number in the family's descriptor, release the memtable | the log number claims exactly what is in tables |
| Log deletion (`OldestLiveLog`, `RemoveObsoleteFiles`, 587-687) | the files of every directory | choose with `mutex_`, delete without it | a log goes only when no family needs it |
| Recovery (`Recover`, `RecoverLogFile`, `DB::Open`, 718-1060, 2703-2799) | descriptors, `FAMILIES`, logs on disk | replay each record for the families that lack it, number files and sequences | nothing lost, nothing replayed twice, no number used twice |
| Catalogue (`CreateColumnFamilyLocked`, `DropColumnFamily`, `FAMILIES`, 188-246, 2549-2691) | `cfs_`, names, ids, handles, directories | create, drop, list, check a handle | what is listed can be opened; a dropped family never returns |
| Levels (`BackgroundCompaction`, `DoCompactionWork`, 1254-1864) | a version: tables by level; live snapshots; the request of a manual compaction | pick, move, compact, install | no reader at any live snapshot can tell |
| Reads (`DBImpl::Get`, `Version::Get`, `LookupState`, 1987-2050, 3599-3687, 4759-4849) | layers: memtable, waiting memtable, tables by age | look up layer by layer, stop at a settled answer or under a newer tombstone | the answer is the fold of the visible history |
| Tombstones (`RangeDelMap`, `RangeDelIndex`, 3949-4119) | fragments with their best sequence number | add, index, find | same as coverage by definition |
| User iterator (`DBIter`, `RangeDelSkippingIterator`, 3128-3489, 4134-4210) | position, direction, saved key and value | seek, next, previous | walks what `Get` would return, in order, both ways |
| Write batch, merge operators, table format | - | encode, route, fold | each record reaches its family |
| Measuring environment (`bench_env.h`) | the queue of jobs, the worker, buffers of open files, the injector's cue and count | schedule, wait, destroy; append, flush, sync, close; arm, disarm, kill | idle means idle; a killed process leaves a prefix; the kill comes at the event it was asked for |
| Conformance scenarios (`conf_model.cc`, `conf_model.h`, `conftest.cc`) | generator, reference models, handles, snapshots, the acknowledgement file | generate, call, apply, acknowledge, check; crash and recover | a correct engine is never blamed; a lost write is noticed |
| Benchmark (`workload.h`, `lsmbench.cc`) | generator, versions of ids, snapshot sample, acknowledgement file | steps of the phases and recipes; run, read, check and continue | the same, and the workload is the one it claims to be |

### How they interact

All families share `mutex_`, one background thread, one queue of writers and one log; each has its own
directory, descriptor (MANIFEST), memtables and tables. The writer at the front of the queue takes the
batches behind it into one record; it releases `mutex_` to append and insert. The background thread
flushes, then compacts, and releases `mutex_` during the work; a compaction flushes memtables in
between. Creating and dropping families happens on callers' threads and releases `mutex_` while a descriptor or `FAMILIES`
is written. After a flush the background thread deletes the logs that no family needs any more,
again without `mutex_`.

### What is hard

* *Several flush points in one log.* Each family is flushed on its own, so each has its own place in
  the log from which it needs the records. A log is needed until the slowest family has flushed it,
  and after a crash one record is replayed for one family and skipped for another.
* *Crashes between any two file operations*, in recovery too: between a table and its descriptor edit,
  the edit and the deletion of logs, `NewDB`, `FAMILIES` and a directory.
* *Decisions made with `mutex_` and carried out without it*: the logs to delete, the memtables a write
  goes to, the snapshots and the version of a compaction.
* *Order by layers.* Lookups stop at the first layer that settles them and trust a newer layer's
  tombstone to hide all older layers; this needs every flush, move and compaction to keep each key's
  data ordered by age, where a tombstone's range is wider than its table's entries.
* *Snapshots.* Compactions drop, fold and cut; the result must be the same for every live snapshot.
* *Waiting.* Writers wait for flushes, drops wait for the background thread, manual compactions are
  a chain of requests.

* *Replays by another process.* After a kill the harness knows how many writes were acknowledged, and
  generates the run again; generator, model, database and acknowledgement must agree to the step.

The hazards, each at its line and with the properties that would catch it, are in `PROJECT.json`.

## Modules

| Module | What it is |
|---|---|
| `FamilyStore` | Abstract: families, and the batches each one holds. No crash, log or flush. |
| `SharedLog` | The write path, flush, log deletion, recovery, creation and drop, with crashes. Its properties. |
| `SharedLogInv` | The inductive invariant, in named parts: `Kept` (nothing is lost) and `Exact` (nothing is there twice, or that was not written). |
| `SharedLogStore` | Refinement mapping from `SharedLog` to `FamilyStore`. |
| `SharedLogFaults` | `SharedLog` plus what its main specification excludes: a drop during a write, a `FAMILIES` file that cannot be written. |
| `SharedLogProofs` | Proofs: types, `Kept` and `Exact` are kept by every action; durability and the catalogue, numbers used once, exact contents, no laggard, the refinement of `FamilyStore`. |
| `Tables` | Pure operators: bounds of tables, inputs of a compaction, stripes, folding, clipping, outputs. |
| `Levels` | One family: user, flush, compactions, `CompactRange`, reads. Its properties. |
| `LevelsProofs` | Proofs: what bottom compactions leave, disjoint levels, layers in order of age, what `CompactRange` empties. |
| `LevelsReads` | Proofs: what readers get is what was written; types. |
| `SnapshotWalk` | Abstract: an iterator over contents settled when it was made. |
| `Cursor` | The user's iterator, the tombstone map and index, and writes under it. Uses `Tables`. |
| `WellOrder` | The least and the greatest number of a set, and induction up to a number, proved. |
| `CursorProofs` | The tombstone map, the index and what an iterator takes from them, proved. |
| `BenchEnv` | The Env of every measured process: worker, files, injector. |
| `BenchEnvProofs` | Jobs, injector and files, proved. |
| `Affine` | The scenarios' merge operator. |
| `Scenario` | A conformance scenario: generator, models, run, crash, recovery check. Uses `Affine`. |
| `ScenarioProofs` | Generator, handles, snapshots and acknowledgements keep up with each other, and no comparison is wrong, proved. |
| `Workload`, `Permutation` | The benchmark's generator of steps, and its Feistel permutation. |
| `BenchRunner` | The benchmark program: run, crash, check and continue, read. Uses `Workload`. |
| `BenchRunnerProofs` | Generator, model, database and the check after a crash keep up with each other, proved. |
| `MC...` | Small instances for TLC. |

No module declares a RECURSIVE operator: recursion is a recursive function or a fold, so a module can be
proved about unless it uses `Bitwise` (`Permutation`).

## SharedLog: log, flush, recovery

### Correspondence

| Code | Model |
|---|---|
| `.log` files, and the records in them | `logs`, `wal` (a record is `[log, seq, fams]`) |
| `FAMILIES` (list and next id) | `listed`, `diskNextId` |
| a family's directory; the sum of its MANIFEST | `dirs`; `man[f] = [log, last, tables]` |
| `cfs_` without the dropped ones | `live`; `creating` and `dropping` for the ends of a life |
| `cf->mem`, `imm`, `mem_log_number`, `imm_log_number`, `versions->LogNumber()` | `mem`, `imm`, `memLog`, `immLog`, `logNum` |
| `logfile_number_`, the default family's next file number, `last_sequence_` | `logfile`, `nextFile`, `lastSeq` |
| a writer at the front of the queue | `wpc`, `wfams`, `wmems`, `force` |
| the background thread in `CompactMemTable` | `bgPc`, `bgFam`, `bgEdit`, `trim` |
| `DB::Open` | `phase`, `toReplay`, `recTables`, `saveManifest`, `applied` |

A batch is its number in commit order and the set of families it touches. A memtable or a table is the
set of the batches it holds. A batch group is one record, so one batch with the union of its families. File numbers are kept for logs only, since only their order and reuse matter. Sizes are counted
in batches (`Buffer`).

An action ends where the code releases `mutex_` or where a crash could leave another disk: a flush is
`FlushBuild`, `FlushEdit`, `FlushLog` (the descriptor edit), `FlushInstall` and one `DeleteLog` per
log; opening is `RecoverOpen` (`NewDB` or `FAMILIES` and descriptors), `RecoverList`, one `ReplayLog` per log,
`RecoverNewLog`, one `RecoverApply` per family, `RecoverTrim` and `RecoverDone`; a write is `WriteBegin`, switches and
waits, `RoomFound`, `AddRecord` and `InsertInto`. `Crash` may come between any two: memory is lost and the disk stays, which is what
the harness does (SIGKILL after a file operation). A power failure that loses unsynced writes is outside `spec.md` and outside the model.

`Drop` does not run while a write holds the family's memtable. The code does not enforce this: it is taken as the
callers' duty in `SharedLog`, and `SharedLogFaults` shows what happens without it.

### Properties

* `NothingLost`, `NeverTwice`: every appended batch is, for each family on disk that it touches, in a
  table or in what the next opening replays, never in both.
* `ContentsExact`: what the open database serves is exactly what was appended.
* `SequenceUnique`, `FreshLogNumber`: no number is used twice, across crashes.
* `TrimStaysObsolete`: the logs chosen for deletion stay useless while they are deleted.
* `ListedCanOpen`, `DroppedForGood`: the catalogue.
* `NoLaggard`: a write leaves no memtable behind that holds back an old log.
* `ImplementsStore`: all of it, as a refinement of `FamilyStore`. The store of a family is what its tables
  hold and what a replay would add (`Recoverable`), so a batch is committed by `AddRecord`, and every
  crash, flush, deletion and step of opening is a stutter.
* `EveryFlushCompletes`, `EveryWriteReturns`: liveness.

### Fairness

`FairSpec` assumes weak fairness of the steps of a write that has begun and of the background thread (with
its deletions). Both are threads that run, and what they wait for (`background_work_finished_signal_`) is signalled after each
background step. Nothing is assumed of users: no write, creation or drop has to begin. `Crash` has no fairness.

## Tables and Levels: reads, flush and compaction

### Correspondence

| Code | Model |
|---|---|
| an entry (user key, sequence number, type, value) | `[key, seq, type, val]` |
| a range tombstone | `[begin, end, seq]` |
| a memtable or table with its tombstone block | `[entries, tombs]`; bounds by `Lo`, `Hi`, `Open` |
| `files_[0]`, newest first; `files_[l]` | `level0`, `levels[l]` |
| `snapshots_` | `snapshots` |
| the compaction at work, with its inputs and outputs | `comp` |
| `CompactRange` and its `ManualCompaction` requests | `call` |
| `stripe_of`, `compact_group`, the drop rule of tombstones, the cuts of outputs | `StripeOf`, `CompactStripe`, `KeptTombs`, `CutsFor`, `Clipped` |
| `LookupState`, `hidden_below`, `Version::Get` | `TakenDeleted`, `HiddenBelow`, `LayerEntries`, `Get` |

A write's number is its sequence number, and the value of a put or of an operand is that number. `FullMerge`
and `PartialMerge` are concatenation, so a value is the sequence of writes it was made of and any operand lost, doubled
or misplaced shows. `PartialMerge` may decline (`folds`).

A compaction captures inputs, snapshots and version in `BeginCompaction`; what comes out is settled there, because the code reads
nothing else afterwards, and it is installed by `InstallCompaction`. Writes, snapshots and a flush
(`Flush`, which is also the flush in the middle of a compaction) come in between. Sizes are left
out: `AutoCompaction` takes any table above the last level, inputs may grow when they can without
new tables below, and an output may end at any key at which the code could end it. A trivial move happens whenever one table
meets nothing below; a larger overlap two levels down may make it a compaction.

### Properties

* `ReadsExact`: every live snapshot and the latest reader get what the written history gives by the
  rule of `spec.md` (`Reference`): the newest visible put and the operands since, unless a
  delete or covering range delete came later.
* `LayerOrder`: for any key, all of an older layer is older than all of a newer one, tombstones
  included. This is the claim of the comment at 4255-4260, on which lookups rest.
* `LevelsDisjoint`: tables of a level below 0 do not overlap, cut tombstones included.
* `BaseIsPlain`: a compaction at the bottom, with no snapshot, leaves one plain value for a key.
* `CallEmptiesLevels`: `CompactRange` empties every level above the deepest.

## Cursor: the user's iterator

| Code | Model |
|---|---|
| `cf->mem`, `cf->imm`, level 0 | `mem`, `imm`, `tables`: entries and tombstones |
| `range_del_map_` of a memtable | `memFrags`, `immFrags`; `MapAdd` |
| `rd_cache` | `rdCache`; `CurrentIndex`, `Index` |
| `RangeDelView`, `sequence_` of an iterator | `view`, `snap`; `MaxCovering`, `CoveredRange` |
| `RangeDelSkippingIterator` over a layer | `ChildSeek`, `ChildFirst`, ..., with `SkipForward`, `SkipBackward` |
| the merging iterator (external) | `it.m`: the place in each layer, the current layer, the direction; `MergeNext`, `MergePrev` |
| `DBIter` | `it`: its fields; `it.pc` and `it.loop` for the loop it is in and that loop's locals |
| `Valid`, `key`, `value` after a call | `shown`, with the call that led there |

An action is one step of the merge in a loop of `DBIter` (`FindNextStep`, `FoldStep`, `TurnStep`, `FindPrevStep`),
so a write can come between any two: it puts entries into the memtable that is being walked, and splits the fragments by which the
other layers are jumped over. A switch or a flush does not reach an open iterator, which holds its memtables and its version, so both
come between iterators; that is when the cached index gets old. A value is the list of the writes that make it up.

* `ImplementsWalk`: the iterator is a `SnapshotWalk`: each call returns the key and the value that the contents of the snapshot
  have there by the rule of `spec.md` (`Reference`), in both directions, after every turn. A step inside a call is a stutter.
* `ViewExact`: the fragments and the index say of each key what the tombstones of the newer layers say, and a range that
  is jumped over is covered from end to end.

The layers below level 0 are left out: to `DBIter` each is a layer like the others. That data reaches them in the right order is `LayerOrder` of `Levels`.

## BenchEnv: the measuring environment

`bench_env.h` is the Env of every process that is measured or killed. Two threads act on it: `main`, which
writes the log, schedules jobs, waits and destroys, and `worker`, which runs the jobs and writes a table.

| Code | Model |
|---|---|
| `queue_`, `pending_`, `stop_`, `jobs_run_` | `queue`, `pending`, `stop`, `jobsRun` |
| where each thread waits (`cv_`, `idle_cv_`, `join`) | `worker`, `main` |
| `BenchWritableFile`: `buf_[0 .. pos_)`, what `write(2)` took | `file[f].buf`, `file[f].disk` |
| an operation between `Before` and `After` | `op[f]`, with its `stage` |
| `event_`, `n_`, `after_`, `armed_`, `count_` of the injector | `cue`, `armed`, `count` |
| SIGKILL, raised by the injector or sent from outside | `Killed`, `fate` |

A file operation is `BeginOp` (`Before` and its count), `Perform` and `EndOp` (`After`); a kill may come between any two
and leaves of the bytes on their way any prefix. `hits` is history: the events performed since the injector was armed.

* `IdleMeansIdle`: when `WaitIdle` has returned, nothing is queued or running, jobs that jobs scheduled included.
* `SurvivesAsPrefix`: a killed process leaves a prefix of what it appended, with all that a `Flush`, `Sync` or `Close` reported; the buffer never overflows.
* `CrashesOnCue`: the kill comes at the event it was asked for, before or after it, at no other.
* `WaitEnds`, `ShutdownRunsAll`: `WaitIdle` and the destructor end, the latter after the last job.

`FairSpec` assumes weak fairness of the worker's steps, of the two file steps in progress and of a woken or
joining `main`, since threads run; and strong fairness of `FinishJob`: a job is a call of the engine that returns,
and between two of its file operations, however many, it could. Nothing is assumed of `main` before it waits.

`CuesAssumption` says what the harness's cues are: a positive number of events that are made on one file, by one thread.
`After` compares a count that it does not own; two threads making events of one kind could both pass
`Before`'s count and die at another event (126-189). No cue the drivers use is such.

## Affine and Scenario: the conformance oracle

`conftest` generates operations from a seed, carries them out, applies them to reference models, acknowledges
each durable one in a file, and compares. After a kill another process reads the number acknowledged, generates the operations
again and decides (`CheckRecovered`) whether the database holds that state or the next one.

| Code | Model |
|---|---|
| the random numbers of a seed | `seed`, a sequence of draws, one for each operation |
| `ScenarioGen` (`Next`, `RandomWrite`, `PickFamily`, clearing, creation, snapshots) | `gen`, `NextOp` and what it uses |
| `ConfModels`, `Apply` | `models`, `Apply` |
| `Db::live`, `Handle` (the default family in place of a missing handle) | `handles`, `Target` |
| `RunScenario` | `Open`, `Generate`, `Call...`, `ApplyAndAck`, `Finish` |
| the acknowledgement file | `ack` |
| `ModelsAfterWrites` | `Replay`, `ModelsAfterWrites` |
| `CheckRecovered` | `Crash`, `Attempt` (twice at most), `Touch`, `Recheck` |
| `AffineMergeOperator` | `Affine`: `AffineFullMerge`, `PartialMerge`, modulo `P` (2^61 - 1 in the code) |

The database is what its users are promised: a call is atomic and, for a killed process, durable when it
returns. It keeps operands unfolded, and a read may return any of the ways in which an engine could have folded them
(`Foldings`); that all come to one value is what makes the operator usable in a test. With `Faulty`, recovery may also
lose the last write or keep the first part of a batch. A plain value is the hash the operator makes of it, with its length.

* `NoFalseAlarm`: no comparison ever fails on a database that kept its promise.
* `LossIsFound`: what `CheckRecovered` accepts is the acknowledged state or the next one.
* `AckBracketsDb`: the acknowledgement is never ahead of the database, and one behind at most.
* `WritesHitTheirFamily`: no write names a family without a handle, which would go to the default one in silence.
* `SnapshotIsHeld`: the guard `kOpSnapCheck` has never skips a check.

One state of a faulty database is accepted: a drop that was lost, when the next write is the creation of the
same family, which restores just that state. `LossIsFound` names the exception.

## Workload, Permutation and BenchRunner: the benchmark

`lsmbench` runs a workload, checks it while it runs, and after a kill checks the database and goes on as if nothing had happened.

| Code | Model |
|---|---|
| `WorkloadShape` and its recipe | `w`: a record of its fields; `Universe`, `DelRange` |
| `class Workload` | `gen`: its fields; `NextStep` and one operator for each phase and recipe |
| `Permute` | `Permutation` |
| `Model` (versions, count of writes) | `model`; `ReplayBatch`, `NextLive`, `PrevLive` |
| an iterator of the database in a scan | `Yields`: the ids it shows, in order |
| `Runner`: batch, read, snapshot, reopening | `BatchWrite`, `BatchDone`, `Read`, `DoSnapTake`, `DoSnapCheck` |
| `Read` mode and phase F | `ReadPhaseF` |
| `Check`: replay, next batch, `Verify`, continuation | `Crash`, `SeekNext`, `Verify`, `Resume`, `CheckEnds` |

A step of the generator is nondeterministic: each operator gives the set of what its call can return for some
random numbers, and `batches` keeps what was drawn, so that the second process generates the same. A value is the version it is
made of, as in the code. Reads are checked for every id and every start when they are made, and a snapshot's
sample is all the ids it could draw, since a read changes nothing. `maxBatches` bounds a workload, `Continue` the batches after a check.

* `NoFalseAlarm`: as above, through snapshots, reopenings, crash, check and continuation.
* `AppliedIsExact`: what `Verify` accepts is what the database held; a part of a batch never passes, with ids
  that read the same before and after the batch.
* `ResumeExact`: after a crash the run writes what it would have written: versions, count of writes, contents.
* `InsertsOnce`: phases A and B put every id once, whatever the permutation.
* `WindowIsLive`: a late correction never brings back a purged id.
* `SnapshotsAreChecked`: none is forgotten at the end of a phase.


## Runs

| Run | Bounds | States | Shows |
|---|---|---|---|
| `crash` | 2 families, 3 batches, 2 crashes, one batch fills a memtable, log reuse on | 1.9 M | all safety properties, the refinement |
| `live` | 2 families, 3 batches, 1 forced flush, no crash | 345 k | liveness under `FairSpec`; the inductive invariant |
| `fold` | 2 keys, 4 writes of 5 kinds, 3 levels, 1 snapshot | 1.0 M | reads at every snapshot; plain values at the bottom |
| `manual` | 4 keys, 4 writes of 4 kinds with two overlapping range deletes, 3 levels, 1 call of `CompactRange` | 475 k | tombstones that are cut and reach over others; order and disjointness; the call against automatic compactions and flushes |
| `cursor` | 3 keys, 4 writes of all kinds, 2 memtables and 2 tables, every snapshot, every sequence of calls, 1 write under an iterator | 2.1 M | an iterator walks its snapshot; tombstone map and index |
| `env` | 2 files, 4 bytes, buffer of 2, 2 jobs, 1 failing write, 1 `Arm`, 2 cues | 643 k | safety and liveness of the Env |
| `scenario` | 2 families, 2 keys, arithmetic modulo 3, every sequence of 4 operations out of 10 and some of 2 and 7, one crash, a faulty engine or a correct one | 846 k | the oracle is right |
| `bench` | 10 workloads of up to 12 batches, both walks of the permutation, one crash, a faulty engine or a correct one | 1.9 M | the benchmark's checks and its workloads are right |
| `drop_race`, `families_error`, `gone`, `overlap` | as small as shows the case | - | the four findings below |

Why the bounds are enough. Two families give every relation of two flush points, and that one of them lags; what
holds of more is proved, for any set of families. With `Buffer = 1` each write after the first of a family switches a
memtable, so logs grow faster than flushes and `MaxLiveLogs = 2` is passed within three batches. The second
crash can come inside the recovery from the first. Three levels are the least in which a compaction has
tables below its outputs, and four writes the least that put a table into each of them and leave one write in a memtable.
`fold` has every kind of write meet on one key, `manual` two range deletes that cross over a key
and tables with a gap between them. `cursor` has three keys, so that a turn has a key on either side, and four writes,
one for each layer; two would not put a tombstone, what it hides and a newer entry into different layers.
Every property of a passing run is broken, at these bounds, by a mutant of the code that a
plausible bug would be (`PROJECT.json`, "mutants"): the interesting cases do happen.

Deadlock is not checked: a behaviour ends when its bounds are used up, and a user may stop. That nobody waits for ever
is `EveryFlushCompletes` and `EveryWriteReturns`.

`env` is bounded by the operations of two small files; its two cues (an append of the log, before it;
one of the table, after it) meet every path of the injector on both threads. `scenario` takes every sequence of four operations, so every pair of a creation and a drop
with a write, a snapshot and a crash on each side, some longer seeds in which a snapshot's family
is dropped and created again before the snapshot is checked, and some shorter ones whose first write changes nothing. `bench` has short periods in place of
thousands of batches (`SnapEvery`, `GetEvery`), so that snapshots, reads, a reopening and the end of a phase fall on the same step in every order.

`WritesDuringCall = FALSE` in `manual` keeps writes out of the time of a call, as `CallEmptiesLevels`
needs; with writes the run is the finding `overlap`.

## Proofs

TLAPS proves, for every set of families, every `Buffer`, `MaxLiveLogs`, `ReuseLogs` and any number of batches and
crashes; for every number of keys, writes, snapshots and levels of a family; for every number of keys, writes and tables under an iterator; for every number of jobs, bytes, errors and cues of the Env; for every set of seeds, families and keys of a scenario; and for every set of workloads of the recipes' shape, every period and batch size of the benchmark:

| Theorem | Statement |
|---|---|
| `SharedLogProofs!TypeCorrect` | `Spec => []TypeOK` |
| `SharedLogProofs!KeptAlways` | `Spec => []Kept` |
| `SharedLogProofs!Durable` | `Spec => []NothingLost` |
| `SharedLogProofs!TrimSafe` | `Spec => []TrimStaysObsolete` |
| `SharedLogProofs!DroppedStaysDropped` | `Spec => []DroppedForGood` |
| `SharedLogProofs!ListedHasDirectory` | `Spec => []ListedCanOpen` |
| `SharedLogProofs!InductiveAlways` | `Spec => []Inductive` |
| `SharedLogProofs!SequenceNeverReused` | `Spec => []SequenceUnique` |
| `SharedLogProofs!LogNumberNeverReused` | `Spec => []FreshLogNumber` |
| `SharedLogProofs!NothingTwice` | `Spec => []NeverTwice` |
| `SharedLogProofs!ServesWhatWasWritten` | `Spec => []ContentsExact` |
| `SharedLogProofs!NobodyLags` | `Spec => NoLaggard` |
| `SharedLogProofs!SharedLogImplementsStore` | `Spec => ImplementsStore`: every behaviour is one of `FamilyStore`, with crashes, flushes and openings as stutters |
| `LevelsProofs!ShapeAlways` | `Spec => []Shape`: no table is empty, no tombstone covers nothing |
| `LevelsProofs!BottomCompactionsPlain` | `Spec => BaseIsPlain` |
| `LevelsProofs!TablesDisjoint` | `~WritesDuringCall` implies `Spec => []LevelsDisjoint` |
| `LevelsProofs!LayersInOrder` | `~WritesDuringCall` implies `Spec => []LayerOrder` |
| `LevelsProofs!CompactRangeEmpties` | `Spec => CallEmptiesLevels` |
| `LevelsReads!ExactAlways` | `~WritesDuringCall` implies `Spec => []Exact`, the invariant behind the next |
| `LevelsReads!ReadsAreExact` | `~WritesDuringCall` implies `Spec => []ReadsExact` |
| `LevelsReads!LevelsTypes` | `Spec => []TypeOK` |
| `CursorProofs!ViewIsExact` | `Spec => []ViewExact` |
| `BenchEnvProofs!WaitIdleIsIdle` | `Spec => []IdleMeansIdle` |
| `BenchEnvProofs!DestructorDrains` | `Spec => []AllJobsRun`: a destructor that has ended has run every job |
| `BenchEnvProofs!DiesOnCue` | `Spec => []CrashesOnCue` |
| `BenchEnvProofs!FilesSurvive` | `Spec => []SurvivesAsPrefix` |
| `ScenarioProofs!NeverFalseAlarm` | `Spec => []NoFalseAlarm` |
| `ScenarioProofs!LossAlwaysFound` | `Spec => []LossIsFound` |
| `ScenarioProofs!AckBrackets` | `Spec => []AckBracketsDb` |
| `ScenarioProofs!WritesOnHandles` | `Spec => []WritesHitTheirFamily` |
| `ScenarioProofs!CheckedIsHeld` | `Spec => []SnapshotIsHeld` |
| `BenchRunnerProofs!Invariance` | `Spec => []RunnerInv`, the invariant behind the next |
| `BenchRunnerProofs!TypesCorrect` | `Spec => []TypeOK`: no id outside the universe |
| `BenchRunnerProofs!NoAlarmIsFalse` | `Spec => []NoFalseAlarm` |
| `BenchRunnerProofs!OnlyWholeBatchesAccepted` | `Spec => []AppliedIsExact` |
| `BenchRunnerProofs!ContinuationIsExact` | `Spec => []ResumeExact` |
| `BenchRunnerProofs!EveryIdInsertedOnce` | every mixed workload's `perm` is onto its range implies `Spec => []InsertsOnce` |
| `BenchRunnerProofs!OnlyTheWindowLives` | `Spec => []WindowIsLive` |
| `BenchRunnerProofs!EverySnapshotIsChecked` | `Spec => []SnapshotsAreChecked` |

Assumptions: in `SharedLog`, 0 is a family and bounds are numbers; in `Levels`, there are a key and two levels, and a flush stays within them; in `BenchEnv`, sizes are numbers and a cue is
a positive number of events of one thread (`CuesAssumption`, see above); in `Scenario`, bounds are numbers, `P` is positive, a seed is a
sequence of draws and `Touches` are writes the generator can draw (`SeedsAssumption`); in `BenchRunner`, periods are positive and a workload is `Shaped`. TLC evaluates each of them.
`Shaped` states what `WorkloadShape` and the recipes make of a shape at any scale the program takes (0 to 8), as the relations the generator
relies on: `n_hot` and the purged range are smaller than the ids they are laid in, as `Below` of their difference is drawn; an appending
workload loads nothing and has batches of 8, whose deletions (up to 24 operations) outrun its appends; a batch of `mixed` is of at most 6,
and `n_mixed_new` at least 100, so that a purge which goes on past its range stays in the universe.

`NothingLost` is not inductive: whether a deletion loses something depends on what the flush claimed, on what memory
holds and on which log the memtable began. `Inductive` (`SharedLogInv`) says why it holds. The log number in a family's
descriptor splits its records: older ones are in its tables, the others still on disk (`OnDiskSplit`).
In memory the memtable's log is a second point above the first; records from there on are in the memtable,
those between are in the waiting memtable or in the tables of a recovery edit (`RunningSplit`, `ReplaySplit`).
`RunningOrder` and `Opening` keep the two points ordered and every log number fresh, `Flushing` says that an edit moves
the first point to the second only with the batches between in its tables, `Trimming` that what is deleted
lies below every first point, `ReplayOrder` that what is not replayed does as well. TLC checks
`Inductive` in the run `live`, where nothing crashes; that recovery preserves it too is the theorem's.

That is `Kept`, and preserved by itself. `Exact` is preserved once `Kept` is, and says the converse: every batch that a table, a
memtable or a recovery edit holds was appended, and to a log on that holder's side of the points (`DiskExact`, `RunningExact`,
`ReplayExact`); numbers grow with the order of commit and the running ones are past them all. Each of the two has one lemma for an action, under it one step for each
part that the action can disturb. What users are promised follows from both: a batch on both sides of a point would be of a log both
older and newer (`NothingTwice`), and the two inclusions are `ServesWhatWasWritten`. For the refinement, `StoreIsHistory`
reads the store of a family off the history of appended records, so that only `AddRecord`, a creation and a drop change it.

For `Levels`, `Shape` needs no hypothesis. `Ordered` does: with a write during a call of `CompactRange` both
`LevelsDisjoint` and `LayerOrder` fail (`overlap`), so the theorems on them assume `~WritesDuringCall`, and `CallEmptiesLevels`
says so itself. Neither of the two is inductive. `Aged` compares whole tables by what they hold of each key, dates everything by
the last write, and is kept by any version edit that is `Replaceable`: what stays in the upper level is newer than the inputs, what stays
in the lower one lies on one side of all of them (`ReplacedAged`, `ReplacedDisjoint`; an install and a trivial move are both such edits).
`Working` says that the compaction at work is one. It holds when it begins because of how the inputs are chosen (`InputsTaken`, `InputsReplaceable`), and
after a flush in the middle of it because of `Gapless`: an automatic compaction's inputs leave no gap, so a memtable that meets none of them
lies beside them all. A request of `CompactRange` can have a gap, but then there is nothing to flush (`Calling`).
`Behind` says that the call has emptied the levels above its own, and of that one everything before `from` but the inputs at work; it needs
that requests take neighbours (`BoundaryBelow`, `InputsInOrder`). The outputs are made of the inputs (`EntriesStandFor`, `OutputsMade`), apart from each other
wherever they are cut (`PartsInOrder`), and plain at the bottom (`BottomIsPlain`). The closures that choose inputs (`OverlappingAt0`, `AddBoundary`)
are defined as least closed sets, which can be reasoned about.

`ReadsExact` compares values, which are folded over sequences, where the provers have no induction. But the operands of a key are folded oldest first
and each came from writes older than the next, so every value is an *increasing* sequence of writes, and two of those with the same elements are equal
(`SameSequence`). `LevelsReads` therefore follows sets. `Gives` says that a write is part of an answer: it is in the value of an entry that is
visible and not wiped by anything newer. `Exact` says that, read through *everything* the family holds at once, the writes given to each
reader are those that count (`Content`), and that the outputs of the compaction at work stand in for its inputs (`Faithful`): they give every
reader at a stripe the same writes, and wipe the same for him, or nothing older lies deeper. Readers are the bounds of the stripes, so a new snapshot is one
that is already served. `Faithful` holds when a compaction begins because each stripe keeps what its
readers get (`StripeMakes`), stripes of a key add up (`KeyMakes`), and cuts neither lose an entry nor uncover a key (`OutputsKeep`); `CompactsTo` is all of
that together. An install swaps inputs for outputs (`SwapGives`), which needs `Aged`: what else holds the key is newer than all the inputs, or older
and deeper. Flushes, switches and moves change nothing in the union.
From the union to `Get`: the layers are ordered and levels disjoint (`LayersInOrder`, `TablesDisjoint`), so stopping at the first layer that
settles, hiding all layers under a newer tombstone and looking into one table of a level lose nothing (`FoundIs`), and the concatenation over
layers is increasing again (`GetIs`). The condition is not a weakness of the argument: with a write during a call of `CompactRange`
`ReadsExact` is false, which `overlap` shows. `TypeOK` needs no condition.

For `Cursor`, `CursorInv` says that the fragments of a memtable hold for each key the tombstones over it (`MapsExact`) and that a view is made of the
index of what it sees (`ViewMade`). It rests on two lemmas on the algorithms: `MapAddExact` (splitting the fragments under a new
tombstone keeps them apart and adds it to the keys it covers, no others) and `IndexExact`. Where an algorithm walks from one fragment to the
next the argument is by the least counterexample: `WellOrder` proves that a set of numbers has a least element, as an instance of the library's
theorem on `<` that the provers can cite.

For `BenchRunner`, what the generator will do must be known of every draw. `GenOk` keeps its fields in bounds: `maxWritten`, `head`,
`purged` and the hot and the purged range against the universe, and the snapshot it has pending within its phase. `Matches` says what the model of all the batches so
far has in common with it: in an appending workload the ids from `purged` to `head` live, after phases A and B of `mixed` the ids put. Both are
kept by every step that any random numbers can give (`NextStepFits`), which rests on what one operation, one batch, one appending batch with its
purge and one phase can do (`GrowFits`, `BatchFits`, `AppendFits`, `PhaseStepFits`). `RunnerInv` adds where the process is: `Executed`, the
number of batches the database has, is `ack`, one more if the batch under way was applied, and those of the continuation; the model is `Replayed` of
that many, but for the versions that `Verify` patches and `Resume` puts back. A read then never fails, since the walk of `NextLive` and `PrevLive` that
a scan expects is what an ordered iterator yields (`ScanFits`, `RScanFits`), and `decide` tells the states before and after a batch apart on
the ids in which they differ (`DecideIs`). That `Permute` is a bijection is not proved: it is computed on bits, and
`EveryIdInsertedOnce` takes it as a hypothesis that `InsertsOnce` checks in `bench` for both walks. What replaying, batching or walking gives is
first unrolled to a series of values (`ReplayRuns`, `ExpectedRuns`), so that arguments go along it by the least counterexample.

For `BenchEnv`, `JobInv` relates what the worker and the waiting thread see: `pending` is the queue and the job at work, no job is
forgotten, an idle `main` has no jobs, the worker leaves last. `CueInv` says that `count` runs ahead of the events performed by the one operation that
is in progress and counted, and that `OpsHaveThreads` makes that operation the only one. `FileInv` says that the bytes of a file are the
numbers of its appends in order and that the buffer goes on where the file ends, also half-way through an operation. For `Scenario`, `RunInv` says that the
run's four books agree at every `pc`: `Bookkeeping` (writes, acknowledgements, trail), `FamiliesKnown` (generator,
handles, database), `SnapshotsKnown` (the generator's count is never above what the process holds, though a drop
resets only the former).

The comparisons of `Scenario` are by `CompareInv`. A read of an entry has one answer however its operands are folded: `AffineMul` and
`AffineAdd` are the product and the sum up to multiples of `P` (`MulRight`, `AddRight`, for any positive `P`: nothing here needs a prime), `PartialMerge` is the composition of two maps (`ComposedIsBoth`), and a series of operands can be applied in two
goes (`AppliedParts`); so `Foldings` has one element (`OneFolding`, `OneAnswer`). One write, a batch of them, a creation and a drop then do to
what is read of the database what they do to the models (`EntryWritten`, `SameWrites`, `CarriedHolds`; a batch needs that its families have handles,
as `WritesHitTheirFamily` says). `Following` says that the run is at a point of the replay of its seed, and that the database `Holds` the
models; `SnapshotRight` says of a snapshot that each family it still shows has not been created again since, which is why a
drop must take that family from it; `TrailRight` that after each durable call the database held what
the replay comes to after as many writes. For `CheckRecovered` the count of writes along a replay never falls, and while it stays so do the models (`CountsGrow`):
`ModelsAfterWrites` may stop at the first point with the count (`ModelsFound`). So a disk that shows what the run held after `n` writes is accepted
for `n` (`Matched`), one that is accepted for `n` shows the models after `n` (`Accepted`), and a second attempt keeps in mind
that the first had a reason to fail (`Trying`). Replays, batches and folds are recursive functions, unrolled to series of values as those of `BenchRunner` are.
`CellsAfter` and `EntriesAfter` are operators of their own because tlapm 1.4.5 takes the inner of two nested `@` for the outer.

Only model-checked: that a cursor walks its snapshot (`ImplementsWalk`), and that `Permute` is a bijection. Liveness stays with TLC: fairness and ENABLED are out of the prover's
reach.

## Where the code and its documents differ

| Run | What happens | What is said |
|---|---|---|
| `drop_race` | `DropColumnFamily` (2640) waits for the background thread but not for a write that has captured the memtable it releases | comment at 2180: each record goes to its own family's memtable |
| `families_error` | `FAMILIES` cannot be written: the family is dropped in memory only, its logs are deleted, and it returns without its batches | `spec.md` 193: acknowledged writes to every family survive |
| `gone` | `CompactRange` settles its deepest level before it flushes; the flushed table can land below all that is compacted, with the data its own tombstone covers | `spec.md` 74: that data is gone from the table files |
| `overlap` | a flush during a manual compaction with a gap in its inputs lands in the gap of the output level; a lookup misses a newer put | `spec.md` 93: no reader can tell |

The way to `overlap`: the manual compaction of a level takes the first and the last table and nothing
between; a put in between is flushed meanwhile, into the level the outputs go to, since the current version
shows nothing there; the one output spans both sides. The placing of flushed tables is stock LevelDB's, the reads that
suffer are the engine's.

Differences that no run shows:

* `MakeRoomForWrite` clears `force` after switching any family (2368). While the default family waits for its previous flush, a
  lagging family that is switched uses the request up, and `TEST_CompactMemTable` returns with batches in the default family's
  memtable; the comment at 2257 says that a null batch applies to the default family.
* After a crash between `FAMILIES` and the removal of a dropped family's files the directory stays for good (2660); `spec.md` 190 says
  the tables are deleted from disk.
* A family dropped with a flush pending keeps `pending_flush_` (2627); `CompactRange` with a handle compacts the default family (1183).
* `conf_model.h` 169 says that up to three snapshots are held at once: a drop resets the generator's count while
  the runner keeps its snapshots, so it holds more. `SnapshotIsHeld` shows that this does no harm.
* `Check` of `lsmbench` (671-679) collects the steps it skips and never uses them. A lull of a burst comes after the
  first batch of the burst, not after the burst (`OtherMainStep`).
* `LockFile` (`bench_env.h` 513) takes a POSIX record lock, which any close of the same file by the process drops.

## Not modelled

* I/O errors (but the `FAMILIES` file), corruption, a shutdown inside a compaction, synced and unsynced writes.
* Level-0 slow-down and stop triggers: delays, no state.
* `CompactRange` over part of the keys, and for other families: the code compacts the default one (1183).
* Names and handles: in the plan.
* Of the iterator: the sampling of reads (`RecordReadSample`, which only asks for compactions), the status after a corrupt entry or a failed merge.
* Of the harness: the scripted API checks (`RunApiChecks`, `conf_model.cc` 1023-1398) and performance cases
  (1474-1819), which are sequences of calls and comparisons without state between them; counters of bytes and operations, statistics
  (`WriteStats`), command lines, `Describe`, `SelfTest`, formats of keys and values; the Python drivers and verifier.
* A second kill during the continuation of a check: the harness does not make one.
* Table and block format, the skip list, caches, statistics, `DestroyDB`, the build and measuring scripts.

## Plan

In this order; modules that exist are above.

1. `Catalog`: names, handles and `CheckFamily`. Two creations of one name while `LogAndApply` has released
   `mutex_` (2596); handles used after a drop (2062, 2640); `CompactRange` on another family's handle; when a drop returns.
2. `FlushScheduler`: flushes and compactions of several families on one background thread; who can starve whom.
3. Proofs. `Cursor`: `ImplementsWalk`.
