------------------------------ MODULE SharedLog ------------------------------
(***************************************************************************)
(* The storage core of the patched LevelDB: several column families with   *)
(* memtables and tables of their own, and one write-ahead log shared by    *)
(* all of them.  A batch is one log record; a family's memtable is         *)
(* switched onto a new log when it is full, flushed into a table by the    *)
(* background thread, and a log is deleted once no family needs it.  The   *)
(* process can be killed between any two steps and reopens from its disk.  *)
(*                                                                         *)
(* Three kinds of actor take interleaved steps while the database is open: *)
(* the writer at the front of the queue (DBImpl::Write), the background    *)
(* thread (DBImpl::CompactMemTable) and callers that create and drop       *)
(* families.  An action ends where the code releases mutex_ or makes a     *)
(* change of the disk that a crash can come after.                         *)
(*                                                                         *)
(* Data abstraction: a batch is its number in commit order and the set of  *)
(* families it touches; a table or a memtable is the set of the batches it *)
(* holds; a family is its id; sizes are counted in batches.                *)
(***************************************************************************)
EXTENDS Naturals, FiniteSets

CONSTANTS
  Families,       \* ids a family can have; 0 is the default family
  Buffer,         \* write_buffer_size, in batches
  MaxLiveLogs,    \* kMaxLiveLogs
  ReuseLogs,      \* Options::reuse_logs
  MaxSeq,         \* bound: batches written in a behaviour
  MaxCrash,       \* bound: crashes in a behaviour
  MaxForced       \* bound: forced flushes (TEST_CompactMemTable) in a behaviour

ASSUME FamiliesAssumption == Families \subseteq Nat /\ 0 \in Families
ASSUME ReuseAssumption == ReuseLogs \in BOOLEAN
ASSUME BoundsAssumption ==
  /\ Buffer \in Nat \ {0}
  /\ MaxLiveLogs \in Nat
  /\ MaxSeq \in Nat
  /\ MaxCrash \in Nat
  /\ MaxForced \in Nat

VARIABLES
  (* disk *)
  logs,         \* numbers of the .log files
  wal,          \* the records in them
  listed,       \* ids in the FAMILIES file (the default family is implicit)
  diskNextId,   \* next_family_id_ as FAMILIES records it
  dirs,         \* families whose directory, with a descriptor, exists
  man,          \* per family, what its MANIFEST adds up to
  diskNext,     \* the default family's next file number in its MANIFEST
  (* memory: the database *)
  phase,        \* "down", the stages of DB::Open, or "open"
  live,         \* families in cfs_ that are not dropped
  creating,     \* families between NewDB and cfs_[id] = cf
  dropping,     \* dropped families whose directory is not yet removed
  nextId,       \* next_family_id_
  logfile,      \* logfile_number_ (0 while there is no log_)
  nextFile,     \* next file number of the default family: logs use it
  lastSeq,      \* last_sequence_
  (* memory: per family *)
  hasMem,       \* families with mem != nullptr
  mem, imm,     \* what the two memtables hold
  hasImm,       \* imm != nullptr
  memLog,       \* mem_log_number
  immLog,       \* imm_log_number
  logNum,       \* versions->LogNumber()
  verLast,      \* versions->LastSequence()
  (* the writer at the front of the queue *)
  wpc, wfams, wmems, force,
  (* the background thread, and the file deletion it shares with DB::Open *)
  bgPc, bgFam, bgEdit, trim,
  (* DB::Open *)
  toReplay,     \* logs still to be replayed
  recTables,    \* per family, the tables in recovery_edits_
  saveManifest, \* save_manifest
  applied,      \* families whose recovery edit has been logged
  (* bookkeeping of the model, not of the program *)
  hist,         \* every record ever appended to a log
  crashes, forced, \* numbers of crashes and of forced flushes so far
  goal,         \* batches the pending forced flush was asked to flush
  gone          \* families that were dropped

diskVars   == <<logs, wal, listed, diskNextId, dirs, man, diskNext>>
dbVars     == <<live, creating, dropping, nextId>>
famVars    == <<hasMem, mem, imm, hasImm, memLog, immLog, logNum, verLast>>
writerVars == <<wpc, wfams, wmems, force>>
bgVars     == <<bgPc, bgFam, bgEdit, trim>>
openVars   == <<toReplay, recTables, saveManifest, applied>>
ghostVars  == <<hist, crashes, forced, goal, gone>>
vars == <<diskVars, phase, dbVars, logfile, nextFile, lastSeq, famVars,
          writerVars, bgVars, openVars, ghostVars>>

Record   == [log : Nat, seq : Nat, fams : SUBSET Families]
Manifest == [log : Nat, last : Nat, tables : SUBSET Nat]

Edit     == [log : Nat, last : Nat, tables : SUBSET Nat, next : Nat]

\* What NewDB writes into the descriptor of a new directory.
NewDB == [log |-> 0, last |-> 0, tables |-> {}]

\* The batches among the records rs that touch family f.
BatchesOf(rs, f) == {r.seq : r \in {x \in rs : f \in x.fams}}

------------------------------------------------------------------------------
(* Which logs are needed: OldestLiveLog and RemoveObsoleteFiles.           *)

\* Bug: the memtable that waits for its flush is forgotten.
NeededByMemOnly(f) == memLog[f]

\* The oldest log a live family still needs.
NeededBy(f) ==
  LET inMemory == IF hasImm[f] THEN immLog[f] ELSE memLog[f]
  IN  IF logNum[f] <= inMemory THEN logNum[f] ELSE inMemory

NeededLogs == {logfile} \cup {NeededBy(f) : f \in live}

\* Bug: the oldest needed log is deleted too.
ObsoleteLogsInclusive == {n \in logs : \A m \in NeededLogs : n <= m}

\* The logs below OldestLiveLog(), which RemoveObsoleteFiles deletes.
ObsoleteLogs == {n \in logs : \A m \in NeededLogs : n < m}

\* Logs lag when more than kMaxLiveLogs numbers lie behind the current one.
LogsLag == \E m \in NeededLogs : logfile > m + MaxLiveLogs

\* Bug: only a memtable older than every needed log counts.
HoldsOldestStrictly(f) == \A m \in NeededLogs : memLog[f] < m

\* f's memtable is (one of) those that hold the oldest log back.
HoldsOldest(f) == \A m \in NeededLogs : memLog[f] <= m

------------------------------------------------------------------------------
(* A process that is not running: what a crash leaves of memory.           *)

Nothing == [f \in Families |-> {}]
Zero    == [f \in Families |-> 0]
Never   == [f \in Families |-> FALSE]
NoEdit  == [log |-> 0, last |-> 0, tables |-> {}, next |-> 0]

Init ==
  /\ logs = {} /\ wal = {}
  /\ listed = {} /\ diskNextId = 1 /\ dirs = {0}
  /\ man = [f \in Families |-> NewDB] /\ diskNext = 2
  /\ phase = "down"
  /\ live = {} /\ creating = {} /\ dropping = {} /\ nextId = 1
  /\ logfile = 0 /\ nextFile = 0 /\ lastSeq = 0
  /\ hasMem = {} /\ mem = Nothing /\ imm = Nothing /\ hasImm = Never
  /\ memLog = Zero /\ immLog = Zero /\ logNum = Zero /\ verLast = Zero
  /\ wpc = "idle" /\ wfams = {} /\ wmems = {} /\ force = FALSE
  /\ bgPc = "idle" /\ bgFam = 0 /\ bgEdit = NoEdit /\ trim = {}
  /\ toReplay = {} /\ recTables = Nothing /\ saveManifest = FALSE
  /\ applied = {}
  /\ hist = {} /\ crashes = 0 /\ forced = 0 /\ goal = {} /\ gone = {}

\* The process is killed: the disk stays as it is, memory is gone.  (Closing
\* the database cleanly leaves the same disk.)
Crash ==
  /\ phase # "down"
  /\ crashes < MaxCrash
  /\ crashes' = crashes + 1
  /\ phase' = "down"
  /\ live' = {} /\ creating' = {} /\ dropping' = {} /\ nextId' = 1
  /\ logfile' = 0 /\ nextFile' = 0 /\ lastSeq' = 0
  /\ hasMem' = {} /\ mem' = Nothing /\ imm' = Nothing /\ hasImm' = Never
  /\ memLog' = Zero /\ immLog' = Zero /\ logNum' = Zero /\ verLast' = Zero
  /\ wpc' = "idle" /\ wfams' = {} /\ wmems' = {} /\ force' = FALSE
  /\ bgPc' = "idle" /\ bgFam' = 0 /\ bgEdit' = NoEdit /\ trim' = {}
  /\ toReplay' = {} /\ recTables' = Nothing /\ saveManifest' = FALSE
  /\ applied' = {}
  /\ goal' = {}
  /\ UNCHANGED <<diskVars, hist, forced, gone>>

------------------------------------------------------------------------------
(* DB::Open: the stages "create", "replay", "apply" and "trim".            *)

\* Read FAMILIES and every family's descriptor.  The default family's
\* VersionSet takes one file number for a new descriptor.  Without
\* reuse_logs the descriptor is always rewritten; with it, it may be reused.
RecoverOpen ==
  /\ phase = "down"
  /\ phase' = "create"
  /\ live' = listed \cup {0}
  /\ nextId' = diskNextId
  /\ logNum' = [f \in Families |-> man[f].log]
  /\ verLast' = [f \in Families |-> man[f].last]
  /\ nextFile' = diskNext + 1
  /\ saveManifest' \in (IF ReuseLogs THEN BOOLEAN ELSE {TRUE})
  /\ UNCHANGED <<diskVars, creating, dropping, logfile, lastSeq, hasMem, mem,
                 imm, hasImm, memLog, immLog, writerVars, bgVars, toReplay,
                 recTables, applied, ghostVars>>

\* Find the logs to replay and the largest sequence the descriptors record.
RecoverList ==
  /\ phase = "create"
  /\ creating = {}
  /\ phase' = "replay"
  /\ toReplay' = {n \in logs : \E f \in live : logNum[f] <= n}
  /\ \E g \in live : /\ \A f \in live : verLast[f] <= verLast[g]
                     /\ lastSeq' = verLast[g]
  /\ UNCHANGED <<diskVars, dbVars, logfile, nextFile, famVars, writerVars,
                 bgVars, recTables, saveManifest, applied, ghostVars>>

\* Bug: every family replays every log that is left.
ReplayingAll(n) == live

\* Bug: a family skips the log it starts at.
ReplayingLater(n) == {f \in live : logNum[f] < n}

\* The records of log n, and the families that replay it: one whose LogNumber
\* is past n has them in its tables and skips them.
RecordsIn(n) == {r \in wal : r.log = n}
Replaying(n) == {f \in live : logNum[f] <= n}

\* Bug: a record that no family replays gives its sequence number back.
SequencesReplayed(n) ==
  {r.seq : r \in {x \in RecordsIn(n) : x.fams \cap Replaying(n) # {}}}

\* The sequence numbers a log uses up: those of skipped records count.
SequencesIn(n) == {r.seq : r \in RecordsIn(n)}

\* Bug: the numbers of the replayed logs are not marked as used.
MarkNothingUsed(n, next) == next

\* VersionSet::MarkFileNumberUsed: the next file number after log n is seen.
MarkFileNumberUsed(n, next) == IF next <= n THEN n + 1 ELSE next

\* Bug: the last log is kept whatever families there are.
CanReuseAnyFamilies(n, midway) ==
  ReuseLogs /\ toReplay = {n} /\ ~midway /\ 0 \notin hasMem

\* RecoverLogFile keeps the last log as the current one: only with reuse_logs
\* and the default family alone, when no memtable was flushed midway.
CanReuse(n, midway) ==
  ReuseLogs /\ toReplay = {n} /\ ~midway /\ live = {0} /\ 0 \notin hasMem

ReuseLog(n) ==
  /\ logfile' = n
  /\ hasMem' = {0}
  /\ mem' = [mem EXCEPT ![0] = IF 0 \in Replaying(n)
                               THEN BatchesOf(RecordsIn(n), 0) ELSE {}]
  /\ memLog' = [memLog EXCEPT ![0] = n]
  /\ nextFile' = MarkFileNumberUsed(n, nextFile)
  /\ UNCHANGED recTables

\* Otherwise every replayed memtable becomes a table, in recovery_edits_ only.
FlushReplayed(n) ==
  /\ recTables' = [f \in Families |->
                     IF f \in Replaying(n)
                     THEN recTables[f] \cup BatchesOf(RecordsIn(n), f)
                     ELSE recTables[f]]
  /\ LET table == 0 \in Replaying(n) /\ BatchesOf(RecordsIn(n), 0) # {}
     IN  nextFile' = MarkFileNumberUsed(n, IF table THEN nextFile + 1
                                                    ELSE nextFile)
  /\ UNCHANGED <<logfile, hasMem, mem, memLog>>

\* RecoverLogFile on the oldest remaining log; `midway` says that a memtable
\* outgrew its buffer while the log was read.
ReplayLog ==
  /\ phase = "replay"
  /\ \E n \in toReplay, midway \in BOOLEAN :
       /\ \A m \in toReplay : n <= m
       /\ midway => RecordsIn(n) # {}
       /\ IF CanReuse(n, midway) THEN ReuseLog(n) ELSE FlushReplayed(n)
       /\ toReplay' = toReplay \ {n}
       /\ lastSeq' \in {lastSeq} \cup SequencesIn(n)
       /\ \A q \in {lastSeq} \cup SequencesIn(n) : q <= lastSeq'
  /\ saveManifest' = TRUE
  /\ UNCHANGED <<diskVars, phase, dbVars, imm, hasImm, immLog, logNum,
                 verLast, writerVars, bgVars, applied, ghostVars>>

\* A new log file; NewWritableFile truncates a file of that number, if any.
SwitchLog ==
  /\ logfile' = nextFile
  /\ nextFile' = nextFile + 1
  /\ logs' = logs \cup {nextFile}
  /\ wal' = {r \in wal : r.log # nextFile}

\* Every log is replayed: start a new one, unless the last is reused, and
\* give a memtable on it to every family that has none.
RecoverNewLog ==
  /\ phase = "replay"
  /\ toReplay = {}
  /\ phase' = "apply"
  /\ IF logfile = 0
     THEN SwitchLog
     ELSE UNCHANGED <<logs, wal, logfile, nextFile>>
  /\ memLog' = [f \in Families |->
                  IF f \in live \ hasMem THEN logfile' ELSE memLog[f]]
  /\ hasMem' = live
  /\ verLast' = [f \in Families |-> IF f \in live THEN lastSeq ELSE verLast[f]]
  /\ UNCHANGED <<listed, diskNextId, dirs, man, diskNext, dbVars, lastSeq,
                 mem, imm, hasImm, immLog, logNum, writerVars, bgVars,
                 openVars, ghostVars>>

\* Bug: a flush claims the current log instead of its memtable's.
FlushPointCurrent(f) == logfile

\* Bug: a flush does not advance the family's log number.
FlushPointStays(f) == logNum[f]

\* Every log below this one is in f's tables once its pending memtable is.
FlushPoint(f) == memLog[f]

\* What VersionSet::LogAndApply is to write for family f: the tables it gains,
\* the log it now starts at, and the counters.  It is put together with mutex_
\* held and written without.
ManifestEdit(f, tables) ==
  [log |-> FlushPoint(f), last |-> verLast[f],
   tables |-> man[f].tables \cup tables, next |-> nextFile]

LogManifest(f, edit) ==
  /\ man' = [man EXCEPT ![f] = [log    |-> edit.log,
                                last   |-> edit.last,
                                tables |-> edit.tables]]
  /\ diskNext' = IF f = 0 THEN edit.next ELSE diskNext

\* Log the next family's recovery edit, in id order.
RecoverApply ==
  /\ phase = "apply"
  /\ \E f \in live \ applied :
       /\ \A g \in live \ applied : f <= g
       /\ applied' = applied \cup {f}
       /\ IF saveManifest \/ recTables[f] # {} \/ logNum[f] = 0
          THEN /\ LogManifest(f, ManifestEdit(f, recTables[f]))
               /\ logNum' = [logNum EXCEPT ![f] = FlushPoint(f)]
          ELSE UNCHANGED <<man, diskNext, logNum>>
  /\ UNCHANGED <<logs, wal, listed, diskNextId, dirs, phase, dbVars, logfile,
                 nextFile, lastSeq, hasMem, mem, imm, hasImm, memLog, immLog,
                 verLast, writerVars, bgVars, toReplay, recTables, saveManifest,
                 ghostVars>>

\* RemoveObsoleteFiles at the end of DB::Open: the files are chosen here and
\* deleted one at a time.
RecoverTrim ==
  /\ phase = "apply"
  /\ applied = live
  /\ phase' = "trim"
  /\ trim' = ObsoleteLogs
  /\ UNCHANGED <<diskVars, dbVars, logfile, nextFile, lastSeq, famVars,
                 writerVars, bgPc, bgFam, bgEdit, openVars, ghostVars>>

RecoverDone ==
  /\ phase = "trim"
  /\ trim = {}
  /\ phase' = "open"
  /\ UNCHANGED <<diskVars, dbVars, logfile, nextFile, lastSeq, famVars,
                 writerVars, bgVars, openVars, ghostVars>>

------------------------------------------------------------------------------
(* Creating and dropping families.                                         *)

\* mutex_ is held between the turns of MakeRoomForWrite's loop; every other
\* step that needs it waits.
MutexFree == wpc # "loop"

\* Bug: the default family is written too (ReadFamilies rejects id 0).
WriteFamiliesWithDefault(fs) == listed' = fs /\ diskNextId' = nextId

\* Bug: families that were dropped are not left out.
WriteFamiliesUnfiltered(fs) ==
  listed' = (listed \cup fs) \ {0} /\ diskNextId' = nextId

\* Bug: the next id is not recorded, but taken from the ids in use.
WriteFamiliesNoCounter(fs) ==
  /\ listed' = fs \ {0}
  /\ \E id \in fs : (\A g \in fs : g <= id) /\ diskNextId' = id + 1

\* WriteFamilies: FAMILIES is replaced as a whole, by a rename.
WriteFamilies(fs) == listed' = fs \ {0} /\ diskNextId' = nextId

\* CreateColumnFamilyLocked up to LogAndApply, which releases mutex_: the id
\* is taken, the directory gets a descriptor, the memtable opens on the
\* current log.  DB::Open creates missing families this way in the stage
\* "create", one after another, before it has a log.
CreateBegin ==
  /\ phase = "open" \/ (phase = "create" /\ creating = {})
  /\ MutexFree
  /\ nextId \in Families
  /\ creating' = creating \cup {nextId}
  /\ nextId' = nextId + 1
  /\ dirs' = dirs \cup {nextId}
  /\ man' = [man EXCEPT ![nextId] = NewDB]
  /\ hasMem' = hasMem \cup {nextId}
  /\ mem' = [mem EXCEPT ![nextId] = {}]
  /\ memLog' = [memLog EXCEPT ![nextId] = logfile]
  /\ logNum' = [logNum EXCEPT ![nextId] = 0]
  /\ verLast' = [verLast EXCEPT ![nextId] = 0]
  /\ UNCHANGED <<logs, wal, listed, diskNextId, diskNext, phase, live,
                 dropping, logfile, nextFile, lastSeq, imm, hasImm, immLog,
                 writerVars, bgVars, openVars, ghostVars>>

\* LogAndApply has logged the family's first log number (with the new
\* VersionSet's last sequence, 0); cfs_ gets the family and FAMILIES lists it.
CreateInstall(f) ==
  /\ f \in creating
  /\ MutexFree
  /\ creating' = creating \ {f}
  /\ man' = [man EXCEPT ![f] = [log |-> memLog[f], last |-> verLast[f],
                                tables |-> {}]]
  /\ logNum' = [logNum EXCEPT ![f] = memLog[f]]
  /\ live' = live \cup {f}
  /\ WriteFamilies(live')
  /\ UNCHANGED <<logs, wal, dirs, diskNext, phase, dropping, nextId, logfile,
                 nextFile, lastSeq, hasMem, mem, imm, hasImm, memLog, immLog,
                 verLast, writerVars, bgVars, openVars, ghostVars>>

\* background_compaction_scheduled_, as far as flushes go.
BackgroundBusy == bgPc # "idle" \/ \E f \in live : hasImm[f]

\* A write is between releasing mutex_ and taking it back, and will insert
\* into the memtable of f.
WriteHolds(f) == wpc \in {"append", "insert"} /\ f \in wfams \cap wmems

\* DropColumnFamily after its wait for the background thread: memory forgets
\* the family and FAMILIES no longer lists it.
DropFamily(f) ==
  /\ phase = "open"
  /\ f \in live \ {0}
  /\ MutexFree /\ ~BackgroundBusy
  /\ live' = live \ {f}
  /\ hasMem' = hasMem \ {f}
  /\ mem' = [mem EXCEPT ![f] = {}]
  /\ WriteFamilies(live')
  /\ dropping' = dropping \cup {f}
  /\ gone' = gone \cup {f}
  /\ UNCHANGED <<logs, wal, dirs, man, diskNext, phase, creating, nextId,
                 logfile, nextFile, lastSeq, imm, hasImm, memLog, immLog,
                 logNum, verLast, writerVars, bgVars, openVars, hist, crashes,
                 forced, goal>>

\* Callers do not drop a family that a write of theirs is being inserted into
\* (SharedLogFaults says what happens if they do).
Drop(f) == ~WriteHolds(f) /\ DropFamily(f)

\* The rest of DropColumnFamily, without mutex_: the directory goes.
DropRemoveDir(f) ==
  /\ f \in dropping
  /\ dropping' = dropping \ {f}
  /\ dirs' = dirs \ {f}
  /\ UNCHANGED <<logs, wal, listed, diskNextId, man, diskNext, phase, live,
                 creating, nextId, logfile, nextFile, lastSeq, famVars,
                 writerVars, bgVars, openVars, ghostVars>>

------------------------------------------------------------------------------
(* The writer: DBImpl::Write and MakeRoomForWrite.                         *)

\* A batch for the families fs reaches the front of the queue.
WriteBegin(fs) ==
  /\ phase = "open"
  /\ wpc = "idle"
  /\ lastSeq < MaxSeq
  /\ fs # {} /\ fs \subseteq live
  /\ wpc' = "room"
  /\ wfams' = fs
  /\ UNCHANGED <<diskVars, phase, dbVars, logfile, nextFile, lastSeq, famVars,
                 wmems, force, bgVars, openVars, ghostVars>>

\* TEST_CompactMemTable, which CompactRange calls first: a null batch.
ForceBegin ==
  /\ phase = "open"
  /\ wpc = "idle"
  /\ forced < MaxForced /\ goal = {}
  /\ mem[0] \cup imm[0] # {}
  /\ forced' = forced + 1
  /\ goal' = mem[0] \cup imm[0]
  /\ wpc' = "room"
  /\ wfams' = {}
  /\ force' = TRUE
  /\ UNCHANGED <<diskVars, phase, dbVars, logfile, nextFile, lastSeq, famVars,
                 wmems, bgVars, openVars, hist, crashes, gone>>

\* The families MakeRoomForWrite looks at: those of the batch, the default
\* family when forced, and those that hold old logs back.
Want == live \cap (wfams \cup (IF force THEN {0} ELSE {}) \cup
                   {f \in live : LogsLag /\ ~hasImm[f] /\ HoldsOldest(f)})

\* f needs a new memtable.  (A memtable's memory use is never zero.)
Full(f) == \/ force /\ f = 0
           \/ Cardinality(mem[f]) >= Buffer
           \/ LogsLag /\ HoldsOldest(f)

\* One turn of the loop: the first family that is full and has no flush
\* pending is switched to a new memtable on a new log.
SwitchMemTable(f) ==
  /\ wpc \in {"room", "loop"}
  /\ wpc' = "loop"
  /\ f \in Want /\ Full(f) /\ ~hasImm[f]
  /\ \A g \in Want : Full(g) /\ ~hasImm[g] => f <= g
  /\ SwitchLog
  /\ imm' = [imm EXCEPT ![f] = mem[f]]
  /\ immLog' = [immLog EXCEPT ![f] = memLog[f]]
  /\ hasImm' = [hasImm EXCEPT ![f] = TRUE]
  /\ mem' = [mem EXCEPT ![f] = {}]
  /\ memLog' = [memLog EXCEPT ![f] = logfile']
  /\ force' = FALSE
  /\ UNCHANGED <<listed, diskNextId, dirs, man, diskNext, phase, dbVars,
                 lastSeq, hasMem, logNum, verLast, wfams, wmems, bgVars, openVars,
                 ghostVars>>

\* No family can be switched, but one that is full waits for its flush: the
\* loop waits, which releases mutex_.
RoomWait ==
  /\ wpc = "loop"
  /\ \A f \in Want : Full(f) => hasImm[f]
  /\ \E f \in Want : Full(f)
  /\ wpc' = "room"
  /\ UNCHANGED <<diskVars, phase, dbVars, logfile, nextFile, lastSeq, famVars,
                 wfams, wmems, force, bgVars, openVars, ghostVars>>

\* Every family looked at has room: the loop ends.  A null batch is done; a
\* batch takes along those of the writers queued behind it, whose families
\* MakeRoomForWrite did not look at (BuildBatchGroup), captures the live
\* memtables and releases mutex_.
RoomFound ==
  /\ wpc \in {"room", "loop"}
  /\ \A f \in Want : ~Full(f)
  /\ force' = FALSE
  /\ IF wfams = {}
     THEN wpc' = "idle" /\ UNCHANGED <<wfams, wmems>>
     ELSE /\ wpc' = "append"
          /\ wmems' = live
          /\ \E queued \in SUBSET live : wfams' = wfams \cup queued
  /\ UNCHANGED <<diskVars, phase, dbVars, logfile, nextFile, lastSeq, famVars,
                 bgVars, openVars, ghostVars>>

\* log_->AddRecord, without mutex_.
AddRecord ==
  /\ wpc = "append"
  /\ LET r == [log |-> logfile, seq |-> lastSeq + 1, fams |-> wfams]
     IN  /\ wal' = wal \cup {r}
         /\ hist' = hist \cup {r}
  /\ wpc' = "insert"
  /\ UNCHANGED <<logs, listed, diskNextId, dirs, man, diskNext, phase, dbVars,
                 logfile, nextFile, lastSeq, famVars, wfams, wmems, force,
                 bgVars, openVars, crashes, forced, goal, gone>>

\* InsertInto puts the batch into the memtables that were captured, skipping
\* families that had been dropped by then; with mutex_ back, the sequence
\* number is published to every family and the write returns.
InsertInto ==
  /\ wpc = "insert"
  /\ mem' = [f \in Families |-> IF f \in wfams \cap wmems \cap live
                                THEN mem[f] \cup {lastSeq + 1} ELSE mem[f]]
  /\ lastSeq' = lastSeq + 1
  /\ verLast' = [f \in Families |->
                   IF f \in live THEN lastSeq + 1 ELSE verLast[f]]
  /\ wpc' = "idle" /\ wfams' = {} /\ wmems' = {}
  /\ UNCHANGED <<diskVars, phase, dbVars, logfile, nextFile, hasMem, imm,
                 hasImm, memLog, immLog, logNum, force, bgVars, openVars,
                 ghostVars>>

\* TEST_CompactMemTable returns once the default family has no flush pending.
ForceReturn ==
  /\ phase = "open"
  /\ goal # {}
  /\ MutexFree
  /\ ~(wpc = "room" /\ wfams = {})  \* its own null batch has returned
  /\ ~hasImm[0]
  /\ goal' = {}
  /\ UNCHANGED <<diskVars, phase, dbVars, logfile, nextFile, lastSeq, famVars,
                 writerVars, bgVars, openVars, hist, crashes, forced, gone>>

------------------------------------------------------------------------------
(* The background thread: BackgroundCompaction's flushes.                  *)

\* Bug: only the first family is looked at.
FlushesFirst(f) == f \in live /\ hasImm[f] /\ \A g \in live : f <= g

\* Families are taken in id order.
FlushesNext(f) == f \in live /\ hasImm[f] /\ \A g \in live : hasImm[g] => f <= g

\* Take the first family with a flush pending and build its table, without
\* mutex_.  The default family's table takes one of the shared file numbers.
FlushBuild(f) ==
  /\ phase = "open"
  /\ bgPc = "idle" /\ MutexFree
  /\ FlushesNext(f)
  /\ bgPc' = "build"
  /\ bgFam' = f
  /\ nextFile' = IF f = 0 THEN nextFile + 1 ELSE nextFile
  /\ UNCHANGED <<diskVars, phase, dbVars, logfile, lastSeq, famVars,
                 writerVars, bgEdit, trim, openVars, ghostVars>>

\* With mutex_ back: the edit adds the table and lets the family start at the
\* log its current memtable writes to.
FlushEdit ==
  /\ bgPc = "build" /\ MutexFree
  /\ bgPc' = "log"
  /\ bgEdit' = ManifestEdit(bgFam, imm[bgFam])
  /\ UNCHANGED <<diskVars, phase, dbVars, logfile, nextFile, lastSeq, famVars,
                 writerVars, bgFam, trim, openVars, ghostVars>>

\* LogAndApply writes the edit to the descriptor, without mutex_.
FlushLog ==
  /\ bgPc = "log"
  /\ bgPc' = "install"
  /\ LogManifest(bgFam, bgEdit)
  /\ UNCHANGED <<logs, wal, listed, diskNextId, dirs, phase, dbVars, logfile,
                 nextFile, lastSeq, famVars, writerVars, bgFam, bgEdit, trim,
                 openVars, ghostVars>>

\* With mutex_ back: the memtable is released and RemoveObsoleteFiles chooses
\* the logs to delete.
FlushInstall ==
  /\ bgPc = "install" /\ MutexFree
  /\ bgPc' = "trim"
  /\ logNum' = [logNum EXCEPT ![bgFam] = bgEdit.log]
  /\ bgEdit' = NoEdit
  /\ imm' = [imm EXCEPT ![bgFam] = {}]
  /\ hasImm' = [hasImm EXCEPT ![bgFam] = FALSE]
  /\ immLog' = [immLog EXCEPT ![bgFam] = 0]
  /\ UNCHANGED <<diskVars, phase, dbVars, logfile, nextFile, lastSeq, hasMem,
                 mem, memLog, verLast, writerVars, bgFam, openVars, ghostVars>>
  /\ trim' = ObsoleteLogs'

\* RemoveObsoleteFiles deletes one of the chosen logs, without mutex_.
DeleteLog ==
  /\ \E n \in trim : /\ trim' = trim \ {n}
                     /\ logs' = logs \ {n}
                     /\ wal' = {r \in wal : r.log # n}
  /\ UNCHANGED <<listed, diskNextId, dirs, man, diskNext, phase, dbVars,
                 logfile, nextFile, lastSeq, famVars, writerVars, bgPc, bgFam,
                 bgEdit, openVars, ghostVars>>

TrimDone ==
  /\ bgPc = "trim" /\ MutexFree
  /\ trim = {}
  /\ bgPc' = "idle"
  /\ bgFam' = 0
  /\ UNCHANGED <<diskVars, phase, dbVars, logfile, nextFile, lastSeq, famVars,
                 writerVars, bgEdit, trim, openVars, ghostVars>>

------------------------------------------------------------------------------
Recovery == \/ RecoverOpen \/ RecoverList \/ ReplayLog \/ RecoverNewLog
            \/ RecoverApply \/ RecoverTrim \/ RecoverDone

Catalog == \/ CreateBegin
           \/ \E f \in Families : CreateInstall(f) \/ Drop(f) \/ DropRemoveDir(f)

Writer == \/ \E fs \in SUBSET Families : WriteBegin(fs)
          \/ ForceBegin
          \/ \E f \in Families : SwitchMemTable(f)
          \/ RoomWait \/ RoomFound \/ AddRecord \/ InsertInto \/ ForceReturn

Background == \/ \E f \in Families : FlushBuild(f)
              \/ FlushEdit \/ FlushLog \/ FlushInstall \/ TrimDone

Next == Crash \/ Recovery \/ Catalog \/ Writer \/ Background \/ DeleteLog

Spec == Init /\ [][Next]_vars

\* A write that has begun goes on, and so does the background thread: both are
\* threads that the operating system keeps running, and both waits are on a
\* condition variable that is signalled after every background step.
WriteStep == \/ \E f \in Families : SwitchMemTable(f)
             \/ RoomWait \/ RoomFound \/ AddRecord \/ InsertInto

FairSpec == Spec /\ WF_vars(WriteStep) /\ WF_vars(Background \/ DeleteLog)

------------------------------------------------------------------------------
(* Properties.                                                             *)

DiskType ==
  /\ logs \subseteq Nat /\ wal \subseteq Record
  /\ listed \subseteq Families \ {0} /\ diskNextId \in Nat \ {0}
  /\ dirs \subseteq Families
  /\ man \in [Families -> Manifest] /\ diskNext \in Nat

DatabaseType ==
  /\ phase \in {"down", "create", "replay", "apply", "trim", "open"}
  /\ live \subseteq Families /\ creating \subseteq Families \ {0}
  /\ dropping \subseteq Families \ {0} /\ nextId \in Nat \ {0}
  /\ logfile \in Nat /\ nextFile \in Nat /\ lastSeq \in Nat

FamilyType ==
  /\ hasMem \subseteq Families
  /\ mem \in [Families -> SUBSET Nat] /\ imm \in [Families -> SUBSET Nat]
  /\ hasImm \in [Families -> BOOLEAN]
  /\ memLog \in [Families -> Nat] /\ immLog \in [Families -> Nat]
  /\ logNum \in [Families -> Nat] /\ verLast \in [Families -> Nat]

ActorType ==
  /\ wpc \in {"idle", "room", "loop", "append", "insert"}
  /\ wfams \subseteq Families /\ wmems \subseteq Families
  /\ force \in BOOLEAN
  /\ bgPc \in {"idle", "build", "log", "install", "trim"}
  /\ bgFam \in Families /\ bgEdit \in Edit /\ trim \subseteq Nat

OpenType ==
  /\ toReplay \subseteq Nat /\ recTables \in [Families -> SUBSET Nat]
  /\ saveManifest \in BOOLEAN /\ applied \subseteq Families

GhostType ==
  /\ hist \subseteq Record /\ crashes \in Nat /\ forced \in Nat
  /\ goal \subseteq Nat /\ gone \subseteq Families

TypeOK == DiskType /\ DatabaseType /\ FamilyType /\ ActorType /\ OpenType
            /\ GhostType

\* The families the disk knows.
OnDisk == listed \cup {0}

\* Some table that f's MANIFEST names holds the batch of r.
InTables(f, r) == r.seq \in man[f].tables

\* A reopen would replay r into f.
Replayable(f, r) == r \in wal /\ man[f].log <= r.log

\* A batch that was appended to the log is never lost to any family it
\* touches: at every moment, in every stage of opening too, a table of the
\* family holds it or the next replay finds it (OldestLiveLog,
\* RemoveObsoleteFiles, CompactMemTable, RecoverLogFile).
NothingLost ==
  \A r \in hist : \A f \in r.fams \cap OnDisk : InTables(f, r) \/ Replayable(f, r)

\* ... and never both, or a replay would apply a merge operand twice: what
\* tables hold is not replayed, neither by the next opening nor by this one.
NeverTwice ==
  /\ \A r \in hist : \A f \in r.fams \cap OnDisk :
       ~(InTables(f, r) /\ Replayable(f, r))
  /\ \A f \in live \ applied : recTables[f] \cap man[f].tables = {}

\* The batch group between AddRecord and InsertInto.
InFlight == IF wpc = "insert" THEN {lastSeq + 1} ELSE {}

\* What the open database serves is exactly what was appended, whichever
\* crashes, flushes and replays came before: each live family's memtables and
\* tables hold every batch that touches it, and nothing else, and each in one
\* place only (but for imm, between its table being logged and its release).
ContentsExact ==
  phase = "open" =>
    \A f \in live :
      /\ mem[f] \cup imm[f] \cup man[f].tables = BatchesOf(hist, f) \ InFlight
      /\ mem[f] \cap (imm[f] \cup man[f].tables) = {}
      /\ ~(bgPc = "install" /\ bgFam = f) => imm[f] \cap man[f].tables = {}

\* A sequence number is never used for two batches, not even across a crash
\* that comes after the logs that held it were deleted (Recover takes the
\* largest of the families' last sequences and of the replayed records).
SequenceUnique == \A r, s \in hist : r.seq = s.seq => r = s

\* A log number is never used again while a file or a record of it may exist:
\* SwitchLog never truncates a log (MarkFileNumberUsed in Recover).
FreshLogNumber ==
  phase \in {"apply", "trim", "open"} =>
    /\ \A n \in logs : n < nextFile
    /\ \A r \in hist : r.log < nextFile

\* The choice RemoveObsoleteFiles made stays right while it deletes without
\* mutex_: whatever is written, switched or created meanwhile, no chosen log
\* is the current one or holds a batch some family on disk still needs.
TrimStaysObsolete ==
  \A n \in trim :
    /\ n # logfile
    /\ \A r \in wal : r.log = n => \A f \in r.fams \cap OnDisk : InTables(f, r)

\* FAMILIES never lists a family that could not be opened: its directory and
\* descriptor come before the listing and go after it.
ListedCanOpen == OnDisk \subseteq dirs

\* A write that gets its room while no flush is pending leaves no family
\* behind, however idle: no live memtable holds back a log that is more than
\* kMaxLiveLogs numbers old (MakeRoomForWrite's lag rule; a family created by
\* DB::Open starts at log 0 and must be caught too).
NoLaggard ==
  [][wpc # "append" /\ wpc' = "append" /\ (\A f \in live : ~hasImm[f])
       => \A f \in live : logfile <= memLog[f] + MaxLiveLogs]_vars

\* A dropped family is never listed, opened or created again: its id is not
\* reused, whatever crashes follow (DropColumnFamily, CreateColumnFamilyLocked,
\* ReadFamilies).
DroppedForGood == gone \cap (listed \cup live \cup creating) = {}

\* A memtable set aside is flushed, whichever family it belongs to and however
\* many flushes are pending (or the process is killed).
EveryFlushCompletes == \A f \in Families : hasImm[f] ~> ~hasImm[f]

\* A write that waits for room gets it: the flush it waits for is not one that
\* waits for the writer.
EveryWriteReturns == wpc # "idle" ~> wpc = "idle"

==============================================================================
