----------------------------- MODULE SharedLogInv -----------------------------
(***************************************************************************)
(* The inductive invariant of SharedLog: why no batch is lost, and why the *)
(* store holds no more than was written, each batch once.  A family's      *)
(* log number in its MANIFEST splits the records that touch it: those of   *)
(* older logs are in its tables, the others are still on disk.  In memory  *)
(* a second point, the log of the memtable, splits the latter: newer       *)
(* records are in the memtable, older ones in what waits for a flush (or,  *)
(* while the database opens, in the tables of the recovery edit).  The     *)
(* conjuncts say how the two points stay ordered, and that no log at or    *)
(* above the first one is ever deleted, skipped or truncated (Kept).       *)
(* Conversely, what a table or a memtable holds came from the logs on its  *)
(* side of the points (Exact).                                             *)
(***************************************************************************)
EXTENDS SharedLog

NoRecords(f) == \A r \in hist : f \notin r.fams

\* Families: the ids of those on disk, in records, in the current write and
\* dropped are below next_family_id_ in FAMILIES; a family that is being
\* created has a directory and no records.
Ids ==
  /\ phase # "down" => diskNextId <= nextId
  /\ \A f \in OnDisk \cup wfams \cup gone : f < diskNextId
  /\ \A r \in hist : \A f \in r.fams : f < diskNextId
  /\ \A f \in creating : f < nextId /\ f \notin OnDisk \cup wfams /\ NoRecords(f)
  /\ live = IF phase = "down" THEN {} ELSE OnDisk
  /\ gone \cap (OnDisk \cup creating) = {}
  /\ dropping \subseteq gone
  /\ OnDisk \cup creating \subseteq dirs

\* The disk: a family's log number splits its records, and is that of a log
\* that exists or is no larger than the default family's.
OnDiskSplit ==
  /\ 0 \notin logs
  /\ wal \subseteq hist /\ \A r \in wal : r.log \in logs
  /\ man[0].log < diskNext
  /\ \A f \in OnDisk : man[f].log \in logs \/ man[f].log <= man[0].log
  /\ \A r \in hist : \A f \in r.fams \cap OnDisk :
       IF r.log < man[f].log THEN InTables(f, r) ELSE r \in wal

\* Which actors run, and which variables are unused, in each phase.
Stages ==
  /\ phase = "down" => creating = {} /\ hasMem = {}
  /\ phase \in {"down", "create"} => logfile = 0
  /\ phase \in {"down", "create", "replay"} => applied = {}
  /\ phase \in {"replay", "apply", "trim"} => creating = {}
  /\ phase \notin {"trim", "open"} => trim = {}
  /\ phase # "open" =>
       wpc = "idle" /\ bgPc = "idle" /\ \A f \in Families : ~hasImm[f]

\* DB::Open before it has a log: families created meanwhile start at log 0.
Opening ==
  phase \in {"create", "replay"} =>
    /\ man[0].log < nextFile
    /\ \A f \in live : logNum[f] = man[f].log
    /\ 0 \in hasMem <=> logfile # 0
    /\ creating \subseteq hasMem
    /\ \A f \in hasMem \ {0} :
         /\ memLog[f] = 0 /\ NoRecords(f) /\ f \in live \cup creating
         /\ f \in live => man[f].log = 0

\* A log that will not be replayed lies below all that will, and below the
\* next file number.
ReplayOrder ==
  phase = "replay" =>
    /\ toReplay \subseteq logs
    /\ \A n \in logs \ toReplay : n < nextFile /\ \A m \in toReplay : n < m
    /\ \A n \in toReplay : \E f \in live : logNum[f] <= n
    /\ logfile # 0 => /\ toReplay = {} /\ live = {0} /\ memLog[0] = logfile
                      /\ logfile \in logs /\ man[0].log <= logfile
                      /\ \A n \in logs : n <= logfile

\* A record that a family's tables lack is still to be replayed, or is in a
\* table of the recovery edit, or in the memtable of the log that is reused.
ReplaySplit ==
  phase = "replay" =>
    \A r \in hist : \A f \in r.fams \cap live :
      man[f].log <= r.log =>
        \/ r.log \in toReplay
        \/ r.log # logfile /\ r.seq \in recTables[f]
        \/ r.log = logfile /\ r.seq \in mem[f]

\* Once there is a log: numbers are fresh and a family's two points ordered.
RunningOrder ==
  phase \in {"apply", "trim", "open"} =>
    /\ \A n \in logs : n < nextFile
    /\ logfile \in logs
    /\ \A f \in live \cup creating :
         memLog[f] <= logfile /\ (memLog[f] \in logs \/ memLog[f] <= man[0].log)
    /\ \A f \in live : logNum[f] <= man[f].log /\ man[f].log <= memLog[f]

\* r is in the log but not yet in the memtable of f.
Pending(f, r) == wpc = "insert" /\ r.seq = lastSeq + 1 /\ f \in wfams

\* ... and the second point splits what is not in the tables.
RunningSplit ==
  phase \in {"apply", "trim", "open"} =>
    \A r \in hist : \A f \in r.fams \cap live :
      /\ memLog[f] <= r.log => r.seq \in mem[f] \/ Pending(f, r)
      /\ man[f].log <= r.log /\ r.log < memLog[f] =>
           \/ phase = "apply" /\ f \notin applied /\ r.seq \in recTables[f]
           \/ hasImm[f] /\ r.seq \in imm[f]

\* The background thread's edit of a MANIFEST.
Flushing ==
  /\ bgPc \in {"build", "log", "install"} => bgFam \in live /\ hasImm[bgFam]
  /\ bgPc \in {"log", "install"} => bgEdit.log = memLog[bgFam]
  /\ bgPc = "log" =>
       /\ man[bgFam].tables \cup imm[bgFam] \subseteq bgEdit.tables
       /\ bgFam = 0 => bgEdit.log < bgEdit.next
  /\ bgPc = "install" => man[bgFam].log = memLog[bgFam]

\* What RemoveObsoleteFiles has chosen, however long ago.
Trimming ==
  /\ \A n \in trim : n < logfile /\ n <= man[0].log
  /\ \A r \in wal : r.log \in trim =>
       \A f \in r.fams \cap OnDisk : r.log < man[f].log

\* A write has captured the memtable of every family it touches.
Writing == wpc \in {"append", "insert"} => wfams \cap live \subseteq wmems

\* Why no batch is lost.
Kept ==
  /\ TypeOK /\ Ids /\ OnDiskSplit /\ Stages
  /\ Opening /\ ReplayOrder /\ ReplaySplit
  /\ RunningOrder /\ RunningSplit
  /\ Flushing /\ Trimming /\ Writing

------------------------------------------------------------------------------
(* Why nothing is there twice, or out of nowhere: the other half of each   *)
(* split.  What a place holds came from the logs between two points.       *)

\* Each of the batches touches f and is in one of rs, in a log first .. end - 1.
FromLogs(rs, batches, f, first, end) ==
  \A q \in batches : \E r \in rs :
    r.seq = q /\ f \in r.fams /\ first <= r.log /\ r.log < end

\* The disk: what is in a family's tables is not in a log it will replay, and
\* the default family's descriptor vouches for the logs that are gone.
DiskExact ==
  /\ SequenceUnique
  /\ \A r \in hist : r \in wal \/ r.log < man[0].log
  /\ \A r \in hist : r.log < man[0].log => r.seq <= man[0].last
  /\ man[0].log = 0 \/ man[0].log \in logs
  /\ \A n \in trim : n < man[0].log
  /\ \A f \in OnDisk : FromLogs(hist, man[f].tables, f, 0, man[f].log)

\* What is not in use is empty.
Unused ==
  /\ \A f \in Families : IF hasImm[f] THEN f \in live ELSE imm[f] = {}
  /\ \A f \in creating : mem[f] = {}
  /\ phase \in {"down", "create", "replay"} =>
       \A f \in Families : f # 0 \/ 0 \notin hasMem => mem[f] = {}
  /\ phase \in {"down", "create"} => recTables = Nothing
  /\ phase \in {"replay", "apply"} =>
       \A f \in Families : f \notin live => recTables[f] = {}
  /\ phase \in {"trim", "open"} =>
       \A f \in Families : f \notin applied => recTables[f] = {}
  /\ phase = "create" => verLast[0] = man[0].last

\* While logs are replayed: what a table or memtable got from them, and the
\* largest sequence number seen so far.
ReplayExact ==
  phase = "replay" =>
    /\ man[0].last <= lastSeq
    /\ \A r \in hist : r.seq <= lastSeq \/ r.log \in toReplay
    /\ \A f \in live : \A q \in recTables[f] : \E r \in hist :
         /\ r.seq = q /\ f \in r.fams /\ man[f].log <= r.log
         /\ r.log \notin toReplay /\ r.log # logfile
    /\ \A q \in mem[0] : \E r \in hist :
         r.seq = q /\ 0 \in r.fams /\ man[0].log <= r.log /\ r.log = logfile
    /\ ~saveManifest =>
         \A n \in logs : (\E f \in live : logNum[f] <= n) => n \in toReplay

\* While recovery edits are logged.  An edit may be skipped only for a family
\* that has none to log, and there is no such family.
ApplyExact ==
  phase = "apply" =>
    /\ \A f \in live \ applied :
         FromLogs(hist, recTables[f], f, man[f].log, memLog[f])
    /\ \A f \in live \cap applied : logNum[f] = memLog[f]
    /\ ~saveManifest => \A f \in live \ applied : logNum[f] = 0

\* Once there is a log: the three places of a family and their two points.
RunningExact ==
  phase \in {"apply", "trim", "open"} =>
    /\ verLast[0] = lastSeq
    /\ \A r \in hist : r.seq <= lastSeq \/ (wpc = "insert" /\ r.seq = lastSeq + 1)
    /\ \A f \in live :
         /\ \A q \in mem[f] : q <= lastSeq
         /\ FromLogs(hist, mem[f], f, memLog[f], nextFile)
         /\ FromLogs(hist, imm[f], f,
                     IF bgPc = "install" /\ bgFam = f THEN 0 ELSE man[f].log,
                     memLog[f])
    /\ phase # "apply" =>
         \A f \in live : ~hasImm[f] => logNum[f] = memLog[f]

\* The write and the edit that are under way.
Underway ==
  /\ wpc = "insert" =>
       [log |-> logfile, seq |-> lastSeq + 1, fams |-> wfams] \in hist
  /\ wpc \in {"append", "insert"} \/ (wpc \in {"room", "loop"} /\ wfams # {}) =>
       lastSeq < MaxSeq
  /\ bgPc = "log" =>
       /\ bgEdit.tables \subseteq man[bgFam].tables \cup imm[bgFam]
       /\ bgFam = 0 => \A r \in hist : r.log < bgEdit.log => r.seq <= bgEdit.last

Exact == /\ DiskExact /\ Unused /\ ReplayExact /\ ApplyExact
         /\ RunningExact /\ Underway

\* Why the store is exactly what was written: holds initially and is preserved
\* by every step.
Inductive == Kept /\ Exact
==============================================================================
