---------------------------- MODULE SharedLogFaults ----------------------------
(***************************************************************************)
(* SharedLog with what its main specification leaves out: callers that     *)
(* drop a family while another thread's write to it is in flight, and a    *)
(* FAMILIES file that cannot be written.                                   *)
(***************************************************************************)
EXTENDS SharedLog

\* Drop without the obligation on callers: nothing in DropColumnFamily waits
\* for the writer that has captured the family's memtable.
DropDuringWrite(f) == WriteHolds(f) /\ DropFamily(f)

\* DropColumnFamily when WriteFamilies fails: the family is dropped in memory
\* and the call returns the error, with FAMILIES and the directory unchanged.
DropUnrecorded(f) ==
  /\ phase = "open"
  /\ f \in live \ {0}
  /\ MutexFree /\ ~BackgroundBusy
  /\ ~WriteHolds(f)
  /\ live' = live \ {f}
  /\ hasMem' = hasMem \ {f}
  /\ mem' = [mem EXCEPT ![f] = {}]
  /\ UNCHANGED <<diskVars, phase, creating, dropping, nextId, logfile,
                 nextFile, lastSeq, imm, hasImm, memLog, immLog, logNum,
                 verLast, writerVars, bgVars, openVars, ghostVars>>

\* CreateColumnFamilyLocked when WriteFamilies fails: the family stays in
\* cfs_, but no handle is returned and FAMILIES does not list it.
CreateUnrecorded(f) ==
  /\ phase = "open"
  /\ f \in creating
  /\ MutexFree
  /\ creating' = creating \ {f}
  /\ man' = [man EXCEPT ![f] = [log |-> memLog[f], last |-> verLast[f],
                                tables |-> {}]]
  /\ logNum' = [logNum EXCEPT ![f] = memLog[f]]
  /\ live' = live \cup {f}
  /\ UNCHANGED <<logs, wal, listed, diskNextId, dirs, diskNext, phase,
                 dropping, nextId, logfile, nextFile, lastSeq, hasMem, mem,
                 imm, hasImm, memLog, immLog, verLast, writerVars, bgVars,
                 openVars, ghostVars>>

SpecDropDuringWrite ==
  Init /\ [][Next \/ \E f \in Families : DropDuringWrite(f)]_vars

SpecUnrecorded ==
  Init /\ [][Next \/ \E f \in Families : DropUnrecorded(f) \/ CreateUnrecorded(f)]_vars

\* "Every live family's memtable, so each record goes to its own": the
\* memtables a write has captured are still those of live families when it
\* inserts into them (DBImpl::Write, without mutex_).
CapturedStayLive == \A f \in Families : WriteHolds(f) => f \in live
==============================================================================
