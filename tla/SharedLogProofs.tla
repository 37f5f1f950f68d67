--------------------------- MODULE SharedLogProofs ---------------------------
(***************************************************************************)
(* Theorems of SharedLog, for any set of families, any number of batches   *)
(* and crashes, any buffer size and any kMaxLiveLogs: its variables keep   *)
(* their types; no batch is ever lost to a family, whatever is flushed,    *)
(* deleted, replayed, created, dropped or killed, in whatever order; no    *)
(* log a family needs is ever chosen for deletion; what the open database  *)
(* serves is exactly what was written to it, each batch once; sequence and *)
(* log numbers are never used twice; and no family is left behind by the   *)
(* lag rule.  They follow from the invariant Inductive of SharedLogInv.    *)
(* Its first part, Kept, is preserved by itself, its second, Exact, once   *)
(* Kept is: for each part one lemma per action, with one step per conjunct *)
(* that the action can disturb and common ones for those it leaves alone.  *)
(***************************************************************************)
EXTENDS SharedLogInv, SharedLogStore, WellOrder, TLAPS

------------------------------------------------------------------------------
(* Nothing is lost: types and Kept.                                        *)

\* A new log, wherever it is started, leaves the log variables well typed.
LEMMA SwitchLogType ==
  ASSUME TypeOK, SwitchLog
  PROVE  /\ logs' \subseteq Nat /\ wal' \subseteq Record
         /\ logfile' \in Nat /\ nextFile' \in Nat
BY DEF TypeOK, DiskType, DatabaseType, SwitchLog, Record

\* An edit of one family's MANIFEST leaves the descriptors well typed.
LEMMA LogManifestType ==
  ASSUME TypeOK, NEW f \in Families, NEW edit \in Edit, LogManifest(f, edit)
  PROVE  man' \in [Families -> Manifest] /\ diskNext' \in Nat
BY DEF TypeOK, DiskType, LogManifest, Edit, Manifest

\* An edit is put together from well-typed parts.
LEMMA EditType ==
  ASSUME TypeOK, NEW f \in Families, NEW tables \in SUBSET Nat
  PROVE  ManifestEdit(f, tables) \in Edit
BY DEF TypeOK, DiskType, DatabaseType, FamilyType, ManifestEdit, FlushPoint,
       Edit, Manifest

\* The batches that touch a family are numbers.
LEMMA BatchesType ==
  ASSUME NEW rs \in SUBSET Record, NEW f
  PROVE  BatchesOf(rs, f) \subseteq Nat
BY DEF BatchesOf, Record

\* The values a process that is not running has in its per-family variables,
\* and the descriptor of an empty family, have their types.
LEMMA EmptyTypes ==
  /\ Nothing \in [Families -> SUBSET Nat]
  /\ Zero \in [Families -> Nat]
  /\ Never \in [Families -> BOOLEAN]
  /\ NewDB \in Manifest
  /\ NoEdit \in Edit
BY DEF Nothing, Zero, Never, NewDB, Manifest, NoEdit, Edit

\* Every step keeps the types.
LEMMA TypeStep == TypeOK /\ [Next]_vars => TypeOK'
<1> USE FamiliesAssumption
<1> USE DEF DiskType, DatabaseType, FamilyType, ActorType, OpenType, GhostType
<1> SUFFICES ASSUME TypeOK, [Next]_vars PROVE TypeOK'
  OBVIOUS
<1> USE DEF diskVars, dbVars, famVars, writerVars, bgVars, openVars, ghostVars
<1>1. CASE Crash
  <2>1. DiskType' /\ DatabaseType' /\ GhostType'
    BY <1>1 DEF Crash, TypeOK
  <2>2. FamilyType' /\ ActorType' /\ OpenType'
    BY <1>1, EmptyTypes DEF Crash
  <2> QED
    BY <2>1, <2>2 DEF TypeOK
<1>2. CASE RecoverOpen
  <2>1. /\ logNum' \in [Families -> Nat] /\ verLast' \in [Families -> Nat]
        /\ saveManifest' \in BOOLEAN /\ live' \subseteq Families
    BY <1>2 DEF RecoverOpen, TypeOK, Manifest
  <2> QED
    BY <1>2, <2>1 DEF RecoverOpen, TypeOK
<1>3. CASE RecoverList
  BY <1>3 DEF RecoverList, TypeOK
<1>4. CASE ReplayLog
  <2>1. PICK n \in toReplay, midway \in BOOLEAN :
          /\ IF CanReuse(n, midway) THEN ReuseLog(n) ELSE FlushReplayed(n)
          /\ toReplay' = toReplay \ {n}
          /\ lastSeq' \in {lastSeq} \cup SequencesIn(n)
    BY <1>4 DEF ReplayLog
  <2>2. n \in Nat /\ RecordsIn(n) \in SUBSET Record
    BY DEF RecordsIn, TypeOK
  <2>3. \A f \in Families : BatchesOf(RecordsIn(n), f) \subseteq Nat
    BY <2>2, BatchesType
  <2>4. lastSeq' \in Nat
    BY <2>1, <2>2 DEF SequencesIn, Record, TypeOK
  <2>5. /\ recTables' \in [Families -> SUBSET Nat]
        /\ logfile' \in Nat /\ nextFile' \in Nat
        /\ hasMem' \subseteq Families
        /\ mem' \in [Families -> SUBSET Nat] /\ memLog' \in [Families -> Nat]
    <3>1. CASE ReuseLog(n)
      <4>1. (IF 0 \in Replaying(n) THEN BatchesOf(RecordsIn(n), 0) ELSE {})
               \in SUBSET Nat
        BY <2>3
      <4> QED
        BY <3>1, <4>1, <2>2 DEF ReuseLog, MarkFileNumberUsed, TypeOK
    <3>2. CASE FlushReplayed(n)
      <4>1. recTables' \in [Families -> SUBSET Nat]
        BY <3>2, <2>3 DEF FlushReplayed, TypeOK
      <4> QED
        BY <3>2, <4>1, <2>2 DEF FlushReplayed, MarkFileNumberUsed, TypeOK
    <3> QED
      BY <2>1, <3>1, <3>2
  <2> QED
    BY <1>4, <2>1, <2>4, <2>5 DEF ReplayLog, TypeOK
<1>5. CASE RecoverNewLog
  BY <1>5, SwitchLogType DEF RecoverNewLog, TypeOK
<1>6. CASE RecoverApply
  <2>1. \A f \in Families : ManifestEdit(f, recTables[f]) \in Edit
    BY EditType DEF TypeOK
  <2> QED
    BY <1>6, <2>1, LogManifestType DEF RecoverApply, FlushPoint, TypeOK
<1>7. CASE RecoverTrim
  BY <1>7 DEF RecoverTrim, TypeOK, ObsoleteLogs
<1>8. CASE RecoverDone
  BY <1>8 DEF RecoverDone, TypeOK
<1>9. CASE CreateBegin
  BY <1>9 DEF CreateBegin, TypeOK, NewDB, Manifest
<1>10. ASSUME NEW f \in Families, CreateInstall(f) PROVE TypeOK'
  BY <1>10 DEF CreateInstall, WriteFamilies, TypeOK, Manifest
<1>11. ASSUME NEW f \in Families, Drop(f) PROVE TypeOK'
  BY <1>11 DEF Drop, DropFamily, WriteFamilies, TypeOK
<1>12. ASSUME NEW f \in Families, DropRemoveDir(f) PROVE TypeOK'
  BY <1>12 DEF DropRemoveDir, TypeOK
<1>13. ASSUME NEW fs \in SUBSET Families, WriteBegin(fs) PROVE TypeOK'
  BY <1>13 DEF WriteBegin, TypeOK
<1>14. CASE ForceBegin
  BY <1>14 DEF ForceBegin, TypeOK
<1>15. ASSUME NEW f \in Families, SwitchMemTable(f) PROVE TypeOK'
  BY <1>15, SwitchLogType DEF SwitchMemTable, TypeOK
<1>16. CASE RoomFound
  BY <1>16 DEF RoomFound, TypeOK
<1>26. CASE RoomWait
  BY <1>26 DEF RoomWait, TypeOK
<1>17. CASE AddRecord
  <2>1. [log |-> logfile, seq |-> lastSeq + 1, fams |-> wfams] \in Record
    BY DEF TypeOK, Record
  <2> QED
    BY <1>17, <2>1 DEF AddRecord, TypeOK
<1>18. CASE InsertInto
  BY <1>18 DEF InsertInto, TypeOK
<1>19. CASE ForceReturn
  BY <1>19 DEF ForceReturn, TypeOK
<1>20. ASSUME NEW f \in Families, FlushBuild(f) PROVE TypeOK'
  BY <1>20 DEF FlushBuild, TypeOK
<1>21. CASE FlushLog
  BY <1>21, LogManifestType DEF FlushLog, TypeOK
<1>27. CASE FlushEdit
  <2>1. bgEdit' \in Edit
    BY <1>27, EditType DEF FlushEdit, TypeOK
  <2> QED
    BY <1>27, <2>1 DEF FlushEdit, TypeOK
<1>22. CASE FlushInstall
  BY <1>22, EmptyTypes DEF FlushInstall, TypeOK, ObsoleteLogs, Edit
<1>23. CASE TrimDone
  BY <1>23 DEF TrimDone, TypeOK
<1>24. CASE DeleteLog
  BY <1>24 DEF DeleteLog, TypeOK
<1>25. CASE UNCHANGED vars
  BY <1>25 DEF vars, TypeOK
<1> QED
  BY <1>1, <1>2, <1>3, <1>4, <1>5, <1>6, <1>7, <1>8, <1>9, <1>10, <1>11,
     <1>12, <1>13, <1>14, <1>15, <1>16, <1>17, <1>18, <1>19, <1>20, <1>21,
     <1>22, <1>23, <1>24, <1>25, <1>26, <1>27
  DEF Next, Recovery, Catalog, Writer, Background

\* Every variable keeps its type, in every stage of opening, running and
\* crashing.
THEOREM TypeCorrect == Spec => []TypeOK
<1> USE FamiliesAssumption
<1> USE DEF DiskType, DatabaseType, FamilyType, ActorType, OpenType, GhostType
<1>1. Init => TypeOK
  <2> SUFFICES ASSUME Init PROVE TypeOK
    OBVIOUS
  <2>1. DiskType /\ DatabaseType
    BY EmptyTypes DEF Init
  <2>2. FamilyType /\ ActorType
    BY EmptyTypes DEF Init
  <2>3. OpenType /\ GhostType
    BY EmptyTypes DEF Init
  <2> QED
    BY <2>1, <2>2, <2>3 DEF TypeOK
<1> QED
  BY <1>1, TypeStep, PTL DEF Spec

-----------------------------------------------------------------------------
\* Durability.

\* A crash leaves the disk, and the invariant then speaks of the disk only.
LEMMA CrashKeeps ==
  ASSUME Kept, TypeOK', Crash
  PROVE  Kept'
<1> USE FamiliesAssumption DEF Kept, diskVars, dbVars, famVars,
          writerVars, bgVars, openVars, ghostVars
<1>1. Ids' /\ OnDiskSplit' /\ Stages' /\ Opening' /\ ReplayOrder' /\
        ReplaySplit' /\ RunningOrder' /\ RunningSplit' /\ Flushing' /\ Trimming'
        /\ Writing'
  BY DEF Crash, Ids, OnDisk, OnDiskSplit, InTables, Stages, Never, Opening,
         ReplayOrder, ReplaySplit, RunningOrder, RunningSplit, Flushing, Trimming,
         Writing
<1> QED
  BY <1>1

\* Reading FAMILIES and the descriptors brings back the families on disk with
\* their log numbers.
LEMMA RecoverOpenKeeps ==
  ASSUME Kept, TypeOK', RecoverOpen
  PROVE  Kept'
<1> USE FamiliesAssumption DEF Kept, diskVars, dbVars, famVars,
          writerVars, bgVars, openVars, ghostVars
<1>1. OnDiskSplit' /\ Stages' /\ ReplayOrder' /\ ReplaySplit' /\ RunningOrder'
        /\ RunningSplit' /\ Trimming'
  BY DEF RecoverOpen, OnDiskSplit, OnDisk, InTables, Stages, ReplayOrder,
         ReplaySplit, RunningOrder, RunningSplit, Trimming
<1>2. Ids'
  BY DEF RecoverOpen, Ids, Stages, OnDisk, NoRecords, TypeOK, DiskType, Record,
         Manifest
<1>3. Opening'
  BY DEF RecoverOpen, Opening, OnDiskSplit, Stages, TypeOK, DiskType, Record,
         Manifest
<1>4. Flushing'
  BY DEF RecoverOpen, Flushing, Stages
<1>5. Writing'
  BY DEF RecoverOpen, Writing, Stages
<1> QED
  BY <1>1, <1>2, <1>3, <1>4, <1>5

\* The logs that are not replayed are older than every family's log number.
LEMMA RecoverListKeeps ==
  ASSUME Kept, TypeOK', RecoverList
  PROVE  Kept'
<1> USE FamiliesAssumption DEF Kept, diskVars, dbVars, famVars,
          writerVars, bgVars, openVars, ghostVars
<1>1. Ids' /\ OnDiskSplit' /\ Stages' /\ Opening' /\ RunningOrder' /\
        RunningSplit' /\ Flushing' /\ Trimming' /\ Writing'
  BY DEF RecoverList, Ids, OnDisk, OnDiskSplit, InTables, Stages, Opening,
         NoRecords, RunningOrder, RunningSplit, Flushing, Trimming, Writing
<1>2. ReplayOrder'
  BY DEF RecoverList, ReplayOrder, Ids, Stages, Opening, OnDisk, TypeOK,
         DiskType, Record, Manifest, DatabaseType
<1>3. ReplaySplit'
  BY DEF RecoverList, ReplaySplit, Ids, OnDiskSplit, Opening, TypeOK,
         FamilyType, GhostType, Record
<1> QED
  BY <1>1, <1>2, <1>3

\* The oldest remaining log: its records go to a table of the recovery edit
\* or, if the log is reused, to the default family's memtable.
LEMMA ReplayLogKeeps ==
  ASSUME Kept, TypeOK', ReplayLog
  PROVE  Kept'
<1> USE FamiliesAssumption DEF Kept, diskVars, dbVars, famVars,
          writerVars, bgVars, openVars, ghostVars
<1>a. PICK n \in toReplay, midway \in BOOLEAN :
        /\ \A m \in toReplay : n <= m
        /\ IF CanReuse(n, midway) THEN ReuseLog(n) ELSE FlushReplayed(n)
        /\ toReplay' = toReplay \ {n}
  BY DEF ReplayLog
<1>b. /\ n \in logs /\ n \in Nat \ {0} /\ logfile = 0 /\ 0 \notin hasMem
      /\ toReplay \subseteq Nat /\ logs \subseteq Nat
  BY DEF ReplayLog, ReplayOrder, Opening, OnDiskSplit, TypeOK, DiskType, OpenType
<1>c. /\ n < nextFile' /\ nextFile <= nextFile' /\ nextFile' \in Nat /\ nextFile \in Nat
  BY <1>a, <1>b DEF ReuseLog, FlushReplayed, MarkFileNumberUsed, TypeOK, DatabaseType
<1>d. /\ live \subseteq Families
      /\ \A f \in Families : man[f].log \in Nat /\ logNum[f] \in Nat
      /\ \A r \in hist : r.log \in Nat
  BY DEF TypeOK, DiskType, DatabaseType, FamilyType, Manifest, GhostType, Record
<1>e. \A r \in hist : \A f \in r.fams \cap live :
        man[f].log <= r.log /\ r.log = n =>
            f \in Replaying(n) /\ r.seq \in BatchesOf(RecordsIn(n), f)
  <2> SUFFICES ASSUME NEW r \in hist, NEW f \in r.fams \cap live,
                      man[f].log <= r.log, r.log = n
               PROVE  f \in Replaying(n) /\ r.seq \in BatchesOf(RecordsIn(n), f)
    OBVIOUS
  <2>1. r \in wal
    <3>1. f \in OnDisk /\ f \in Families
      BY <1>d DEF Ids, ReplayLog
    <3>2. ~(r.log < man[f].log)
      BY <1>d, <3>1
    <3> QED
      BY <3>1, <3>2 DEF OnDiskSplit
  <2>2. f \in Replaying(n)
    BY DEF Replaying, Opening, ReplayLog
  <2> QED
    BY <2>1, <2>2 DEF BatchesOf, RecordsIn
<1>f. /\ man[0].log < nextFile /\ \A f \in live : logNum[f] = man[f].log
      /\ \A f \in hasMem \ {0} :
         /\ memLog[f] = 0 /\ NoRecords(f) /\ f \in live \cup creating
         /\ f \in live => man[f].log = 0
      /\ creating = {}
  BY DEF Opening, ReplayLog, Stages
<1>g. ASSUME CanReuse(n, midway)
      PROVE  Opening' /\ ReplayOrder' /\ ReplaySplit'
  <2>0. /\ ReuseLog(n) /\ live = {0} /\ toReplay = {n}
    BY <1>a, <1>g DEF CanReuse
  <2>5. /\ memLog'[0] = n /\ logfile' = n /\ toReplay' = {} /\ hasMem' = {0}
    BY <1>a, <2>0 DEF ReuseLog, TypeOK, FamilyType
  <2>1. Opening'
    BY <1>b, <1>c, <1>d, <1>f, <2>0, <2>5 DEF Opening, ReplayLog
  <2>2. ReplayOrder'
    <3>1. man[0].log <= n
      BY <1>b, <2>0 DEF ReplayLog, ReplayOrder, Opening
    <3>2. \A m \in logs : m < nextFile' /\ m <= n
      BY <1>b, <1>c, <2>0 DEF ReplayLog, ReplayOrder
    <3> QED
      BY <1>b, <2>0, <2>5, <3>1, <3>2 DEF ReplayLog, ReplayOrder
  <2>3. ReplaySplit'
    <3> SUFFICES ASSUME NEW r \in hist, NEW f \in r.fams \cap live,
                        man[f].log <= r.log
                 PROVE  \/ r.log # n /\ r.seq \in recTables[f]
                        \/ r.log = n /\ r.seq \in mem'[f]
      BY <2>0, <2>5 DEF ReplaySplit, ReplayLog, ReuseLog
    <3>0. f = 0 /\ r.log # 0
      BY <2>0, <1>d DEF OnDiskSplit, OnDisk
    <3>1. r.log # n => r.seq \in recTables[f]
      BY <1>b, <2>0, <3>0 DEF ReplaySplit, ReplayLog
    <3>2. 0 \in Replaying(n) => mem'[0] = BatchesOf(RecordsIn(n), 0)
      BY <2>0 DEF ReuseLog, TypeOK, FamilyType
    <3> QED
      BY <1>e, <3>0, <3>1, <3>2
  <2> QED
    BY <2>1, <2>2, <2>3
<1>h. ASSUME ~CanReuse(n, midway)
      PROVE  Opening' /\ ReplayOrder' /\ ReplaySplit'
  <2>0. FlushReplayed(n)
    BY <1>a, <1>h
  <2>5. logfile' = 0 /\ hasMem' = hasMem /\ memLog' = memLog
    BY <1>b, <2>0 DEF FlushReplayed
  <2>1. Opening'
    <3>1. phase' = "replay" /\ man' = man /\ live' = live /\ hist' = hist
             /\ creating' = creating /\ logNum' = logNum
      BY DEF ReplayLog
    <3>2. man[0].log < nextFile'
      BY <1>c, <1>d, <1>f
    <3> QED
      BY <1>b, <1>f, <2>5, <3>1, <3>2 DEF Opening, NoRecords
  <2>2. ReplayOrder'
    <3>1. \A k \in logs \ toReplay' : k < nextFile'
      BY <1>a, <1>b, <1>c DEF ReplayLog, ReplayOrder
    <3>2. \A k \in logs \ toReplay', m \in toReplay' : k < m
      BY <1>a, <1>b DEF ReplayLog, ReplayOrder
    <3> QED
      BY <1>a, <2>5, <3>1, <3>2 DEF ReplayLog, ReplayOrder
  <2>3. ReplaySplit'
    <3> SUFFICES ASSUME NEW r \in hist, NEW f \in r.fams \cap live,
                        man[f].log <= r.log, r.log \notin toReplay'
                 PROVE  r.log # 0 /\ r.seq \in recTables'[f]
      BY <2>0, <2>5 DEF ReplaySplit, ReplayLog
    <3>3. f \in Families /\ f \in OnDisk
      BY <1>d DEF Ids, ReplayLog
    <3>0. r \in wal /\ r.log # 0
      <4>1. man[f].log \in Nat /\ r.log \in Nat /\ ~(r.log < man[f].log)
        BY <1>d, <3>3
      <4> QED
        BY <3>3, <4>1 DEF OnDiskSplit
    <3>1. CASE r.log = n
      BY <1>e, <2>0, <3>0, <3>1, <3>3 DEF FlushReplayed
    <3>2. CASE r.log # n
      <4>1. r.seq \in recTables[f]
        BY <1>a, <1>b, <3>0, <3>2 DEF ReplaySplit, ReplayLog
      <4> QED
        BY <2>0, <3>0, <3>3, <4>1 DEF FlushReplayed
    <3> QED
      BY <3>1, <3>2
  <2> QED
    BY <2>1, <2>2, <2>3
<1>1. Ids' /\ OnDiskSplit' /\ Stages' /\ RunningOrder' /\ RunningSplit' /\
        Writing'
  BY DEF ReplayLog, Ids, OnDisk, NoRecords, OnDiskSplit, InTables, Stages,
         RunningOrder, RunningSplit, Writing
<1>2. Opening'
  BY <1>g, <1>h
<1>3. ReplayOrder'
  BY <1>g, <1>h
<1>4. ReplaySplit'
  BY <1>g, <1>h
<1>5. Flushing'
  BY DEF ReplayLog, Flushing, Stages
<1>6. Trimming'
  BY DEF ReplayLog, Trimming, ReplayOrder, TypeOK, DiskType, Record, Manifest,
         ActorType, Edit
<1> QED
  BY <1>1, <1>2, <1>3, <1>4, <1>5, <1>6

\* The new log is newer than all that were replayed, so that what the tables
\* lack is in the recovery edits.
LEMMA RecoverNewLogKeeps ==
  ASSUME Kept, TypeOK', RecoverNewLog
  PROVE  Kept'
<1> USE FamiliesAssumption DEF Kept, diskVars, dbVars, famVars,
          writerVars, bgVars, openVars, ghostVars
<1>a. /\ phase = "replay" /\ toReplay = {} /\ creating = {} /\ live = OnDisk
  BY DEF RecoverNewLog, Stages, Ids
<1>b. /\ \A n \in logs : n < nextFile /\ n \in Nat
      /\ man[0].log < nextFile /\ nextFile \in Nat
      /\ \A f \in live : man[f].log \in Nat /\ memLog[f] \in Nat
      /\ \A r \in hist : r.log \in Nat
      /\ 0 \in live
  BY <1>a DEF RecoverNewLog, Opening, ReplayOrder, OnDisk, TypeOK, DiskType,
         Manifest, DatabaseType, FamilyType, GhostType, Record
<1>c. \A f \in live : man[f].log < nextFile
  BY <1>a, <1>b DEF OnDiskSplit
<1>d. \A r \in hist : \A f \in r.fams \cap live : man[f].log <= r.log => r.log < nextFile
  BY <1>a, <1>b, <1>c DEF OnDiskSplit
<1>1. Ids' /\ Stages' /\ Opening' /\ ReplayOrder' /\ ReplaySplit' /\ Writing'
  BY DEF RecoverNewLog, Ids, OnDisk, NoRecords, Stages, Opening, ReplayOrder,
         ReplaySplit, Writing
<1>2. OnDiskSplit'
  BY DEF RecoverNewLog, OnDiskSplit, Opening, ReplayOrder, OnDisk, InTables,
         SwitchLog, TypeOK, DiskType, Record, Manifest
<1>3. RunningOrder'
  <2>1. logfile' \in logs' /\ \A n \in logs' : n < nextFile' /\ n <= logfile'
    BY <1>a, <1>b DEF RecoverNewLog, SwitchLog, ReplayOrder
  <2>2. ASSUME NEW f \in live
        PROVE  /\ memLog'[f] <= logfile'
               /\ memLog'[f] \in logs' \/ memLog'[f] <= man[0].log
               /\ man[f].log <= memLog'[f]
    <3>1. f \in Families /\ live \subseteq Families
      BY DEF TypeOK, DatabaseType
    <3>2. CASE f \notin hasMem
      <4>1. logfile = 0
        BY <1>a, <1>b, <3>2 DEF Opening, ReplayOrder
      <4>2. memLog'[f] = nextFile /\ logfile' = nextFile
        BY <3>1, <3>2, <4>1 DEF RecoverNewLog, SwitchLog
      <4> QED
        BY <1>b, <1>c, <2>1, <4>2
    <3>3. CASE f \in hasMem
      <4>1. memLog'[f] = memLog[f]
        BY <3>1, <3>3 DEF RecoverNewLog
      <4>2. CASE f = 0
        <5>1. logfile # 0
          BY <1>a, <3>3, <4>2 DEF Opening
        <5> QED
          BY <1>a, <1>b, <2>1, <4>1, <4>2, <5>1 DEF ReplayOrder, RecoverNewLog
      <4>3. CASE f # 0
        <5>1. memLog[f] = 0 /\ man[f].log = 0
          BY <1>a, <3>3, <4>3 DEF Opening
        <5>2. 0 <= logfile' /\ 0 <= man[0].log
          BY <1>b DEF TypeOK, DatabaseType
        <5> QED
          BY <4>1, <5>1, <5>2
      <4> QED
        BY <4>2, <4>3
    <3> QED
      BY <3>2, <3>3
  <2> QED
    BY <1>a, <1>b, <2>1, <2>2 DEF RunningOrder, RecoverNewLog, Opening
<1>4. RunningSplit'
  <2> SUFFICES ASSUME NEW r \in hist, NEW f \in r.fams \cap live
               PROVE  /\ memLog'[f] <= r.log => r.seq \in mem[f]
                      /\ man[f].log <= r.log /\ r.log < memLog'[f] =>
                           r.seq \in recTables[f]
    BY DEF RunningSplit, RecoverNewLog, Stages
  <2>1. man[f].log <= r.log =>
          \/ r.log # logfile /\ r.seq \in recTables[f]
          \/ r.log = logfile /\ r.seq \in mem[f]
    BY <1>a DEF ReplaySplit
  <2>0. f \in Families /\ \A g \in live : memLog[g] \in Nat
    BY DEF TypeOK, DatabaseType, FamilyType
  <2>2. f \in hasMem => f = 0
    BY <1>a DEF Opening, NoRecords
  <2>3. CASE f \in hasMem
    <3>1. f = 0 /\ logfile # 0 /\ memLog'[0] = memLog[0]
      BY <1>a, <2>2, <2>3 DEF Opening, RecoverNewLog, TypeOK, FamilyType
    <3>2. memLog[0] = logfile /\ man[0].log <= memLog[0] /\ \A n \in logs : n <= memLog[0]
      BY <1>a, <3>1 DEF ReplayOrder
    <3>3. man[0].log <= r.log => r.log \in logs
      BY <1>b, <3>1 DEF OnDiskSplit, OnDisk
    <3> QED
      BY <1>b, <2>0, <2>1, <3>1, <3>2, <3>3
  <2>4. CASE f \notin hasMem
    <3>1. memLog'[f] = logfile'
      BY <2>0, <2>4 DEF RecoverNewLog
    <3>2. logfile = 0 /\ logfile' = nextFile
      BY <2>4, <1>a, <1>b DEF RecoverNewLog, SwitchLog, Opening, ReplayOrder
    <3>3. man[f].log <= r.log => r.log # 0
      BY <1>a, <1>b DEF OnDiskSplit
    <3> QED
      BY <1>b, <1>d, <1>c, <2>1, <2>4, <3>1, <3>2, <3>3
  <2> QED
    BY <2>3, <2>4
<1>5. Flushing'
  BY DEF RecoverNewLog, Flushing, Stages
<1>6. Trimming'
  BY DEF RecoverNewLog, Trimming, Stages
<1> QED
  BY <1>1, <1>2, <1>3, <1>4, <1>5, <1>6

\* A recovery edit is logged with the family's new log number: the tables it
\* adds hold all that lies below.
LEMMA RecoverApplyKeeps ==
  ASSUME Kept, TypeOK', RecoverApply
  PROVE  Kept'
<1> USE FamiliesAssumption DEF Kept, diskVars, dbVars, famVars,
          writerVars, bgVars, openVars, ghostVars
<1>1. Ids' /\ Stages' /\ Opening' /\ ReplayOrder' /\ ReplaySplit' /\ Writing'
  BY DEF RecoverApply, Ids, OnDisk, NoRecords, Stages, Opening, ReplayOrder,
         ReplaySplit, Writing
<1>2. OnDiskSplit'
  BY DEF RecoverApply, OnDiskSplit, Stages, RunningOrder, RunningSplit, OnDisk,
         InTables, ManifestEdit, LogManifest, FlushPoint, TypeOK, DiskType, Record,
         Manifest, DatabaseType, FamilyType, GhostType
<1>3. RunningOrder'
  BY DEF RecoverApply, RunningOrder, ManifestEdit, LogManifest, FlushPoint,
         TypeOK, DiskType, Record, Manifest, DatabaseType, FamilyType
<1>4. RunningSplit'
  <2>1. PICK g \in live \ applied : 
       /\ applied' = applied \cup {g}
       /\ IF saveManifest \/ recTables[g] # {} \/ logNum[g] = 0
          THEN /\ LogManifest(g, ManifestEdit(g, recTables[g]))
               /\ logNum' = [logNum EXCEPT ![g] = FlushPoint(g)]
          ELSE UNCHANGED <<man, diskNext, logNum>>
    BY DEF RecoverApply
  <2>0. live \subseteq Families /\ g \in Families
    BY DEF TypeOK, DatabaseType
  <2>a. /\ \A r \in hist : r.log \in Nat
        /\ \A f \in live : man[f].log \in Nat /\ memLog[f] \in Nat
    BY <2>0 DEF TypeOK, DiskType, Manifest, FamilyType, GhostType, Record
  <2> SUFFICES ASSUME NEW r \in hist, NEW f \in r.fams \cap live,
                      man'[f].log <= r.log, r.log < memLog[f]
               PROVE  f \notin applied' /\ r.seq \in recTables[f]
    BY DEF RunningSplit, RecoverApply, Stages, Pending
  <2>2. f # g => man'[f] = man[f]
    BY <2>1, <2>0 DEF LogManifest, TypeOK, DiskType
  <2>5. man[f].log <= r.log => f \notin applied /\ r.seq \in recTables[f]
    BY <2>0 DEF RunningSplit, RecoverApply, Stages
  <2>3. CASE f = g
    <3>1. CASE saveManifest \/ recTables[g] # {} \/ logNum[g] = 0
      <4>1. man'[g].log = memLog[g]
        BY <2>0, <2>1, <3>1 DEF LogManifest, ManifestEdit, FlushPoint, TypeOK, DiskType
      <4> QED
        BY <2>a, <2>3, <4>1
    <3>2. CASE ~(saveManifest \/ recTables[g] # {} \/ logNum[g] = 0)
      BY <2>1, <2>3, <2>5, <3>2
    <3> QED
      BY <3>1, <3>2
  <2> QED
    BY <2>1, <2>2, <2>3, <2>5
<1>5. Flushing'
  BY DEF RecoverApply, Flushing, Stages
<1>6. Trimming'
  BY DEF RecoverApply, Trimming, RunningOrder, OnDisk, ManifestEdit,
         LogManifest, FlushPoint, TypeOK, DiskType, Record, Manifest, FamilyType,
         ActorType, Edit
<1> QED
  BY <1>1, <1>2, <1>3, <1>4, <1>5, <1>6

\* Only logs older than every family's log number are chosen for deletion.
LEMMA RecoverTrimKeeps ==
  ASSUME Kept, TypeOK', RecoverTrim
  PROVE  Kept'
<1> USE FamiliesAssumption DEF Kept, diskVars, dbVars, famVars,
          writerVars, bgVars, openVars, ghostVars
<1>1. Ids' /\ OnDiskSplit' /\ Stages' /\ Opening' /\ ReplayOrder' /\
        ReplaySplit' /\ RunningOrder' /\ RunningSplit' /\ Flushing' /\ Writing'
  BY DEF RecoverTrim, Ids, OnDisk, NoRecords, OnDiskSplit, InTables, Stages,
         Opening, ReplayOrder, ReplaySplit, RunningOrder, RunningSplit, Pending,
         Flushing, Writing
<1>2. Trimming'
  BY DEF RecoverTrim, Trimming, Ids, RunningOrder, OnDisk, ObsoleteLogs,
         NeededLogs, NeededBy, TypeOK, DiskType, Record, Manifest, DatabaseType,
         FamilyType
<1> QED
  BY <1>1, <1>2

\* The open database has finished deleting.
LEMMA RecoverDoneKeeps ==
  ASSUME Kept, TypeOK', RecoverDone
  PROVE  Kept'
<1> USE FamiliesAssumption DEF Kept, diskVars, dbVars, famVars,
          writerVars, bgVars, openVars, ghostVars
<1>1. Ids' /\ OnDiskSplit' /\ Stages' /\ Opening' /\ ReplayOrder' /\
        ReplaySplit' /\ RunningOrder' /\ RunningSplit' /\ Flushing' /\ Trimming'
        /\ Writing'
  BY DEF RecoverDone, Ids, OnDisk, NoRecords, OnDiskSplit, InTables, Stages,
         Opening, ReplayOrder, ReplaySplit, RunningOrder, RunningSplit, Pending,
         Flushing, Trimming, Writing
<1> QED
  BY <1>1

\* A new id is in no record.
LEMMA CreateBeginKeeps ==
  ASSUME Kept, TypeOK', CreateBegin
  PROVE  Kept'
<1> USE FamiliesAssumption DEF Kept, diskVars, dbVars, famVars,
          writerVars, bgVars, openVars, ghostVars
<1>1. Stages' /\ ReplayOrder' /\ ReplaySplit' /\ Writing'
  BY DEF CreateBegin, Stages, ReplayOrder, ReplaySplit, Writing
<1>2. Ids'
  BY DEF CreateBegin, Ids, OnDisk, NoRecords, TypeOK, DiskType, Record,
         Manifest, DatabaseType
<1>3. OnDiskSplit'
  BY DEF CreateBegin, OnDiskSplit, Ids, OnDisk, InTables, NoRecords, Never,
         TypeOK, DiskType, Record, Manifest, FamilyType
<1>4. Opening'
  BY DEF CreateBegin, Opening, Ids, Stages, NoRecords, TypeOK, DiskType,
         Record, Manifest, FamilyType
<1>5. RunningOrder'
  BY DEF CreateBegin, RunningOrder, NewDB, TypeOK, DiskType, Record, Manifest,
         DatabaseType, FamilyType
<1>6. RunningSplit'
  BY DEF CreateBegin, RunningSplit, Ids, Trimming, Pending, TypeOK, DiskType,
         Record, Manifest, DatabaseType
<1>7. Flushing'
  BY DEF CreateBegin, Flushing, Ids, TypeOK, DiskType, Record, Manifest
<1>8. Trimming'
  BY DEF CreateBegin, Trimming, Ids, OnDisk, TypeOK, DiskType, Record, Manifest
<1> QED
  BY <1>1, <1>2, <1>3, <1>4, <1>5, <1>6, <1>7, <1>8

\* The new family is listed with the counter; it has no records, so any log
\* number splits them.
LEMMA CreateInstallKeeps ==
  ASSUME Kept, TypeOK', NEW f \in Families, CreateInstall(f)
  PROVE  Kept'
<1> USE FamiliesAssumption DEF Kept, diskVars, dbVars, famVars,
          writerVars, bgVars, openVars, ghostVars
<1>a. /\ f # 0 /\ phase \in {"create", "open"} /\ live = OnDisk
      /\ f \notin OnDisk \cup wfams /\ NoRecords(f) /\ f < nextId /\ f \in dirs
      /\ diskNextId <= nextId /\ nextId \in Nat /\ diskNextId \in Nat
  BY DEF CreateInstall, Ids, Stages, TypeOK, DatabaseType, DiskType
<1>b. /\ OnDisk' = OnDisk \cup {f} /\ live' = OnDisk'
      /\ diskNextId' = nextId /\ nextId' = nextId
  BY <1>a DEF CreateInstall, WriteFamilies, OnDisk
<1>c. /\ \A g \in OnDisk : man'[g] = man[g]
      /\ man'[f].log = memLog[f]
      /\ man'[0] = man[0]
  BY <1>a DEF CreateInstall, TypeOK, DiskType, OnDisk
<1>d. \A r \in hist : \A g \in r.fams \cap OnDisk' :
        g \in OnDisk /\ man'[g] = man[g]
  BY <1>a, <1>b, <1>c DEF NoRecords
<1>e. /\ OnDisk \cup wfams \cup gone \subseteq Nat /\ \A r \in hist : r.fams \subseteq Nat
  BY DEF TypeOK, DiskType, ActorType, GhostType, Record, OnDisk
<1>1. Stages' /\ Flushing'
  BY DEF CreateInstall, Stages, Flushing
<1>2. Ids'
  <2>1. \A g \in OnDisk' \cup wfams' \cup gone' : g < diskNextId'
    BY <1>a, <1>b, <1>e DEF Ids, CreateInstall
  <2>2. \A r \in hist' : \A g \in r.fams : g < diskNextId'
    BY <1>a, <1>b, <1>e DEF Ids, CreateInstall
  <2>3. \A g \in creating' : g < nextId' /\ g \notin OnDisk' \cup wfams' /\ NoRecords(g)'
    BY <1>a, <1>b DEF Ids, CreateInstall, NoRecords
  <2>4. gone' \cap (OnDisk' \cup creating') = {} /\ dropping' \subseteq gone'
    BY <1>a, <1>b DEF Ids, CreateInstall
  <2> QED
    BY <1>a, <1>b, <2>1, <2>2, <2>3, <2>4 DEF Ids, CreateInstall
<1>3. OnDiskSplit'
  <2>1. memLog[f] \in logs \/ memLog[f] <= man[0].log
    BY <1>a DEF CreateInstall, RunningOrder, Opening, Stages, TypeOK, DiskType, Manifest
  <2>2. \A g \in OnDisk' : man'[g].log \in logs' \/ man'[g].log <= man'[0].log
    BY <1>b, <1>c, <2>1 DEF OnDiskSplit, CreateInstall
  <2> QED
    BY <1>c, <1>d, <2>2 DEF OnDiskSplit, CreateInstall, InTables
<1>4. Opening'
  <2>1. phase = "create" => memLog[f] = 0 /\ f \in hasMem
    BY <1>a DEF Opening, CreateInstall
  <2>2. \A g \in live : man'[g] = man[g] /\ logNum'[g] = logNum[g]
    BY <1>a, <1>c DEF CreateInstall, TypeOK, DatabaseType, FamilyType
  <2>3. logNum'[f] = memLog[f]
    BY DEF CreateInstall, TypeOK, FamilyType
  <2> QED
    BY <1>a, <1>b, <1>c, <2>1, <2>2, <2>3 DEF Opening, NoRecords, CreateInstall
<1>5. ReplayOrder'
  BY <1>a DEF ReplayOrder, CreateInstall
<1>6. ReplaySplit'
  BY <1>a DEF ReplaySplit, CreateInstall
<1>7. RunningOrder'
  <2>1. live' \subseteq Families /\ logfile \in Nat /\ man'[f].log = memLog[f]
    BY <1>b, <1>c DEF CreateInstall, TypeOK, DatabaseType
  <2>2. \A g \in live : man'[g] = man[g] /\ logNum'[g] = logNum[g]
    BY <1>a, <1>c DEF CreateInstall, TypeOK, DatabaseType, FamilyType
  <2>3. logNum'[f] = memLog[f] /\ memLog[f] \in Nat
    BY DEF CreateInstall, TypeOK, FamilyType
  <2> QED
    BY <1>a, <1>b, <1>c, <2>1, <2>2, <2>3 DEF RunningOrder, CreateInstall
<1>8. RunningSplit'
  BY <1>a, <1>b, <1>d DEF RunningSplit, Pending, CreateInstall
<1>9. Trimming'
  BY <1>c, <1>d DEF Trimming, OnDiskSplit, CreateInstall
<1>10. Writing'
  BY <1>a, <1>b DEF Writing, CreateInstall
<1> QED
  BY <1>1, <1>2, <1>3, <1>4, <1>5, <1>6, <1>7, <1>8, <1>9, <1>10

\* The dropped family is no longer on disk; nothing changes for the others.
LEMMA DropFamilyKeeps ==
  ASSUME Kept, TypeOK', NEW f \in Families, DropFamily(f)
  PROVE  Kept'
<1> USE FamiliesAssumption DEF Kept, diskVars, dbVars, famVars,
          writerVars, bgVars, openVars, ghostVars
<1>a. /\ phase = "open" /\ live = OnDisk /\ f \in OnDisk /\ f # 0 /\ f \notin creating
      /\ f < diskNextId /\ diskNextId <= nextId /\ nextId \in Nat /\ diskNextId \in Nat
  BY DEF DropFamily, Ids, TypeOK, DatabaseType, DiskType
<1>b. /\ OnDisk' = OnDisk \ {f} /\ live' = OnDisk'
      /\ diskNextId' = nextId /\ nextId' = nextId
  BY <1>a DEF DropFamily, WriteFamilies, OnDisk
<1>c. /\ OnDisk \cup wfams \cup gone \subseteq Nat /\ \A r \in hist : r.fams \subseteq Nat
  BY DEF TypeOK, DiskType, ActorType, GhostType, Record, OnDisk
<1>1. phase = "open" /\ phase' = "open"
  BY DEF Stages, DropFamily
<1>2. Opening' /\ ReplayOrder' /\ ReplaySplit'
  BY <1>1 DEF Opening, ReplayOrder, ReplaySplit
<1>3. Stages' /\ RunningOrder' /\ RunningSplit' /\ Writing'
  BY DEF DropFamily, Stages, RunningOrder, RunningSplit, Pending, Writing
<1>4. Flushing'
  BY DEF DropFamily, BackgroundBusy, Flushing
<1>5. Ids'
  <2>1. \A g \in OnDisk' \cup wfams' \cup gone' : g < diskNextId'
    BY <1>a, <1>b, <1>c DEF Ids, DropFamily
  <2>2. \A r \in hist' : \A g \in r.fams : g < diskNextId'
    BY <1>a, <1>b, <1>c DEF Ids, DropFamily
  <2>3. \A g \in creating' : g < nextId' /\ g \notin OnDisk' \cup wfams' /\ NoRecords(g)'
    BY <1>a, <1>b DEF Ids, DropFamily, NoRecords
  <2>4. gone' \cap (OnDisk' \cup creating') = {} /\ dropping' \subseteq gone'
    BY <1>a, <1>b DEF Ids, DropFamily
  <2>5. OnDisk' \cup creating' \subseteq dirs'
    BY <1>b DEF Ids, DropFamily
  <2>6. /\ phase' # "down" => diskNextId' <= nextId'
        /\ live' = IF phase' = "down" THEN {} ELSE OnDisk'
    BY <1>1, <1>a, <1>b
  <2> QED
    BY <2>1, <2>2, <2>3, <2>4, <2>5, <2>6 DEF Ids
<1>6. OnDiskSplit'
  BY DEF DropFamily, OnDiskSplit, Ids, OnDisk, InTables, WriteFamilies
<1>7. Trimming'
  BY DEF DropFamily, Trimming, Ids, OnDisk, WriteFamilies
<1> QED
  BY <1>2, <1>3, <1>4, <1>5, <1>6, <1>7

\* Only the directory of a dropped family goes.
LEMMA DropRemoveDirKeeps ==
  ASSUME Kept, TypeOK', NEW f \in Families, DropRemoveDir(f)
  PROVE  Kept'
<1> USE FamiliesAssumption DEF Kept, diskVars, dbVars, famVars,
          writerVars, bgVars, openVars, ghostVars
<1>1. Ids' /\ OnDiskSplit' /\ Stages' /\ Opening' /\ ReplayOrder' /\
        ReplaySplit' /\ RunningOrder' /\ RunningSplit' /\ Flushing' /\ Trimming'
        /\ Writing'
  BY DEF DropRemoveDir, Ids, OnDisk, NoRecords, OnDiskSplit, InTables, Stages,
         Opening, ReplayOrder, ReplaySplit, RunningOrder, RunningSplit, Pending,
         Flushing, Trimming, Writing
<1> QED
  BY <1>1

\* A write is for live families.
LEMMA WriteBeginKeeps ==
  ASSUME Kept, TypeOK', NEW fs \in SUBSET Families, WriteBegin(fs)
  PROVE  Kept'
<1> USE FamiliesAssumption DEF Kept, diskVars, dbVars, famVars,
          writerVars, bgVars, openVars, ghostVars
<1>1. phase = "open" /\ phase' = "open"
  BY DEF Stages, WriteBegin
<1>2. Opening' /\ ReplayOrder' /\ ReplaySplit'
  BY <1>1 DEF Opening, ReplayOrder, ReplaySplit
<1>3. OnDiskSplit' /\ Stages' /\ RunningOrder' /\ RunningSplit' /\ Flushing' /\
        Trimming' /\ Writing'
  BY DEF WriteBegin, OnDiskSplit, OnDisk, InTables, Stages, RunningOrder,
         RunningSplit, Pending, Flushing, Trimming, Writing
<1>4. Ids'
  BY DEF WriteBegin, Ids, OnDisk, NoRecords, TypeOK, DiskType, Record,
         Manifest, DatabaseType, GhostType
<1> QED
  BY <1>2, <1>3, <1>4

\* A null batch touches no family.
LEMMA ForceBeginKeeps ==
  ASSUME Kept, TypeOK', ForceBegin
  PROVE  Kept'
<1> USE FamiliesAssumption DEF Kept, diskVars, dbVars, famVars,
          writerVars, bgVars, openVars, ghostVars
<1>1. phase = "open" /\ phase' = "open"
  BY DEF Stages, ForceBegin
<1>2. Opening' /\ ReplayOrder' /\ ReplaySplit'
  BY <1>1 DEF Opening, ReplayOrder, ReplaySplit
<1>3. Ids' /\ OnDiskSplit' /\ Stages' /\ RunningOrder' /\ RunningSplit' /\
        Flushing' /\ Trimming' /\ Writing'
  BY DEF ForceBegin, Ids, OnDisk, NoRecords, OnDiskSplit, InTables, Stages,
         RunningOrder, RunningSplit, Pending, Flushing, Trimming, Writing
<1> QED
  BY <1>2, <1>3

\* A memtable is set aside on a number that no log or record has: what was in
\* mem is in imm.
LEMMA SwitchMemTableKeeps ==
  ASSUME Kept, TypeOK', NEW f \in Families, SwitchMemTable(f)
  PROVE  Kept'
<1> USE FamiliesAssumption DEF Kept, diskVars, dbVars, famVars,
          writerVars, bgVars, openVars, ghostVars
<1>1. phase = "open" /\ phase' = "open"
  BY DEF Stages, SwitchMemTable
<1>2. Opening' /\ ReplayOrder' /\ ReplaySplit'
  BY <1>1 DEF Opening, ReplayOrder, ReplaySplit
<1>3. Ids' /\ Stages' /\ Flushing' /\ Writing'
  BY DEF SwitchMemTable, Ids, OnDisk, NoRecords, Stages, Flushing, Writing
<1>4. OnDiskSplit'
  BY DEF SwitchMemTable, OnDiskSplit, Stages, RunningOrder, OnDisk, InTables,
         SwitchLog, TypeOK, DatabaseType
<1>5. RunningOrder'
  BY DEF SwitchMemTable, RunningOrder, SwitchLog, TypeOK, DiskType, Record,
         Manifest, DatabaseType, FamilyType
<1>6. RunningSplit'
  BY DEF SwitchMemTable, RunningSplit, Ids, OnDiskSplit, RunningOrder, Pending,
         SwitchLog, TypeOK, DiskType, Record, Manifest, DatabaseType, FamilyType,
         GhostType
<1>7. Trimming'
  BY DEF SwitchMemTable, Trimming, Stages, RunningOrder, OnDisk, SwitchLog,
         TypeOK, DatabaseType, ActorType, Edit
<1> QED
  BY <1>2, <1>3, <1>4, <1>5, <1>6, <1>7

\* Waiting changes nothing else.
LEMMA RoomWaitKeeps ==
  ASSUME Kept, TypeOK', RoomWait
  PROVE  Kept'
<1> USE FamiliesAssumption DEF Kept, diskVars, dbVars, famVars,
          writerVars, bgVars, openVars, ghostVars
<1>1. phase = "open" /\ phase' = "open"
  BY DEF Stages, RoomWait
<1>2. Opening' /\ ReplayOrder' /\ ReplaySplit'
  BY <1>1 DEF Opening, ReplayOrder, ReplaySplit
<1>3. Ids' /\ OnDiskSplit' /\ Stages' /\ RunningOrder' /\ RunningSplit' /\
        Flushing' /\ Trimming' /\ Writing'
  BY DEF RoomWait, Ids, OnDisk, NoRecords, OnDiskSplit, InTables, Stages,
         RunningOrder, RunningSplit, Pending, Flushing, Trimming, Writing
<1> QED
  BY <1>2, <1>3

\* The memtables of all live families are captured, so those of every family
\* the batch group touches are.
LEMMA RoomFoundKeeps ==
  ASSUME Kept, TypeOK', RoomFound
  PROVE  Kept'
<1> USE FamiliesAssumption DEF Kept, diskVars, dbVars, famVars,
          writerVars, bgVars, openVars, ghostVars
<1>1. phase = "open" /\ phase' = "open"
  BY DEF Stages, RoomFound
<1>2. Opening' /\ ReplayOrder' /\ ReplaySplit'
  BY <1>1 DEF Opening, ReplayOrder, ReplaySplit
<1>3. Ids' /\ OnDiskSplit' /\ Stages' /\ RunningOrder' /\ RunningSplit' /\
        Flushing' /\ Trimming' /\ Writing'
  BY DEF RoomFound, Ids, OnDisk, NoRecords, OnDiskSplit, InTables, Stages,
         RunningOrder, RunningSplit, Pending, Flushing, Trimming, Writing
<1> QED
  BY <1>2, <1>3

\* The record is on disk at the current log, which no family's log number is
\* past, and pending for the memtables.
LEMMA AddRecordKeeps ==
  ASSUME Kept, TypeOK', AddRecord
  PROVE  Kept'
<1> USE FamiliesAssumption DEF Kept, diskVars, dbVars, famVars,
          writerVars, bgVars, openVars, ghostVars
<1>1. phase = "open" /\ phase' = "open"
  BY DEF Stages, AddRecord
<1>2. Opening' /\ ReplayOrder' /\ ReplaySplit'
  BY <1>1 DEF Opening, ReplayOrder, ReplaySplit
<1>3. Ids' /\ Stages' /\ RunningOrder' /\ Flushing' /\ Writing'
  BY DEF AddRecord, Ids, OnDisk, NoRecords, Stages, RunningOrder, Flushing,
         Writing
<1>4. OnDiskSplit'
  BY DEF AddRecord, OnDiskSplit, Ids, Stages, RunningOrder, OnDisk, InTables,
         TypeOK, DiskType, Record, Manifest, DatabaseType, FamilyType
<1>5. RunningSplit'
  BY DEF AddRecord, RunningSplit, RunningOrder, Pending, TypeOK, DatabaseType,
         FamilyType, GhostType, Record
<1>6. Trimming'
  BY DEF AddRecord, Trimming, OnDisk, TypeOK, DatabaseType
<1> QED
  BY <1>2, <1>3, <1>4, <1>5, <1>6

\* The pending record reaches the memtable of every live family it touches.
LEMMA InsertIntoKeeps ==
  ASSUME Kept, TypeOK', InsertInto
  PROVE  Kept'
<1> USE FamiliesAssumption DEF Kept, diskVars, dbVars, famVars,
          writerVars, bgVars, openVars, ghostVars
<1>1. phase = "open" /\ phase' = "open"
  BY DEF Stages, InsertInto
<1>2. Opening' /\ ReplayOrder' /\ ReplaySplit'
  BY <1>1 DEF Opening, ReplayOrder, ReplaySplit
<1>3. Ids' /\ OnDiskSplit' /\ Stages' /\ RunningOrder' /\ Flushing' /\
        Trimming' /\ Writing'
  BY DEF InsertInto, Ids, OnDisk, NoRecords, OnDiskSplit, InTables, Stages,
         RunningOrder, Flushing, Trimming, Writing
<1>4. RunningSplit'
  BY DEF InsertInto, RunningSplit, Writing, Pending, TypeOK, GhostType, Record
<1> QED
  BY <1>2, <1>3, <1>4

\* A caller that returns changes nothing else.
LEMMA ForceReturnKeeps ==
  ASSUME Kept, TypeOK', ForceReturn
  PROVE  Kept'
<1> USE FamiliesAssumption DEF Kept, diskVars, dbVars, famVars,
          writerVars, bgVars, openVars, ghostVars
<1>1. phase = "open" /\ phase' = "open"
  BY DEF Stages, ForceReturn
<1>2. Opening' /\ ReplayOrder' /\ ReplaySplit'
  BY <1>1 DEF Opening, ReplayOrder, ReplaySplit
<1>3. Ids' /\ OnDiskSplit' /\ Stages' /\ RunningOrder' /\ RunningSplit' /\
        Flushing' /\ Trimming' /\ Writing'
  BY DEF ForceReturn, Ids, OnDisk, NoRecords, OnDiskSplit, InTables, Stages,
         RunningOrder, RunningSplit, Pending, Flushing, Trimming, Writing
<1> QED
  BY <1>2, <1>3

\* The flush of a family that is live and has a memtable set aside.
LEMMA FlushBuildKeeps ==
  ASSUME Kept, TypeOK', NEW f \in Families, FlushBuild(f)
  PROVE  Kept'
<1> USE FamiliesAssumption DEF Kept, diskVars, dbVars, famVars,
          writerVars, bgVars, openVars, ghostVars
<1>1. phase = "open" /\ phase' = "open"
  BY DEF Stages, FlushBuild
<1>2. Opening' /\ ReplayOrder' /\ ReplaySplit'
  BY <1>1 DEF Opening, ReplayOrder, ReplaySplit
<1>3. Ids' /\ OnDiskSplit' /\ Stages' /\ RunningSplit' /\ Trimming' /\ Writing'
  BY DEF FlushBuild, Ids, OnDisk, NoRecords, OnDiskSplit, InTables, Stages,
         RunningSplit, Pending, Trimming, Writing
<1>4. Flushing'
  BY DEF FlushBuild, FlushesNext, Flushing
<1>5. RunningOrder'
  BY DEF FlushBuild, RunningOrder, TypeOK, DiskType, Record, Manifest,
         DatabaseType
<1> QED
  BY <1>2, <1>3, <1>4, <1>5

\* The edit holds all that the family's tables lack below the log of its
\* current memtable.
LEMMA FlushEditKeeps ==
  ASSUME Kept, TypeOK', FlushEdit
  PROVE  Kept'
<1> USE FamiliesAssumption DEF Kept, diskVars, dbVars, famVars,
          writerVars, bgVars, openVars, ghostVars
<1>1. phase = "open" /\ phase' = "open"
  BY DEF Stages, FlushEdit
<1>2. Opening' /\ ReplayOrder' /\ ReplaySplit'
  BY <1>1 DEF Opening, ReplayOrder, ReplaySplit
<1>3. Ids' /\ OnDiskSplit' /\ Stages' /\ RunningOrder' /\ RunningSplit' /\
        Trimming' /\ Writing'
  BY DEF FlushEdit, Ids, OnDisk, NoRecords, OnDiskSplit, InTables, Stages,
         RunningOrder, RunningSplit, Pending, Trimming, Writing
<1>4. Flushing'
  BY DEF FlushEdit, Flushing, Stages, RunningOrder, ManifestEdit, FlushPoint,
         TypeOK, DatabaseType, FamilyType
<1> QED
  BY <1>2, <1>3, <1>4

\* The edit is on disk: the family's log number moves to its memtable's log.
LEMMA FlushLogKeeps ==
  ASSUME Kept, TypeOK', FlushLog
  PROVE  Kept'
<1> USE FamiliesAssumption DEF Kept, diskVars, dbVars, famVars,
          writerVars, bgVars, openVars, ghostVars
<1>1. phase = "open" /\ phase' = "open"
  BY DEF Stages, FlushLog
<1>2. Opening' /\ ReplayOrder' /\ ReplaySplit'
  BY <1>1 DEF Opening, ReplayOrder, ReplaySplit
<1>3. Ids' /\ Stages' /\ Writing'
  BY DEF FlushLog, Ids, OnDisk, NoRecords, Stages, Writing
<1>4. OnDiskSplit'
  BY DEF FlushLog, OnDiskSplit, Stages, RunningOrder, RunningSplit, Flushing,
         OnDisk, InTables, LogManifest, TypeOK, DiskType, Record, Manifest,
         ActorType, Edit, GhostType
<1>5. RunningOrder'
  BY DEF FlushLog, RunningOrder, Flushing, LogManifest, TypeOK, DiskType,
         Record, Manifest, DatabaseType, FamilyType
<1>6. RunningSplit'
  BY DEF FlushLog, RunningSplit, Flushing, Pending, LogManifest, TypeOK,
         ActorType, Edit, GhostType, Record
<1>7. Flushing'
  BY DEF FlushLog, Flushing, LogManifest, TypeOK, DiskType, Record, Manifest,
         ActorType, Edit
<1>8. Trimming'
  BY DEF FlushLog, Trimming, Stages, RunningOrder, Flushing, OnDisk,
         LogManifest, TypeOK, DiskType, Record, Manifest, ActorType, Edit
<1> QED
  BY <1>2, <1>3, <1>4, <1>5, <1>6, <1>7, <1>8

\* A log that RemoveObsoleteFiles may delete is older than the current one and
\* than the log number of every live family.
LEMMA ObsoleteBelow ==
  ASSUME TypeOK'
  PROVE  \A n \in ObsoleteLogs' : n < logfile' /\ \A f \in live' : n < logNum'[f]
<1>1. SUFFICES ASSUME NEW n \in ObsoleteLogs', NEW f \in live'
               PROVE  n < logfile' /\ n < logNum'[f]
  <2>1. \A n \in ObsoleteLogs' : n < logfile'
    BY DEF ObsoleteLogs, NeededLogs
  <2> QED
    BY <1>1, <2>1
<1>2. n \in Nat /\ logNum'[f] \in Nat /\ NeededBy(f)' \in Nat /\ NeededBy(f)' <= logNum'[f]
  BY DEF ObsoleteLogs, NeededBy, TypeOK, DiskType, DatabaseType, FamilyType
<1>3. n < logfile' /\ n < NeededBy(f)'
  BY DEF ObsoleteLogs, NeededLogs
<1> QED
  BY <1>2, <1>3

\* The memtable is released; only logs older than every family's log number
\* are chosen for deletion.
LEMMA FlushInstallKeeps ==
  ASSUME Kept, TypeOK', FlushInstall
  PROVE  Kept'
<1> USE FamiliesAssumption DEF Kept, diskVars, dbVars, famVars,
          writerVars, bgVars, openVars, ghostVars
<1>1. phase = "open" /\ phase' = "open"
  BY DEF Stages, FlushInstall
<1>2. Opening' /\ ReplayOrder' /\ ReplaySplit'
  BY <1>1 DEF Opening, ReplayOrder, ReplaySplit
<1>3. Ids' /\ OnDiskSplit' /\ Stages' /\ Flushing' /\ Writing'
  BY DEF FlushInstall, Ids, OnDisk, NoRecords, OnDiskSplit, InTables, Stages,
         Flushing, Writing
<1>4. RunningOrder'
  BY DEF FlushInstall, RunningOrder, Flushing
<1>5. RunningSplit'
  BY DEF FlushInstall, RunningSplit, Flushing, Pending, NoEdit, TypeOK,
         ActorType, Edit, GhostType, Record
<1>6. Trimming'
  <2>1. trim' = ObsoleteLogs' /\ UNCHANGED <<man, wal, live, listed, logfile>>
    BY DEF FlushInstall
  <2>2. \A n \in trim' : n < logfile' /\ \A f \in live' : n < logNum'[f]
    BY <2>1, ObsoleteBelow
  <2>3. /\ live = OnDisk /\ OnDisk' = OnDisk /\ 0 \in live
        /\ \A f \in live : man[f].log \in Nat
    BY <1>1, <2>1 DEF Ids, OnDisk, TypeOK, DiskType, Manifest
  <2>4. \A f \in live : logNum'[f] \in Nat /\ logNum'[f] <= man[f].log
    BY <1>1, <1>4, <2>1 DEF RunningOrder, TypeOK, FamilyType, DatabaseType
  <2>5. \A n \in trim' : n \in Nat
    BY DEF TypeOK, ActorType, DiskType
  <2>6. \A n \in trim' : \A f \in live : n < man[f].log
    BY <2>1, <2>2, <2>3, <2>4, <2>5
  <2> QED
    BY <2>1, <2>2, <2>3, <2>5, <2>6 DEF Trimming
<1> QED
  BY <1>2, <1>3, <1>4, <1>5, <1>6

\* The background thread is idle again.
LEMMA TrimDoneKeeps ==
  ASSUME Kept, TypeOK', TrimDone
  PROVE  Kept'
<1> USE FamiliesAssumption DEF Kept, diskVars, dbVars, famVars,
          writerVars, bgVars, openVars, ghostVars
<1>1. phase = "open" /\ phase' = "open"
  BY DEF Stages, TrimDone
<1>2. Opening' /\ ReplayOrder' /\ ReplaySplit'
  BY <1>1 DEF Opening, ReplayOrder, ReplaySplit
<1>3. Ids' /\ OnDiskSplit' /\ Stages' /\ RunningOrder' /\ RunningSplit' /\
        Flushing' /\ Trimming' /\ Writing'
  BY DEF TrimDone, Ids, OnDisk, NoRecords, OnDiskSplit, InTables, Stages,
         RunningOrder, RunningSplit, Pending, Flushing, Trimming, Writing
<1> QED
  BY <1>2, <1>3

\* A chosen log is older than every log number that matters to its records.
LEMMA DeleteLogKeeps ==
  ASSUME Kept, TypeOK', DeleteLog
  PROVE  Kept'
<1> USE FamiliesAssumption DEF Kept, diskVars, dbVars, famVars,
          writerVars, bgVars, openVars, ghostVars
<1>1. Ids' /\ Stages' /\ Opening' /\ ReplaySplit' /\ RunningSplit' /\ Flushing'
        /\ Trimming' /\ Writing'
  BY DEF DeleteLog, Ids, OnDisk, NoRecords, Stages, Opening, ReplaySplit,
         RunningSplit, Pending, Flushing, Trimming, Writing
<1>2. OnDiskSplit'
  BY DEF DeleteLog, OnDiskSplit, Trimming, OnDisk, InTables
<1>3. ReplayOrder'
  BY DEF DeleteLog, ReplayOrder, Trimming, TypeOK, ActorType, Edit, OpenType,
         GhostType, Record
<1>4. RunningOrder'
  BY DEF DeleteLog, RunningOrder, Trimming, TypeOK, DiskType, Record, Manifest,
         ActorType, Edit
<1> QED
  BY <1>1, <1>2, <1>3, <1>4

\* Every step preserves the invariant.
LEMMA KeptStep == Kept /\ [Next]_vars => Kept'
<1> SUFFICES ASSUME Kept, [Next]_vars PROVE Kept'
  OBVIOUS
<1>1. TypeOK'
  BY TypeStep DEF Kept
<1>2. CASE Recovery
  BY <1>1, <1>2, RecoverOpenKeeps, RecoverListKeeps, ReplayLogKeeps,
     RecoverNewLogKeeps, RecoverApplyKeeps, RecoverTrimKeeps, RecoverDoneKeeps
     DEF Recovery
<1>3. CASE Catalog
  BY <1>1, <1>3, CreateBeginKeeps, CreateInstallKeeps, DropFamilyKeeps,
     DropRemoveDirKeeps DEF Catalog, Drop
<1>4. CASE Writer
  BY <1>1, <1>4, WriteBeginKeeps, ForceBeginKeeps, SwitchMemTableKeeps,
     RoomWaitKeeps, RoomFoundKeeps, AddRecordKeeps, InsertIntoKeeps,
     ForceReturnKeeps DEF Writer
<1>5. CASE Background
  BY <1>1, <1>5, FlushBuildKeeps, FlushEditKeeps, FlushLogKeeps,
     FlushInstallKeeps, TrimDoneKeeps DEF Background
<1>6. CASE UNCHANGED vars
  <2> USE <1>6 DEF Kept, vars, diskVars, dbVars, famVars, writerVars,
                   bgVars, openVars, ghostVars
  <2>1. Ids' /\ OnDiskSplit' /\ Stages'
    BY DEF Ids, OnDiskSplit, Stages, OnDisk, InTables, NoRecords
  <2>2. Opening' /\ ReplayOrder' /\ ReplaySplit'
    BY DEF Opening, ReplayOrder, ReplaySplit, NoRecords
  <2>3. RunningOrder' /\ RunningSplit'
    BY DEF RunningOrder, RunningSplit, Pending
  <2>4. Flushing' /\ Trimming' /\ Writing'
    BY DEF Flushing, Trimming, Writing, OnDisk
  <2> QED
    BY <1>1, <2>1, <2>2, <2>3, <2>4
<1> QED
  BY <1>1, <1>2, <1>3, <1>4, <1>5, <1>6, CrashKeeps, DeleteLogKeeps DEF Next

\* The invariant holds before the database is first opened.
LEMMA KeptInit == Init => Kept
<1> SUFFICES ASSUME Init PROVE Kept
  OBVIOUS
<1> USE DEF Init
<1>1. TypeOK
  <2> USE FamiliesAssumption, EmptyTypes
  <2>1. DiskType /\ DatabaseType
    BY DEF DiskType, DatabaseType
  <2>2. FamilyType /\ ActorType
    BY DEF FamilyType, ActorType
  <2>3. OpenType /\ GhostType
    BY DEF OpenType, GhostType
  <2> QED
    BY <2>1, <2>2, <2>3 DEF TypeOK
<1>2. Ids
  BY DEF Ids, OnDisk
<1>3. OnDiskSplit
  BY FamiliesAssumption DEF OnDiskSplit, OnDisk, NewDB
<1>4. Stages /\ Opening /\ ReplayOrder /\ ReplaySplit
  BY DEF Stages, Opening, ReplayOrder, ReplaySplit, Never
<1>5. RunningOrder /\ RunningSplit /\ Flushing /\ Trimming /\ Writing
  BY DEF RunningOrder, RunningSplit, Flushing, Trimming, Writing
<1> QED
  BY <1>1, <1>2, <1>3, <1>4, <1>5 DEF Kept

\* The invariant holds in every state of every behaviour.
THEOREM KeptAlways == Spec => []Kept
BY KeptInit, KeptStep, PTL DEF Spec

\* A batch appended to the log is never lost to a family it touches: it is in
\* the family's tables or the next opening replays it (OldestLiveLog,
\* RemoveObsoleteFiles, CompactMemTable, RecoverLogFile).
THEOREM Durable == Spec => []NothingLost
<1>1. Kept => NothingLost
  <2> SUFFICES ASSUME Kept, NEW r \in hist, NEW f \in r.fams \cap OnDisk
               PROVE  InTables(f, r) \/ Replayable(f, r)
    BY DEF NothingLost
  <2>1. man[f].log \in Nat /\ r.log \in Nat
    BY FamiliesAssumption
       DEF Kept, TypeOK, DiskType, GhostType, Record, Manifest, OnDisk
  <2> QED
    BY <2>1 DEF Kept, OnDiskSplit, Replayable
<1> QED
  BY <1>1, KeptAlways, PTL

\* The logs chosen for deletion stay obsolete until the last is deleted,
\* though mutex_ is not held (RemoveObsoleteFiles).
THEOREM TrimSafe == Spec => []TrimStaysObsolete
<1>1. Kept => TrimStaysObsolete
  <2> SUFFICES ASSUME Kept, NEW n \in trim
               PROVE  /\ n # logfile
                      /\ \A r \in wal : r.log = n =>
                           \A f \in r.fams \cap OnDisk : InTables(f, r)
    BY DEF TrimStaysObsolete
  <2>1. n < logfile /\ n \in Nat /\ logfile \in Nat
    BY DEF Kept, Trimming, TypeOK, ActorType, DatabaseType
  <2> QED
    BY <2>1 DEF Kept, Trimming, OnDiskSplit
<1> QED
  BY <1>1, KeptAlways, PTL

\* A dropped family never comes back, and no family gets its id
\* (DropColumnFamily, CreateColumnFamilyLocked, ReadFamilies).
THEOREM DroppedStaysDropped == Spec => []DroppedForGood
<1>1. Kept => DroppedForGood
  BY DEF Kept, Ids, DroppedForGood, OnDisk
<1> QED
  BY <1>1, KeptAlways, PTL

\* Every family FAMILIES lists has its directory and its descriptor, whenever
\* the process is killed (CreateColumnFamilyLocked, DropColumnFamily).
THEOREM ListedHasDirectory == Spec => []ListedCanOpen
<1>1. Kept => ListedCanOpen
  BY DEF Kept, Ids, ListedCanOpen, OnDisk
<1> QED
  BY <1>1, KeptAlways, PTL

------------------------------------------------------------------------------
(* Nothing is there twice, or that was not written: Exact.                 *)

\* The numbers that the proofs compare are natural.
LEMMA Numbers ==
  ASSUME TypeOK
  PROVE  /\ 0 \in Families /\ 0 \in OnDisk /\ OnDisk \subseteq Families
         /\ live \subseteq Families
         /\ \A f \in Families :
              /\ man[f].log \in Nat /\ man[f].last \in Nat
              /\ man[f].tables \in SUBSET Nat
              /\ memLog[f] \in Nat /\ logNum[f] \in Nat /\ verLast[f] \in Nat
              /\ mem[f] \in SUBSET Nat /\ imm[f] \in SUBSET Nat
              /\ recTables[f] \in SUBSET Nat
         /\ hist \subseteq Record /\ \A r \in hist : r.log \in Nat /\ r.seq \in Nat
         /\ logs \subseteq Nat /\ trim \subseteq Nat /\ toReplay \subseteq Nat
         /\ lastSeq \in Nat /\ logfile \in Nat /\ nextFile \in Nat
BY FamiliesAssumption
   DEF TypeOK, DiskType, DatabaseType, FamilyType, ActorType, OpenType, GhostType,
       OnDisk, Manifest, Record

\* No batches come from anywhere.
LEMMA NoneFromLogs == \A rs, f, first, end : FromLogs(rs, {}, f, first, end)
BY DEF FromLogs

\* More records and a wider range of logs keep what is known of the batches.
LEMMA FromLogsWiden ==
  ASSUME NEW rs \in SUBSET Record, NEW more, rs \subseteq more,
         NEW batches, NEW f,
         NEW first \in Nat, NEW end \in Nat, NEW first2 \in Nat, NEW end2 \in Nat,
         FromLogs(rs, batches, f, first, end), first2 <= first, end <= end2
  PROVE  FromLogs(more, batches, f, first2, end2)
BY DEF FromLogs, Record

\* No record was written to a log that is still to come.
LEMMA Fresh ==
  ASSUME Inductive, phase \in {"apply", "trim", "open"}
  PROVE  /\ \A n \in logs : n < nextFile
         /\ \A r \in hist : r.log < nextFile
         /\ logfile < nextFile
         /\ \A f \in live \cup creating : memLog[f] < nextFile
<1> USE Numbers DEF Inductive, Kept, Exact
<1>1. logfile < nextFile /\ \A n \in logs : n < nextFile
  BY DEF RunningOrder
<1>2. \A f \in live \cup creating : memLog[f] < nextFile
  BY <1>1 DEF RunningOrder, TypeOK, DatabaseType
<1>3. man[0].log < nextFile
  BY <1>2 DEF RunningOrder, Ids
<1>4. \A r \in hist : r.log < nextFile
  BY <1>1, <1>3 DEF DiskExact, OnDiskSplit
<1> QED
  BY <1>1, <1>2, <1>4

\* Of a killed process only the disk is left.
LEMMA CrashExact ==
  ASSUME Inductive, Kept', Crash
  PROVE  Exact'
<1> USE FamiliesAssumption DEF Inductive, Kept, Exact, diskVars, dbVars, famVars,
          writerVars, bgVars, openVars, ghostVars
<1>1. DiskExact'
  BY DEF Crash, DiskExact, OnDisk, SequenceUnique
<1>2. Unused'
  BY DEF Crash, Unused, Nothing, Never
<1>3. ReplayExact' /\ ApplyExact' /\ RunningExact'
  BY DEF Crash, ReplayExact, ApplyExact, RunningExact
<1>4. Underway'
  BY DEF Crash, Underway
<1> QED
  BY <1>1, <1>2, <1>3, <1>4

\* Reading the descriptors brings back no batch.
LEMMA RecoverOpenExact ==
  ASSUME Inductive, Kept', RecoverOpen
  PROVE  Exact'
<1> USE FamiliesAssumption DEF Inductive, Kept, Exact, diskVars, dbVars, famVars,
          writerVars, bgVars, openVars, ghostVars
<1>1. DiskExact' /\ Unused' /\ Underway'
  BY DEF RecoverOpen, DiskExact, OnDisk, SequenceUnique, Unused, Underway, Stages
<1>2. ReplayExact' /\ ApplyExact' /\ RunningExact'
  BY DEF RecoverOpen, ReplayExact, ApplyExact, RunningExact, Stages
<1> QED
  BY <1>1, <1>2

\* The default family's last sequence number covers the records that will not
\* be replayed.
LEMMA RecoverListExact ==
  ASSUME Inductive, Kept', RecoverList
  PROVE  Exact'
<1> USE FamiliesAssumption DEF Inductive, Kept, Exact, diskVars, dbVars, famVars,
          writerVars, bgVars, openVars, ghostVars
<1>a. /\ recTables = Nothing /\ mem[0] = {} /\ logfile = 0 /\ 0 \notin hasMem
      /\ 0 \in live /\ verLast[0] = man[0].last /\ logNum[0] = man[0].log
  BY DEF RecoverList, Unused, Stages, Opening, Ids, OnDisk
<1>2. Unused'
  BY <1>a DEF RecoverList, Unused, Nothing
<1>3. ReplayExact'
  <2>1. man[0].last <= lastSeq' /\ lastSeq' \in Nat
    BY <1>a DEF RecoverList, TypeOK, DatabaseType
  <2>2. ASSUME NEW r \in hist PROVE r.seq <= lastSeq' \/ r.log \in toReplay'
    <3>1. CASE r.log < man[0].log
      <4>1. r.seq <= man[0].last
        BY <3>1 DEF DiskExact
      <4> QED
        BY <2>1, <4>1, Numbers
    <3>2. CASE ~(r.log < man[0].log)
      <4>1. r.log \in logs /\ man[0].log <= r.log
        BY <3>2, Numbers DEF DiskExact, OnDiskSplit
      <4>2. \E f \in live : logNum[f] <= r.log
        BY <1>a, <4>1
      <4>3. toReplay' = {n \in logs : \E f \in live : logNum[f] <= n}
        BY DEF RecoverList
      <4> QED
        BY <4>1, <4>2, <4>3
    <3> QED
      BY <3>1, <3>2
  <2>3. \A f \in live : recTables[f] = {}
    BY <1>a, Numbers DEF Nothing
  <2> QED
    BY <1>a, <2>1, <2>2, <2>3 DEF RecoverList, ReplayExact
<1>5. DiskExact' /\ ApplyExact' /\ RunningExact'
  BY DEF RecoverList, DiskExact, OnDisk, SequenceUnique, ApplyExact, RunningExact
<1>6. Underway'
  BY DEF RecoverList, Underway, Stages
<1> QED
  BY <1>2, <1>3, <1>5, <1>6

\* What a log gives to tables or to the memtable is in no other place, and its
\* sequence numbers are counted, those of skipped records too.
LEMMA ReplayLogExact ==
  ASSUME Inductive, Kept', ReplayLog
  PROVE  Exact'
<1> USE FamiliesAssumption DEF Inductive, Kept, Exact, diskVars, dbVars, famVars,
          writerVars, bgVars, openVars, ghostVars
<1>a. PICK n \in toReplay, midway \in BOOLEAN :
        /\ \A m \in toReplay : n <= m
        /\ IF CanReuse(n, midway) THEN ReuseLog(n) ELSE FlushReplayed(n)
        /\ toReplay' = toReplay \ {n}
        /\ lastSeq' \in {lastSeq} \cup SequencesIn(n)
        /\ \A q \in {lastSeq} \cup SequencesIn(n) : q <= lastSeq'
  BY DEF ReplayLog
<1>b. /\ n \in logs /\ n # 0 /\ n \in Nat /\ logfile = 0 /\ 0 \notin hasMem
      /\ phase = "replay" /\ mem[0] = {}
  BY Numbers DEF ReplayLog, ReplayOrder, Opening, OnDiskSplit, Unused
<1>c. /\ \A f \in Replaying(n) : f \in live /\ man[f].log <= n
      /\ \A r \in RecordsIn(n) : r \in hist /\ r.log = n
  BY <1>b DEF Replaying, RecordsIn, Opening, OnDiskSplit
<1>d. lastSeq <= lastSeq' /\ lastSeq' \in Nat
  BY <1>a, Numbers DEF TypeOK, DatabaseType
<1>2. Unused'
  <2>1. \A f \in Families : f \notin live => recTables'[f] = {}
    BY <1>a, <1>b, <1>c DEF Unused, ReuseLog, FlushReplayed
  <2>2. \A f \in Families : f # 0 \/ 0 \notin hasMem' => mem'[f] = {}
    BY <1>a, <1>b, Numbers DEF Unused, ReuseLog, FlushReplayed, TypeOK, FamilyType
  <2>3. creating' = {} /\ phase' = "replay"
    BY DEF ReplayLog, Stages
  <2> QED
    BY <2>1, <2>2, <2>3 DEF Unused, ReplayLog
<1>3. ReplayExact'
  <2>1. ASSUME NEW r \in hist PROVE r.seq <= lastSeq' \/ r.log \in toReplay'
    <3>1. CASE r.seq <= lastSeq
      BY <1>d, <3>1, Numbers
    <3>2. CASE r.log \in toReplay /\ r.log # n
      BY <1>a, <3>2
    <3>3. CASE r.log = n
      <4>1. CASE r \in wal
        BY <1>a, <3>3, <4>1 DEF SequencesIn, RecordsIn
      <4>2. CASE r \notin wal
        <5>1. r.seq <= man[0].last /\ man[0].last <= lastSeq
          BY <1>b, <4>2 DEF DiskExact, ReplayExact
        <5> QED
          BY <1>d, <5>1, Numbers
      <4> QED
        BY <4>1, <4>2
    <3> QED
      BY <1>b, <3>1, <3>2, <3>3 DEF ReplayExact
  <2>2. ASSUME NEW f \in live, NEW q \in recTables'[f]
        PROVE  \E r \in hist : /\ r.seq = q /\ f \in r.fams /\ man[f].log <= r.log
                               /\ r.log \notin toReplay' /\ r.log # logfile'
    <3>1. CASE q \in recTables[f]
      <4>1. PICK r \in hist : /\ r.seq = q /\ f \in r.fams /\ man[f].log <= r.log
                              /\ r.log \notin toReplay
        BY <1>b, <3>1 DEF ReplayExact
      <4>2. r.log # 0
        <5>1. f \in OnDisk /\ f \in Families
          BY <1>b, Numbers DEF Ids
        <5>3. ~(r.log < man[f].log)
          BY <4>1, <5>1, Numbers
        <5>2. r \in wal
          BY <4>1, <5>1, <5>3 DEF OnDiskSplit
        <5> QED
          BY <5>2 DEF OnDiskSplit
      <4>3. logfile' \in {0, n}
        BY <1>a, <1>b DEF ReuseLog, FlushReplayed
      <4> QED
        BY <1>a, <4>1, <4>2, <4>3
    <3>2. CASE q \notin recTables[f]
      <4>0. f \in Families
        BY Numbers
      <4>1. ~CanReuse(n, midway) /\ f \in Replaying(n) /\ q \in BatchesOf(RecordsIn(n), f)
        BY <1>a, <3>2, <2>2, <4>0 DEF ReuseLog, FlushReplayed
      <4>2. PICK r \in RecordsIn(n) : r.seq = q /\ f \in r.fams
        BY <4>1 DEF BatchesOf
      <4>3. logfile' = 0
        BY <1>a, <1>b, <4>1 DEF FlushReplayed
      <4> QED
        BY <1>a, <1>b, <1>c, <4>1, <4>2, <4>3
    <3> QED
      BY <3>1, <3>2
  <2>3. ASSUME NEW q \in mem'[0]
        PROVE  \E r \in hist :
                 r.seq = q /\ 0 \in r.fams /\ man[0].log <= r.log /\ r.log = logfile'
    <3>1. CanReuse(n, midway)
      BY <1>a, <1>b, <2>3 DEF FlushReplayed
    <3>2. logfile' = n /\ mem'[0] = IF 0 \in Replaying(n) THEN BatchesOf(RecordsIn(n), 0) ELSE {}
      BY <1>a, <3>1 DEF ReuseLog, TypeOK, FamilyType
    <3>3. PICK r \in RecordsIn(n) : r.seq = q /\ 0 \in r.fams
      BY <3>2, <2>3 DEF BatchesOf
    <3> QED
      BY <1>c, <2>3, <3>2, <3>3
  <2>4. man[0].last <= lastSeq'
    BY <1>b, <1>d, Numbers DEF ReplayExact
  <2> QED
    BY <2>1, <2>2, <2>3, <2>4 DEF ReplayExact, ReplayLog
<1>4. DiskExact' /\ ApplyExact' /\ RunningExact'
  BY DEF ReplayLog, DiskExact, OnDisk, SequenceUnique, ApplyExact, RunningExact
<1>5. Underway'
  BY DEF ReplayLog, Underway, Stages
<1> QED
  BY <1>2, <1>3, <1>4, <1>5

\* The new log's number is above those of all records.  If no log was replayed
\* and the descriptors are reused, every family starts at log 0.
LEMMA RecoverNewLogExact ==
  ASSUME Inductive, Kept', RecoverNewLog
  PROVE  Exact'
<1> USE FamiliesAssumption DEF Inductive, Kept, Exact, diskVars, dbVars, famVars,
          writerVars, bgVars, openVars, ghostVars
<1>a. /\ phase = "replay" /\ toReplay = {} /\ creating = {} /\ live = OnDisk
      /\ wpc = "idle" /\ bgPc = "idle" /\ applied = {} /\ trim = {}
      /\ \A f \in Families : ~hasImm[f]
  BY DEF RecoverNewLog, Stages, Ids
<1>b. \A n \in logs : n < nextFile
  BY <1>a DEF ReplayOrder
<1>c. /\ wal' = wal /\ logs \subseteq logs'
      /\ logfile = 0 => logfile' = nextFile
  <2>1. CASE logfile = 0
    <3>1. \A r \in wal : r.log # nextFile
      BY <1>b, Numbers DEF OnDiskSplit
    <3> QED
      BY <2>1, <3>1 DEF RecoverNewLog, SwitchLog
  <2>2. CASE logfile # 0
    BY <2>2 DEF RecoverNewLog
  <2> QED
    BY <2>1, <2>2
<1>d. \A f \in live : imm[f] = {}
  BY <1>a, Numbers DEF Unused
<1>e. ASSUME NEW f \in live, NEW r \in hist, f \in r.fams, man[f].log <= r.log
      PROVE  r.log \in logs
  <2>1. f \in OnDisk /\ f \in Families
    BY <1>a, Numbers
  <2>2. ~(r.log < man[f].log)
    <3>1. r.log \in Nat /\ man[f].log \in Nat
      BY <2>1, Numbers
    <3> QED
      BY <1>e, <3>1
  <2> QED
    BY <1>e, <2>1, <2>2 DEF OnDiskSplit
<1>f. nextFile \in Nat /\ nextFile' \in Nat /\ logfile' \in Nat
      /\ \A f \in Families : memLog'[f] \in Nat
  BY Numbers DEF TypeOK, DatabaseType, FamilyType
<1>g. ASSUME NEW f \in live
      PROVE  /\ FromLogs(hist, recTables[f], f, man[f].log, memLog'[f])
             /\ FromLogs(hist, mem[f], f, memLog'[f], nextFile')
             /\ \A q \in mem[f] : q <= lastSeq
  <2>0. f \in Families
    BY Numbers
  <2>1. CASE f \notin hasMem
    <3>1. logfile = 0 /\ memLog'[f] = nextFile
      BY <1>a, <1>c, <2>0, <2>1 DEF RecoverNewLog, Opening, ReplayOrder
    <3>2. mem[f] = {}
      BY <1>a, <2>0, <2>1 DEF Unused
    <3>3. FromLogs(hist, recTables[f], f, man[f].log, nextFile)
      BY <1>a, <1>b, <1>e DEF FromLogs, ReplayExact
    <3> QED
      BY <3>1, <3>2, <3>3 DEF FromLogs
  <2>2. CASE f \in hasMem /\ f = 0
    <3>1. /\ logfile # 0 /\ memLog'[0] = logfile /\ logfile' = logfile /\ nextFile' = nextFile
          /\ \A n \in logs : n <= logfile
      BY <1>a, <2>2, <2>0 DEF Opening, ReplayOrder, RecoverNewLog
    <3>2. FromLogs(hist, recTables[0], 0, man[0].log, logfile)
      <4> SUFFICES ASSUME NEW q \in recTables[0]
                   PROVE  \E r \in hist : /\ r.seq = q /\ 0 \in r.fams
                                          /\ man[0].log <= r.log /\ r.log < logfile
        BY DEF FromLogs
      <4>1. PICK r \in hist : /\ r.seq = q /\ 0 \in r.fams
                              /\ man[0].log <= r.log /\ r.log # logfile
        BY <1>a, <2>2 DEF ReplayExact
      <4>2. r.log \in logs
        BY <1>e, <2>2, <4>1
      <4> QED
        BY <3>1, <4>1, <4>2, Numbers
    <3>3. FromLogs(hist, mem[0], 0, logfile, nextFile)
      BY <1>a, <1>b, <3>1, Numbers DEF FromLogs, ReplayExact, ReplayOrder
    <3>4. \A q \in mem[0] : q <= lastSeq
      BY <1>a DEF ReplayExact
    <3> QED
      BY <2>2, <3>1, <3>2, <3>3, <3>4
  <2>3. CASE f \in hasMem /\ f # 0
    <3>1. mem[f] = {} /\ \A r \in hist : f \notin r.fams
      BY <1>a, <2>3, <2>0 DEF Unused, Opening, NoRecords
    <3>2. recTables[f] = {}
      BY <1>a, <3>1 DEF ReplayExact
    <3> QED
      BY <3>1, <3>2 DEF FromLogs
  <2> QED
    BY <2>1, <2>2, <2>3
<1>1. DiskExact'
  BY <1>c DEF RecoverNewLog, DiskExact, OnDisk, SequenceUnique
<1>2. Unused'
  BY <1>a DEF RecoverNewLog, Unused
<1>3. ReplayExact'
  BY DEF RecoverNewLog, ReplayExact
<1>4. ApplyExact'
  <2>1. ASSUME ~saveManifest, NEW f \in live PROVE logNum[f] = 0
    <3>1. \A n \in logs : ~ \E g \in live : logNum[g] <= n
      BY <1>a, <2>1 DEF ReplayExact
    <3>2. \A g \in live : logNum[g] = man[g].log /\ g \in Families
      BY <1>a, Numbers DEF Opening
    <3>3. \A g \in live : man[g].log \notin logs
      BY <3>1, <3>2, Numbers
    <3>4. man[0].log = 0
      BY <1>a, <3>3, Numbers DEF DiskExact
    <3>5. man[f].log <= man[0].log
      BY <1>a, <3>3 DEF OnDiskSplit
    <3>6. man[f].log \in Nat /\ logNum[f] = man[f].log
      BY <3>2, Numbers
    <3> QED
      BY <3>4, <3>5, <3>6
  <2> QED
    BY <1>a, <1>g, <2>1 DEF RecoverNewLog, ApplyExact
<1>5. RunningExact'
  <2>1. verLast'[0] = lastSeq
    BY <1>a, Numbers DEF RecoverNewLog
  <2>2. \A r \in hist : r.seq <= lastSeq
    BY <1>a DEF ReplayExact
  <2>3. \A f \in live : imm'[f] = {}
    BY <1>d DEF RecoverNewLog
  <2> QED
    BY <1>a, <1>g, <2>1, <2>2, <2>3 DEF RecoverNewLog, RunningExact, FromLogs
<1>6. Underway'
  BY <1>a DEF RecoverNewLog, Underway
<1> QED
  BY <1>1, <1>2, <1>3, <1>4, <1>5, <1>6

\* An edit moves batches from logs to tables together with the point that
\* splits them.
LEMMA RecoverApplyExact ==
  ASSUME Inductive, Kept', RecoverApply
  PROVE  Exact'
<1> USE FamiliesAssumption DEF Inductive, Kept, Exact, diskVars, dbVars, famVars,
          writerVars, bgVars, openVars, ghostVars
<1>a. PICK f \in live \ applied :
        /\ applied' = applied \cup {f}
        /\ IF saveManifest \/ recTables[f] # {} \/ logNum[f] = 0
           THEN /\ LogManifest(f, ManifestEdit(f, recTables[f]))
                /\ logNum' = [logNum EXCEPT ![f] = FlushPoint(f)]
           ELSE UNCHANGED <<man, diskNext, logNum>>
  BY DEF RecoverApply
<1>b. /\ f \in Families /\ f \in OnDisk /\ live = OnDisk /\ phase = "apply" /\ wpc = "idle"
      /\ bgPc = "idle"
  BY Numbers DEF RecoverApply, Ids, Stages
<1>c. /\ man' = [man EXCEPT ![f] = [log |-> memLog[f], last |-> verLast[f],
                                    tables |-> man[f].tables \cup recTables[f]]]
      /\ logNum' = [logNum EXCEPT ![f] = memLog[f]]
  BY <1>a, <1>b DEF ApplyExact, LogManifest, ManifestEdit, FlushPoint
<1>d. /\ \A g \in Families \ {f} : man'[g] = man[g] /\ logNum'[g] = logNum[g]
      /\ man'[f].log = memLog[f] /\ man'[f].last = verLast[f] /\ logNum'[f] = memLog[f]
      /\ man'[f].tables = man[f].tables \cup recTables[f]
  BY <1>b, <1>c DEF TypeOK, DiskType, FamilyType
<1>e. man[f].log <= memLog[f] /\ man[0].log <= man'[0].log
  BY <1>b, <1>d, Numbers DEF RunningOrder
<1>1. DiskExact'
  <2>1. SequenceUnique'
    BY DEF RecoverApply, DiskExact, SequenceUnique
  <2>2. \A r \in hist : r \in wal \/ r.log < man'[0].log
    BY <1>d, <1>e, Numbers DEF DiskExact, TypeOK, DiskType, Manifest
  <2>3. \A r \in hist : r.log < man'[0].log => r.seq <= man'[0].last
    <3>1. CASE f = 0
      BY <1>b, <1>d, <3>1 DEF RunningExact
    <3>2. CASE f # 0
      BY <1>d, <3>2, Numbers DEF DiskExact
    <3> QED
      BY <3>1, <3>2
  <2>4. man'[0].log = 0 \/ man'[0].log \in logs
    <3>1. CASE f = 0
      BY <1>b, <1>d, <1>e, <3>1, Numbers DEF RunningOrder, DiskExact
    <3>2. CASE f # 0
      BY <1>d, <3>2, Numbers DEF DiskExact
    <3> QED
      BY <3>1, <3>2
  <2>5. \A n \in trim : n < man'[0].log
    BY <1>b DEF Stages
  <2>6. ASSUME NEW g \in OnDisk PROVE FromLogs(hist, man'[g].tables, g, 0, man'[g].log)
    <3>1. CASE g # f
      BY <1>d, <3>1, Numbers DEF DiskExact
    <3>2. CASE g = f
      <4>1. FromLogs(hist, man[f].tables, f, 0, man[f].log)
        BY <1>b DEF DiskExact
      <4>2. FromLogs(hist, man[f].tables, f, 0, memLog[f])
        BY <1>b, <1>e, <4>1, Numbers, FromLogsWiden
      <4>3. FromLogs(hist, recTables[f], f, man[f].log, memLog[f])
        BY <1>a, <1>b DEF ApplyExact
      <4>4. FromLogs(hist, recTables[f], f, 0, memLog[f])
        BY <1>b, <4>3, Numbers, FromLogsWiden
      <4> QED
        BY <1>d, <3>2, <4>2, <4>4 DEF FromLogs
    <3> QED
      BY <3>1, <3>2
  <2> QED
    <3>1. UNCHANGED <<hist, wal, logs, trim, listed>>
      BY DEF RecoverApply
    <3> QED
      BY <2>1, <2>2, <2>3, <2>4, <2>5, <2>6, <3>1 DEF DiskExact, OnDisk
<1>2. Unused'
  BY DEF RecoverApply, Unused
<1>3. ReplayExact'
  BY DEF RecoverApply, ReplayExact
<1>4. ApplyExact'
  BY <1>a, <1>b, <1>d, Numbers DEF RecoverApply, ApplyExact
<1>5. RunningExact'
  <2>1. \A g \in live : imm[g] = {}
    BY <1>b, Numbers DEF Unused, Stages
  <2> QED
    <3>1. \A g \in live : \A first, end : FromLogs(hist, imm[g], g, first, end)
      BY <2>1, NoneFromLogs
    <3>2. UNCHANGED <<phase, live, hist, mem, imm, memLog, nextFile, lastSeq,
                      verLast, hasImm, wpc>>
      BY DEF RecoverApply
    <3> QED
      BY <1>b, <3>1, <3>2 DEF RunningExact
<1>6. Underway'
  BY <1>b DEF RecoverApply, Underway
<1> QED
  BY <1>1, <1>2, <1>3, <1>4, <1>5, <1>6

\* What is chosen for deletion lies below the default family's log number.
LEMMA RecoverTrimExact ==
  ASSUME Inductive, Kept', RecoverTrim
  PROVE  Exact'
<1> USE FamiliesAssumption DEF Inductive, Kept, Exact, diskVars, dbVars, famVars,
          writerVars, bgVars, openVars, ghostVars
<1>a. phase = "apply" /\ applied = live /\ 0 \in live
  BY DEF RecoverTrim, Ids, OnDisk
<1>1. DiskExact'
  <2>1. \A n \in trim' : n < man[0].log
    <3>1. logNum[0] <= man[0].log
      BY <1>a DEF RunningOrder
    <3>2. NeededBy(0) \in NeededLogs /\ NeededBy(0) <= logNum[0] /\ NeededBy(0) \in Nat
      BY <1>a, Numbers DEF NeededLogs, NeededBy, TypeOK, FamilyType
    <3> QED
      BY <3>1, <3>2, Numbers DEF RecoverTrim, ObsoleteLogs
  <2> QED
    BY <2>1 DEF RecoverTrim, DiskExact, OnDisk, SequenceUnique
<1>2. Unused' /\ ReplayExact' /\ ApplyExact' /\ Underway'
  BY <1>a DEF RecoverTrim, Unused, ReplayExact, ApplyExact, Underway
<1>3. RunningExact'
  BY <1>a DEF RecoverTrim, RunningExact, ApplyExact
<1> QED
  BY <1>1, <1>2, <1>3

\* Deleting has ended.
LEMMA RecoverDoneExact ==
  ASSUME Inductive, Kept', RecoverDone
  PROVE  Exact'
<1> USE FamiliesAssumption DEF Inductive, Kept, Exact, diskVars, dbVars, famVars,
          writerVars, bgVars, openVars, ghostVars
<1>1. DiskExact' /\ Unused' /\ Underway'
  BY DEF RecoverDone, DiskExact, OnDisk, SequenceUnique, Unused, Underway
<1>2. ReplayExact' /\ ApplyExact' /\ RunningExact'
  BY DEF RecoverDone, ReplayExact, ApplyExact, RunningExact
<1> QED
  BY <1>1, <1>2

\* A family being created holds nothing.
LEMMA CreateBeginExact ==
  ASSUME Inductive, Kept', CreateBegin
  PROVE  Exact'
<1> USE FamiliesAssumption DEF Inductive, Kept, Exact, diskVars, dbVars, famVars,
          writerVars, bgVars, openVars, ghostVars
<1>a. /\ nextId \in Families /\ nextId # 0 /\ nextId \notin OnDisk /\ phase # "down"
      /\ live = OnDisk /\ phase \in {"open", "create"}
  <2>1. diskNextId <= nextId /\ nextId \in Nat /\ nextId # 0 /\ diskNextId \in Nat
    BY DEF CreateBegin, Ids, TypeOK, DiskType, DatabaseType
  <2>2. nextId \notin OnDisk
    BY <2>1, Numbers DEF Ids
  <2> QED
    BY <2>1, <2>2 DEF CreateBegin, Ids
<1>b. /\ \A f \in Families \ {nextId} : /\ man'[f] = man[f] /\ mem'[f] = mem[f]
                                        /\ memLog'[f] = memLog[f]
                                        /\ logNum'[f] = logNum[f]
                                        /\ verLast'[f] = verLast[f]
      /\ mem'[nextId] = {}
  BY <1>a DEF CreateBegin, TypeOK, DiskType, FamilyType
<1>c. \A f \in OnDisk : f \in Families \ {nextId}
  BY <1>a, Numbers
<1>d. UNCHANGED <<hist, wal, logs, trim, listed, OnDisk, phase, live, imm, hasImm, nextFile,
                  lastSeq, wpc, bgPc, bgFam, bgEdit, recTables, applied,
                  logfile, wfams>>
  BY DEF CreateBegin, OnDisk
<1>1. DiskExact'
  <2>1. \A f \in OnDisk : man'[f] = man[f]
    BY <1>b, <1>c
  <2> QED
    BY <1>d, <2>1, Numbers DEF DiskExact, OnDisk, SequenceUnique
<1>2. Unused'
  <2>1. \A f \in creating' : mem'[f] = {}
    BY <1>b DEF CreateBegin, Unused, TypeOK, DatabaseType
  <2>2. phase = "create" => \A f \in Families : f # 0 \/ 0 \notin hasMem' => mem'[f] = {}
    BY <1>a, <1>b DEF CreateBegin, Unused
  <2> QED
    BY <1>a, <1>b, <1>d, <2>1, <2>2 DEF Unused
<1>3. ReplayExact' /\ ApplyExact'
  BY <1>a, <1>d DEF ReplayExact, ApplyExact
<1>5. RunningExact'
  <2>1. \A f \in live : /\ man'[f] = man[f] /\ mem'[f] = mem[f]
                        /\ memLog'[f] = memLog[f] /\ logNum'[f] = logNum[f]
    BY <1>a, <1>b, <1>c
  <2> QED
    BY <1>a, <1>b, <1>d, <2>1 DEF RunningExact
<1>6. Underway'
  <2>1. bgPc = "log" => bgFam \in OnDisk
    BY <1>a DEF Flushing
  <2>2. bgPc = "log" => man'[bgFam] = man[bgFam]
    BY <1>b, <1>c, <2>1
  <2> QED
    BY <1>d, <2>2 DEF Underway
<1> QED
  BY <1>1, <1>2, <1>3, <1>5, <1>6

\* A new family starts empty at its memtable's log.
LEMMA CreateInstallExact ==
  ASSUME Inductive, Kept', NEW f \in Families, CreateInstall(f)
  PROVE  Exact'
<1> USE FamiliesAssumption DEF Inductive, Kept, Exact, diskVars, dbVars, famVars,
          writerVars, bgVars, openVars, ghostVars
<1>a. /\ f # 0 /\ f \notin OnDisk /\ phase \in {"open", "create"} /\ live = OnDisk
      /\ OnDisk' = OnDisk \cup {f} /\ live' = OnDisk \cup {f} /\ mem[f] = {}
  BY DEF CreateInstall, WriteFamilies, Ids, Stages, OnDisk, Unused, TypeOK, DatabaseType
<1>b. imm[f] = {} /\ ~hasImm[f]
  BY <1>a DEF Unused
<1>c. /\ \A g \in OnDisk : man'[g] = man[g] /\ logNum'[g] = logNum[g]
      /\ man'[f].tables = {} /\ logNum'[f] = memLog[f]
  BY <1>a, Numbers DEF CreateInstall, TypeOK, DiskType, FamilyType
<1>d. UNCHANGED <<hist, wal, logs, trim, phase, mem, memLog, imm, hasImm, nextFile,
                  lastSeq, verLast, wpc, bgPc, bgFam, bgEdit, recTables, applied,
                  logfile, wfams, hasMem>>
  BY DEF CreateInstall
<1>1. DiskExact'
  <2>1. man'[0] = man[0]
    BY <1>c, Numbers
  <2>2. \A g \in OnDisk' : FromLogs(hist, man'[g].tables, g, 0, man'[g].log)
    <3>1. \A g \in OnDisk : FromLogs(hist, man'[g].tables, g, 0, man'[g].log)
      BY <1>c DEF DiskExact
    <3>2. FromLogs(hist, man'[f].tables, f, 0, man'[f].log)
      <4>1. FromLogs(hist, {}, f, 0, man'[f].log)
        BY NoneFromLogs
      <4> QED
        BY <1>c, <4>1
    <3> QED
      BY <1>a, <3>1, <3>2
  <2> QED
    BY <1>d, <2>1, <2>2 DEF DiskExact, SequenceUnique
<1>2. Unused'
  BY <1>a, <1>b, <1>c, <1>d, Numbers DEF Unused, CreateInstall
<1>3. ReplayExact' /\ ApplyExact'
  BY <1>a, <1>d DEF ReplayExact, ApplyExact
<1>5. RunningExact'
  <2>1. \A first, end : FromLogs(hist, mem[f], f, first, end)
                          /\ FromLogs(hist, imm[f], f, first, end)
    BY <1>a, <1>b, NoneFromLogs
  <2>2. \A q \in mem[f] : q <= lastSeq
    BY <1>a
  <2>3. \A g \in OnDisk : man'[g] = man[g] /\ logNum'[g] = logNum[g]
    BY <1>c
  <2>4. CASE phase = "open"
    <3> DEFINE Served(g, m) ==
          /\ \A q \in mem[g] : q <= lastSeq
          /\ FromLogs(hist, mem[g], g, memLog[g], nextFile)
          /\ FromLogs(hist, imm[g], g,
                      IF bgPc = "install" /\ bgFam = g THEN 0 ELSE m.log, memLog[g])
    <3>1. \A g \in OnDisk : Served(g, man'[g]) /\ (~hasImm[g] => logNum'[g] = memLog[g])
      BY <1>a, <2>3, <2>4 DEF RunningExact
    <3>2. Served(f, man'[f]) /\ (~hasImm[f] => logNum'[f] = memLog[f])
      BY <1>c, <2>1, <2>2
    <3>3. \A g \in live' : Served(g, man'[g]) /\ (~hasImm[g] => logNum'[g] = memLog[g])
      BY <1>a, <3>1, <3>2
    <3>4. verLast[0] = lastSeq
             /\ \A r \in hist : r.seq <= lastSeq \/ (wpc = "insert" /\ r.seq = lastSeq + 1)
      BY <2>4 DEF RunningExact
    <3> QED
      BY <1>d, <2>4, <3>3, <3>4 DEF RunningExact
  <2>5. CASE phase = "create"
    BY <1>d, <2>5 DEF RunningExact
  <2> QED
    BY <1>a, <2>4, <2>5
<1>6. Underway'
  <2>1. bgPc = "log" => bgFam \in OnDisk
    BY <1>a DEF Flushing
  <2> QED
    BY <1>c, <1>d, <2>1 DEF Underway
<1> QED
  BY <1>1, <1>2, <1>3, <1>5, <1>6

\* Nothing of the other families changes.
LEMMA DropFamilyExact ==
  ASSUME Inductive, Kept', NEW f \in Families, DropFamily(f)
  PROVE  Exact'
<1> USE FamiliesAssumption DEF Inductive, Kept, Exact, diskVars, dbVars, famVars,
          writerVars, bgVars, openVars, ghostVars
<1>a. /\ phase = "open" /\ live = OnDisk /\ f # 0 /\ OnDisk' = OnDisk \ {f}
      /\ live' = OnDisk \ {f} /\ \A g \in live : ~hasImm[g]
  BY DEF DropFamily, WriteFamilies, BackgroundBusy, Ids, OnDisk
<1>b. /\ \A g \in Families \ {f} : mem'[g] = mem[g]
      /\ mem'[f] = {}
  BY DEF DropFamily, TypeOK, FamilyType
<1>1. DiskExact'
  BY <1>a DEF DropFamily, DiskExact, SequenceUnique
<1>2. Unused'
  <2>1. \A g \in Families : ~hasImm[g] /\ imm[g] = {}
    BY <1>a DEF Unused
  <2>2. \A g \in creating : mem'[g] = {}
    BY <1>b DEF Unused, TypeOK, DatabaseType
  <2> QED
    BY <1>a, <2>1, <2>2 DEF DropFamily, Unused
<1>3. ReplayExact' /\ ApplyExact'
  BY <1>a DEF DropFamily, ReplayExact, ApplyExact
<1>5. RunningExact'
  <2>1. \A g \in live' : mem'[g] = mem[g] /\ g \in live
    BY <1>a, <1>b, Numbers
  <2>2. UNCHANGED <<phase, hist, imm, memLog, nextFile, lastSeq, man, logNum,
                    verLast, hasImm, wpc, bgPc, bgFam>>
    BY DEF DropFamily
  <2> QED
    BY <1>a, <2>1, <2>2 DEF RunningExact
<1>6. Underway'
  BY DEF DropFamily, Underway
<1> QED
  BY <1>1, <1>2, <1>3, <1>5, <1>6

\* Only a directory goes.
LEMMA DropRemoveDirExact ==
  ASSUME Inductive, Kept', NEW f \in Families, DropRemoveDir(f)
  PROVE  Exact'
<1> USE FamiliesAssumption DEF Inductive, Kept, Exact, diskVars, dbVars, famVars,
          writerVars, bgVars, openVars, ghostVars
<1>1. DiskExact' /\ Unused' /\ Underway'
  BY DEF DropRemoveDir, DiskExact, OnDisk, SequenceUnique, Unused, Underway
<1>2. ReplayExact' /\ ApplyExact' /\ RunningExact'
  BY DEF DropRemoveDir, ReplayExact, ApplyExact, RunningExact
<1> QED
  BY <1>1, <1>2

\* A write begins only if its sequence number is within the bound.
LEMMA WriteBeginExact ==
  ASSUME Inductive, Kept', NEW fs \in SUBSET Families, WriteBegin(fs)
  PROVE  Exact'
<1> USE FamiliesAssumption DEF Inductive, Kept, Exact, diskVars, dbVars, famVars,
          writerVars, bgVars, openVars, ghostVars
<1>1. DiskExact' /\ Unused' /\ Underway'
  BY DEF WriteBegin, DiskExact, OnDisk, SequenceUnique, Unused, Underway
<1>2. ReplayExact' /\ ApplyExact' /\ RunningExact'
  BY DEF WriteBegin, ReplayExact, ApplyExact, RunningExact
<1> QED
  BY <1>1, <1>2

\* A null batch takes no sequence number.
LEMMA ForceBeginExact ==
  ASSUME Inductive, Kept', ForceBegin
  PROVE  Exact'
<1> USE FamiliesAssumption DEF Inductive, Kept, Exact, diskVars, dbVars, famVars,
          writerVars, bgVars, openVars, ghostVars
<1>1. DiskExact' /\ Unused' /\ Underway'
  BY DEF ForceBegin, DiskExact, OnDisk, SequenceUnique, Unused, Underway
<1>2. ReplayExact' /\ ApplyExact' /\ RunningExact'
  BY DEF ForceBegin, ReplayExact, ApplyExact, RunningExact
<1> QED
  BY <1>1, <1>2

\* What was in the memtable was written below the new log.
LEMMA SwitchMemTableExact ==
  ASSUME Inductive, Kept', NEW f \in Families, SwitchMemTable(f)
  PROVE  Exact'
<1> USE FamiliesAssumption DEF Inductive, Kept, Exact, diskVars, dbVars, famVars,
          writerVars, bgVars, openVars, ghostVars
<1>a. /\ phase = "open" /\ live = OnDisk /\ f \in live /\ ~hasImm[f] /\ logfile' = nextFile
      /\ imm[f] = {} /\ nextFile' = nextFile + 1 /\ nextFile \in Nat
  BY Numbers DEF SwitchMemTable, SwitchLog, Want, Stages, Ids, Unused
<1>b. /\ \A g \in Families \ {f} : /\ mem'[g] = mem[g] /\ imm'[g] = imm[g]
                                   /\ memLog'[g] = memLog[g] /\ hasImm'[g] = hasImm[g]
      /\ mem'[f] = {} /\ imm'[f] = mem[f] /\ memLog'[f] = nextFile /\ hasImm'[f] = TRUE
  BY <1>a DEF SwitchMemTable, TypeOK, FamilyType
<1>c. wal' = wal /\ logs \subseteq logs'
  <2>1. \A r \in wal : r.log # nextFile
    BY <1>a, Fresh, Numbers DEF OnDiskSplit
  <2> QED
    BY <2>1 DEF SwitchMemTable, SwitchLog
<1>d. UNCHANGED <<phase, hist, trim, listed, man, logNum, verLast, lastSeq, live,
                  bgPc, bgFam, bgEdit, recTables, applied, creating, hasMem, wfams>>
  BY DEF SwitchMemTable
<1>e. bgPc \in {"log", "install"} => bgFam # f
  BY <1>a DEF Flushing
<1>1. DiskExact'
  BY <1>c, <1>d DEF DiskExact, OnDisk, SequenceUnique
<1>2. Unused'
  <2>1. \A g \in creating : mem'[g] = {}
    BY <1>b DEF Unused, TypeOK, DatabaseType
  <2> QED
    BY <1>a, <1>b, <1>d, <2>1 DEF Unused
<1>3. ReplayExact' /\ ApplyExact'
  BY <1>a, <1>d DEF ReplayExact, ApplyExact
<1>5. RunningExact'
  <2>1. wpc' = "loop" /\ wpc # "insert"
    BY DEF SwitchMemTable
  <2>2. ASSUME NEW g \in live
        PROVE  /\ \A q \in mem'[g] : q <= lastSeq
               /\ FromLogs(hist, mem'[g], g, memLog'[g], nextFile')
               /\ FromLogs(hist, imm'[g], g,
                           IF bgPc = "install" /\ bgFam = g THEN 0 ELSE man[g].log,
                           memLog'[g])
               /\ ~hasImm'[g] => logNum[g] = memLog'[g]
    <3>1. CASE g = f
      <4>1. FromLogs(hist, mem[f], f, memLog[f], nextFile) /\ man[f].log <= memLog[f]
        BY <1>a DEF RunningExact, RunningOrder
      <4>2. FromLogs(hist, mem[f], f, man[f].log, nextFile)
        BY <1>a, <4>1, Numbers, FromLogsWiden
      <4>3. ~(bgPc = "install" /\ bgFam = f)
        BY <1>e
      <4>4. \A first, end : FromLogs(hist, mem'[f], f, first, end)
        BY <1>b, NoneFromLogs
      <4>5. \A q \in mem'[f] : q <= lastSeq
        BY <1>b
      <4> QED
        BY <1>b, <3>1, <4>2, <4>3, <4>4, <4>5
    <3>2. CASE g # f
      <4>0. g \in Families
        BY Numbers
      <4>1. /\ \A q \in mem[g] : q <= lastSeq
            /\ FromLogs(hist, mem[g], g, memLog[g], nextFile)
            /\ FromLogs(hist, imm[g], g,
                        IF bgPc = "install" /\ bgFam = g THEN 0 ELSE man[g].log,
                        memLog[g])
            /\ ~hasImm[g] => logNum[g] = memLog[g]
        BY <1>a DEF RunningExact
      <4>2. FromLogs(hist, mem[g], g, memLog[g], nextFile')
        <5>1. nextFile' \in Nat /\ nextFile <= nextFile' /\ memLog[g] \in Nat
                /\ memLog[g] <= memLog[g] /\ hist \in SUBSET Record
          BY <1>a, <4>0, Numbers
        <5> QED
          BY <1>a, <4>1, <5>1, FromLogsWiden
      <4> QED
        BY <1>b, <3>2, <4>0, <4>1, <4>2
    <3> QED
      BY <3>1, <3>2
  <2> QED
    BY <1>a, <1>d, <2>1, <2>2 DEF RunningExact
<1>6. Underway'
  <2>1. wpc' = "loop" /\ (wfams # {} => lastSeq < MaxSeq)
    BY DEF SwitchMemTable, Underway
  <2>2. bgPc = "log" => imm'[bgFam] = imm[bgFam]
    BY <1>b, <1>e DEF TypeOK, ActorType
  <2> QED
    BY <1>d, <2>1, <2>2 DEF Underway
<1> QED
  BY <1>1, <1>2, <1>3, <1>5, <1>6

\* Waiting changes nothing.
LEMMA RoomWaitExact ==
  ASSUME Inductive, Kept', RoomWait
  PROVE  Exact'
<1> USE FamiliesAssumption DEF Inductive, Kept, Exact, diskVars, dbVars, famVars,
          writerVars, bgVars, openVars, ghostVars
<1>1. DiskExact' /\ Unused' /\ Underway'
  BY DEF RoomWait, DiskExact, OnDisk, SequenceUnique, Unused, Underway
<1>2. ReplayExact' /\ ApplyExact' /\ RunningExact'
  BY DEF RoomWait, ReplayExact, ApplyExact, RunningExact
<1> QED
  BY <1>1, <1>2

\* The group takes one sequence number, as the batch did.
LEMMA RoomFoundExact ==
  ASSUME Inductive, Kept', RoomFound
  PROVE  Exact'
<1> USE FamiliesAssumption DEF Inductive, Kept, Exact, diskVars, dbVars, famVars,
          writerVars, bgVars, openVars, ghostVars
<1>1. DiskExact' /\ Unused' /\ Underway'
  BY DEF RoomFound, DiskExact, OnDisk, SequenceUnique, Unused, Underway
<1>2. ReplayExact' /\ ApplyExact' /\ RunningExact'
  BY DEF RoomFound, ReplayExact, ApplyExact, RunningExact
<1> QED
  BY <1>1, <1>2

\* The record has a new sequence number and the current log's number.
LEMMA AddRecordExact ==
  ASSUME Inductive, Kept', AddRecord
  PROVE  Exact'
<1> USE FamiliesAssumption DEF Inductive, Kept, Exact, diskVars, dbVars, famVars,
          writerVars, bgVars, openVars, ghostVars
<1> DEFINE new == [log |-> logfile, seq |-> lastSeq + 1, fams |-> wfams]
<1>a. /\ phase = "open" /\ live = OnDisk /\ wal' = wal \cup {new} /\ hist' = hist \cup {new}
      /\ wpc = "append" /\ wpc' = "insert" /\ lastSeq \in Nat
  BY Numbers DEF AddRecord, Stages, Ids
<1>b. \A r \in hist : r.seq <= lastSeq
  BY <1>a DEF RunningExact
<1>c. UNCHANGED <<phase, trim, listed, man, logNum, verLast, lastSeq, live, logs,
                  mem, imm, hasImm, memLog, nextFile, logfile,
                  bgPc, bgFam, bgEdit, recTables, applied, creating, hasMem, wfams>>
  BY DEF AddRecord
<1>d. man[0].log <= logfile /\ (bgPc = "log" /\ bgFam = 0 => bgEdit.log <= logfile)
  <2>1. 0 \in live /\ man[0].log <= memLog[0] /\ memLog[0] <= logfile
    BY <1>a, Numbers DEF RunningOrder
  <2> QED
    BY <2>1, Numbers DEF Flushing
<1>e. hist' \in SUBSET Record /\ hist \in SUBSET Record /\ new.log = logfile /\ new.seq = lastSeq + 1
  BY <1>a DEF TypeOK, GhostType
<1>f. \A batches, g : \A first, end \in Nat :
        FromLogs(hist, batches, g, first, end) => FromLogs(hist', batches, g, first, end)
  BY <1>a DEF FromLogs
<1> HIDE DEF new
<1>1. DiskExact'
  <2>1. SequenceUnique'
    BY <1>a, <1>b, <1>e, Numbers DEF DiskExact, SequenceUnique
  <2>2. \A r \in hist' : r \in wal' \/ r.log < man[0].log
    BY <1>a DEF DiskExact
  <2>3. \A r \in hist' : r.log < man[0].log => r.seq <= man[0].last
    BY <1>a, <1>d, <1>e, Numbers DEF DiskExact
  <2>4. \A g \in OnDisk : FromLogs(hist', man[g].tables, g, 0, man[g].log)
    BY <1>f, Numbers DEF DiskExact
  <2> QED
    BY <1>c, <2>1, <2>2, <2>3, <2>4 DEF DiskExact, OnDisk
<1>2. Unused'
  BY <1>c DEF Unused
<1>3. ReplayExact' /\ ApplyExact'
  BY <1>a, <1>c DEF ReplayExact, ApplyExact
<1>5. RunningExact'
  <2>1. \A r \in hist' : r.seq <= lastSeq \/ r.seq = lastSeq + 1
    BY <1>a, <1>b, <1>e
  <2>2. ASSUME NEW g \in live
        PROVE  /\ FromLogs(hist', mem[g], g, memLog[g], nextFile)
               /\ FromLogs(hist', imm[g], g,
                           IF bgPc = "install" /\ bgFam = g THEN 0 ELSE man[g].log,
                           memLog[g])
    BY <1>a, <1>f, Numbers DEF RunningExact
  <2> QED
    BY <1>a, <1>c, <2>1, <2>2 DEF RunningExact
<1>6. Underway'
  <2>1. bgPc = "log" /\ bgFam = 0 => \A r \in hist' : r.log < bgEdit.log => r.seq <= bgEdit.last
    BY <1>a, <1>d, <1>e, Numbers DEF Underway, TypeOK, ActorType, Edit
  <2>2. lastSeq < MaxSeq
    BY <1>a DEF Underway
  <2> QED
    BY <1>a, <1>c, <2>1, <2>2 DEF Underway, new
<1> QED
  BY <1>1, <1>2, <1>3, <1>5, <1>6

\* The memtables get the batch of the record that was appended.
LEMMA InsertIntoExact ==
  ASSUME Inductive, Kept', InsertInto
  PROVE  Exact'
<1> USE FamiliesAssumption DEF Inductive, Kept, Exact, diskVars, dbVars, famVars,
          writerVars, bgVars, openVars, ghostVars
<1>a. /\ phase = "open" /\ live = OnDisk /\ wpc = "insert" /\ wpc' = "idle" /\ lastSeq' = lastSeq + 1
      /\ lastSeq \in Nat
  BY Numbers DEF InsertInto, Stages, Ids
<1>b. \A g \in Families : mem'[g] = IF g \in wfams \cap wmems \cap live
                                    THEN mem[g] \cup {lastSeq + 1} ELSE mem[g]
  BY DEF InsertInto
<1>c. UNCHANGED <<phase, hist, wal, trim, listed, man, logNum, live, logs,
                  imm, hasImm, memLog, nextFile, logfile,
                  bgPc, bgFam, bgEdit, recTables, applied, creating, hasMem>>
  BY DEF InsertInto
<1>1. DiskExact'
  BY <1>c DEF DiskExact, OnDisk, SequenceUnique
<1>2. Unused'
  <2>1. \A g \in creating : mem'[g] = {}
    BY <1>a, <1>b DEF Unused, Ids, TypeOK, DatabaseType
  <2> QED
    BY <1>a, <1>c, <2>1 DEF Unused
<1>3. ReplayExact' /\ ApplyExact'
  BY <1>a, <1>c DEF ReplayExact, ApplyExact
<1>5. RunningExact'
  <2>1. verLast'[0] = lastSeq'
    BY <1>a, Numbers DEF InsertInto
  <2>2. \A r \in hist : r.seq <= lastSeq'
    BY <1>a, Numbers DEF RunningExact
  <2>3. ASSUME NEW g \in live
        PROVE  /\ \A q \in mem'[g] : q <= lastSeq'
               /\ FromLogs(hist, mem'[g], g, memLog[g], nextFile)
    <3>1. (\A q \in mem[g] : q <= lastSeq) /\ FromLogs(hist, mem[g], g, memLog[g], nextFile)
      BY <1>a DEF RunningExact
    <3>2. g \in Families
      BY Numbers
    <3>3. \A q \in mem'[g] : q <= lastSeq'
      <4> SUFFICES ASSUME NEW q \in mem'[g] PROVE q <= lastSeq + 1
        BY <1>a
      <4>1. q \in mem[g] \/ q = lastSeq + 1
        BY <1>b, <3>2
      <4>2. q \in Nat
        BY <1>a, <3>2, <4>1, Numbers
      <4> QED
        BY <1>a, <3>1, <4>1, <4>2
    <3>4. CASE g \in wfams
      <4>1. [log |-> logfile, seq |-> lastSeq + 1, fams |-> wfams] \in hist
        BY <1>a DEF Underway
      <4>2. memLog[g] <= logfile /\ logfile < nextFile
        BY <1>a, Fresh DEF RunningOrder
      <4> QED
        BY <1>b, <3>1, <3>2, <3>3, <3>4, <4>1, <4>2 DEF FromLogs
    <3>5. CASE g \notin wfams
      BY <1>b, <3>1, <3>2, <3>3, <3>5
    <3> QED
      BY <3>4, <3>5
  <2> QED
    BY <1>a, <1>c, <2>1, <2>2, <2>3 DEF RunningExact
<1>6. Underway'
  BY <1>a, <1>c DEF Underway, InsertInto
<1> QED
  BY <1>1, <1>2, <1>3, <1>5, <1>6

\* A caller returns.
LEMMA ForceReturnExact ==
  ASSUME Inductive, Kept', ForceReturn
  PROVE  Exact'
<1> USE FamiliesAssumption DEF Inductive, Kept, Exact, diskVars, dbVars, famVars,
          writerVars, bgVars, openVars, ghostVars
<1>1. DiskExact' /\ Unused' /\ Underway'
  BY DEF ForceReturn, DiskExact, OnDisk, SequenceUnique, Unused, Underway
<1>2. ReplayExact' /\ ApplyExact' /\ RunningExact'
  BY DEF ForceReturn, ReplayExact, ApplyExact, RunningExact
<1> QED
  BY <1>1, <1>2

\* Building a table takes a number of the shared counter.
LEMMA FlushBuildExact ==
  ASSUME Inductive, Kept', NEW f \in Families, FlushBuild(f)
  PROVE  Exact'
<1> USE FamiliesAssumption DEF Inductive, Kept, Exact, diskVars, dbVars, famVars,
          writerVars, bgVars, openVars, ghostVars
<1>1. phase = "open" /\ nextFile' \in Nat /\ nextFile <= nextFile' /\ nextFile \in Nat
  BY Numbers DEF FlushBuild
<1>2. DiskExact' /\ Unused' /\ ReplayExact' /\ ApplyExact'
  BY <1>1 DEF FlushBuild, DiskExact, OnDisk, SequenceUnique, Unused, ReplayExact, ApplyExact
<1>3. RunningExact'
  <2>1. ASSUME NEW g \in live PROVE FromLogs(hist, mem[g], g, memLog[g], nextFile')
    <3>1. FromLogs(hist, mem[g], g, memLog[g], nextFile)
      BY <1>1 DEF RunningExact
    <3>0. g \in Families
      BY Numbers
    <3>2. memLog[g] \in Nat /\ memLog[g] <= memLog[g] /\ hist \in SUBSET Record
      BY <3>0, Numbers
    <3> QED
      BY <1>1, <3>1, <3>2, FromLogsWiden
  <2>2. bgPc # "install" /\ bgPc' # "install"
    BY DEF FlushBuild
  <2>3. UNCHANGED <<phase, live, hist, mem, imm, memLog, lastSeq, man, logNum,
                    verLast, hasImm, wpc>>
    BY DEF FlushBuild
  <2> QED
    BY <1>1, <2>1, <2>2, <2>3 DEF RunningExact
<1>4. Underway'
  BY DEF FlushBuild, Underway
<1> QED
  BY <1>2, <1>3, <1>4

\* The edit is put together from the memtable set aside; a record that is being
\* written lies in a log the edit does not vouch for.
LEMMA FlushEditExact ==
  ASSUME Inductive, Kept', FlushEdit
  PROVE  Exact'
<1> USE FamiliesAssumption DEF Inductive, Kept, Exact, diskVars, dbVars, famVars,
          writerVars, bgVars, openVars, ghostVars
<1>1. phase = "open" /\ wpc # "loop"
  BY DEF FlushEdit, Stages, MutexFree
<1>2. DiskExact' /\ Unused' /\ ReplayExact' /\ ApplyExact' /\ RunningExact'
  BY <1>1 DEF FlushEdit, DiskExact, OnDisk, SequenceUnique, Unused, ReplayExact,
              ApplyExact, RunningExact
<1>3. Underway'
  <2>1. /\ bgEdit'.tables = man[bgFam].tables \cup imm[bgFam]
        /\ bgEdit'.log = memLog[bgFam] /\ bgEdit'.last = verLast[bgFam]
    BY DEF FlushEdit, ManifestEdit, FlushPoint
  <2>2. ASSUME bgFam = 0, NEW r \in hist, r.log < memLog[0] PROVE r.seq <= verLast[0]
    <3>1. verLast[0] = lastSeq /\ (r.seq <= lastSeq \/ (wpc = "insert" /\ r.seq = lastSeq + 1))
      BY <1>1 DEF RunningExact
    <3>2. ASSUME wpc = "insert", r.seq = lastSeq + 1 PROVE FALSE
      <4>1. r = [log |-> logfile, seq |-> lastSeq + 1, fams |-> wfams]
        BY <3>2 DEF Underway, DiskExact, SequenceUnique
      <4>2. memLog[0] <= logfile
        BY <1>1, Numbers DEF RunningOrder, Ids
      <4> QED
        BY <2>2, <4>1, <4>2, Numbers
    <3> QED
      BY <3>1, <3>2
  <2>3. UNCHANGED <<wpc, hist, logfile, lastSeq, wfams, man, imm, bgFam>>
    BY DEF FlushEdit
  <2> QED
    BY <2>1, <2>2, <2>3 DEF Underway
<1> QED
  BY <1>2, <1>3

\* Batches move from the logs to the tables with the point that splits them.
LEMMA FlushLogExact ==
  ASSUME Inductive, Kept', FlushLog
  PROVE  Exact'
<1> USE FamiliesAssumption DEF Inductive, Kept, Exact, diskVars, dbVars, famVars,
          writerVars, bgVars, openVars, ghostVars
<1>a. /\ phase = "open" /\ live = OnDisk /\ bgPc = "log" /\ bgPc' = "install"
      /\ bgFam \in live /\ bgFam \in Families /\ bgEdit.log = memLog[bgFam]
      /\ bgEdit.tables \subseteq man[bgFam].tables \cup imm[bgFam]
      /\ man[bgFam].log <= memLog[bgFam]
  BY Numbers DEF FlushLog, Stages, Ids, Flushing, Underway, RunningOrder
<1>b. /\ \A g \in Families \ {bgFam} : man'[g] = man[g]
      /\ man'[bgFam].log = memLog[bgFam] /\ man'[bgFam].last = bgEdit.last
      /\ man'[bgFam].tables = bgEdit.tables
  BY <1>a DEF FlushLog, LogManifest, TypeOK, DiskType
<1>c. UNCHANGED <<hist, wal, logs, trim, listed, phase, mem, memLog, imm, hasImm,
                  nextFile, lastSeq, verLast, wpc, bgFam, recTables, applied, live,
                  creating, hasMem, logfile, wfams, logNum>>
  BY DEF FlushLog
<1>d. man[0].log <= man'[0].log
  BY <1>a, <1>b, Numbers
<1>1. DiskExact'
  <2>1. \A r \in hist : r \in wal \/ r.log < man'[0].log
    BY <1>d, Numbers DEF DiskExact, TypeOK, DiskType, Manifest
  <2>2. \A r \in hist : r.log < man'[0].log => r.seq <= man'[0].last
    <3>1. CASE bgFam = 0
      BY <1>a, <1>b, <3>1 DEF Underway
    <3>2. CASE bgFam # 0
      BY <1>b, <3>2, Numbers DEF DiskExact
    <3> QED
      BY <3>1, <3>2
  <2>3. man'[0].log = 0 \/ man'[0].log \in logs
    <3>1. CASE bgFam = 0
      BY <1>a, <1>b, <3>1, Numbers DEF RunningOrder, DiskExact
    <3>2. CASE bgFam # 0
      BY <1>b, <3>2, Numbers DEF DiskExact
    <3> QED
      BY <3>1, <3>2
  <2>4. \A n \in trim : n < man'[0].log
    BY <1>d, Numbers DEF DiskExact, TypeOK, DiskType, Manifest
  <2>5. ASSUME NEW g \in OnDisk PROVE FromLogs(hist, man'[g].tables, g, 0, man'[g].log)
    <3>1. CASE g # bgFam
      BY <1>b, <3>1, Numbers DEF DiskExact
    <3>2. CASE g = bgFam
      <4>0. hist \in SUBSET Record /\ man[g].log \in Nat /\ memLog[g] \in Nat /\ 0 \in Nat
              /\ 0 <= man[g].log /\ 0 <= 0
        BY Numbers
      <4>1. FromLogs(hist, man[g].tables, g, 0, man[g].log)
        BY DEF DiskExact
      <4>2. FromLogs(hist, man[g].tables, g, 0, memLog[g])
        BY <1>a, <3>2, <4>0, <4>1, FromLogsWiden
      <4>3. FromLogs(hist, imm[g], g, man[g].log, memLog[g])
        BY <1>a, <3>2 DEF RunningExact
      <4>4. FromLogs(hist, imm[g], g, 0, memLog[g])
        BY <4>0, <4>3, FromLogsWiden
      <4> QED
        BY <1>a, <1>b, <3>2, <4>2, <4>4 DEF FromLogs
    <3> QED
      BY <3>1, <3>2
  <2> QED
    BY <1>c, <2>1, <2>2, <2>3, <2>4, <2>5 DEF DiskExact, OnDisk, SequenceUnique
<1>2. Unused' /\ ReplayExact' /\ ApplyExact'
  BY <1>a, <1>c DEF Unused, ReplayExact, ApplyExact
<1>3. RunningExact'
  <2>1. ASSUME NEW g \in live
        PROVE  FromLogs(hist, imm[g], g,
                        IF bgPc' = "install" /\ bgFam = g THEN 0 ELSE man'[g].log,
                        memLog[g])
    <3>1. FromLogs(hist, imm[g], g, man[g].log, memLog[g])
      BY <1>a DEF RunningExact
    <3>2. CASE g # bgFam
      BY <1>b, <3>1, <3>2, Numbers
    <3>3. CASE g = bgFam
      <4>0. g \in Families
        BY Numbers
      <4>1. hist \in SUBSET Record /\ man[g].log \in Nat /\ memLog[g] \in Nat /\ 0 \in Nat
              /\ 0 <= man[g].log /\ memLog[g] <= memLog[g]
        BY <4>0, Numbers
      <4>2. FromLogs(hist, imm[g], g, 0, memLog[g])
        BY <3>1, <4>1, FromLogsWiden
      <4> QED
        BY <1>a, <3>3, <4>2
    <3> QED
      BY <3>2, <3>3
  <2> QED
    BY <1>a, <1>c, <2>1 DEF RunningExact
<1>4. Underway'
  BY <1>a, <1>c DEF Underway
<1> QED
  BY <1>1, <1>2, <1>3, <1>4

\* The memtable goes, and logs below the default family's log number with it.
LEMMA FlushInstallExact ==
  ASSUME Inductive, Kept', FlushInstall
  PROVE  Exact'
<1> USE FamiliesAssumption DEF Inductive, Kept, Exact, diskVars, dbVars, famVars,
          writerVars, bgVars, openVars, ghostVars
<1>a. /\ phase = "open" /\ live = OnDisk /\ bgPc = "install" /\ bgPc' = "trim"
      /\ bgFam \in live /\ bgFam \in Families /\ bgEdit.log = memLog[bgFam]
      /\ man[bgFam].log = memLog[bgFam] /\ 0 \in live
  BY Numbers DEF FlushInstall, Stages, Ids, Flushing
<1>b. /\ \A g \in Families \ {bgFam} : /\ logNum'[g] = logNum[g] /\ imm'[g] = imm[g]
                                       /\ hasImm'[g] = hasImm[g]
      /\ logNum'[bgFam] = memLog[bgFam] /\ imm'[bgFam] = {} /\ hasImm'[bgFam] = FALSE
  BY <1>a DEF FlushInstall, TypeOK, FamilyType
<1>c. UNCHANGED <<hist, wal, logs, man, listed, phase, mem, memLog, nextFile, lastSeq,
                  verLast, wpc, bgFam, recTables, applied, live, creating, hasMem,
                  logfile, wfams>>
  BY DEF FlushInstall
<1>1. DiskExact'
  <2>1. \A n \in trim' : n < man[0].log
    <3>1. logNum'[0] <= man[0].log /\ logNum'[0] \in Nat
      BY <1>a, <1>b, Numbers DEF RunningOrder
    <3>2. NeededBy(0)' \in NeededLogs' /\ NeededBy(0)' <= logNum'[0] /\ NeededBy(0)' \in Nat
      BY <1>a, <1>c, <3>1 DEF NeededLogs, NeededBy, TypeOK, FamilyType
    <3>3. \A n \in trim' : n \in logs /\ n < NeededBy(0)'
      BY <1>c, <3>2 DEF FlushInstall, ObsoleteLogs
    <3> QED
      BY <3>1, <3>2, <3>3, Numbers
  <2> QED
    BY <1>c, <2>1 DEF DiskExact, OnDisk, SequenceUnique
<1>2. Unused'
  BY <1>a, <1>b, <1>c DEF Unused
<1>3. ReplayExact' /\ ApplyExact'
  BY <1>a, <1>c DEF ReplayExact, ApplyExact
<1>4. RunningExact'
  <2>1. ASSUME NEW g \in live
        PROVE  FromLogs(hist, imm'[g], g, man[g].log, memLog[g])
                 /\ (~hasImm'[g] => logNum'[g] = memLog[g])
    <3>1. CASE g = bgFam
      <4>1. FromLogs(hist, {}, g, man[g].log, memLog[g])
        BY NoneFromLogs
      <4> QED
        BY <1>b, <3>1, <4>1
    <3>2. CASE g # bgFam
      <4>1. g \in Families
        BY Numbers
      <4> QED
        BY <1>a, <1>b, <3>2, <4>1 DEF RunningExact
    <3> QED
      BY <3>1, <3>2
  <2> QED
    BY <1>a, <1>c, <2>1 DEF RunningExact
<1>5. Underway'
  BY <1>a, <1>c DEF Underway
<1> QED
  BY <1>1, <1>2, <1>3, <1>4, <1>5

\* The background thread is idle again.
LEMMA TrimDoneExact ==
  ASSUME Inductive, Kept', TrimDone
  PROVE  Exact'
<1> USE FamiliesAssumption DEF Inductive, Kept, Exact, diskVars, dbVars, famVars,
          writerVars, bgVars, openVars, ghostVars
<1>1. DiskExact' /\ Unused' /\ Underway'
  BY DEF TrimDone, DiskExact, OnDisk, SequenceUnique, Unused, Underway
<1>2. ReplayExact' /\ ApplyExact' /\ RunningExact'
  BY DEF TrimDone, ReplayExact, ApplyExact, RunningExact
<1> QED
  BY <1>1, <1>2

\* Records that go lie below the default family's log number.
LEMMA DeleteLogExact ==
  ASSUME Inductive, Kept', DeleteLog
  PROVE  Exact'
<1> USE FamiliesAssumption DEF Inductive, Kept, Exact, diskVars, dbVars, famVars,
          writerVars, bgVars, openVars, ghostVars
<1>a. PICK n \in trim : /\ trim' = trim \ {n}
                        /\ logs' = logs \ {n}
                        /\ wal' = {r \in wal : r.log # n}
  BY DEF DeleteLog
<1>b. n < man[0].log /\ n \in Nat /\ man[0].log \in Nat
  BY Numbers DEF DiskExact
<1>1. DiskExact'
  <2>1. \A r \in hist : r \in wal' \/ r.log < man[0].log
    BY <1>a, <1>b DEF DiskExact
  <2>2. man[0].log = 0 \/ man[0].log \in logs'
    BY <1>a, <1>b DEF DiskExact
  <2>3. UNCHANGED <<hist, man, listed>>
    BY DEF DeleteLog
  <2> QED
    BY <1>a, <2>1, <2>2, <2>3 DEF DiskExact, OnDisk, SequenceUnique
<1>2. Unused' /\ ReplayExact' /\ ApplyExact' /\ RunningExact' /\ Underway'
  BY DEF DeleteLog, Unused, ReplayExact, ApplyExact, RunningExact, Underway
<1> QED
  BY <1>1, <1>2

\* Every step preserves the whole invariant.
LEMMA InductiveStep == Inductive /\ [Next]_vars => Inductive'
<1> SUFFICES ASSUME Inductive, [Next]_vars PROVE Inductive'
  OBVIOUS
<1>1. Kept'
  BY KeptStep DEF Inductive
<1>2. CASE Recovery
  BY <1>1, <1>2, RecoverOpenExact, RecoverListExact, ReplayLogExact,
     RecoverNewLogExact, RecoverApplyExact, RecoverTrimExact, RecoverDoneExact
     DEF Recovery, Inductive
<1>3. CASE Catalog
  BY <1>1, <1>3, CreateBeginExact, CreateInstallExact, DropFamilyExact,
     DropRemoveDirExact DEF Catalog, Drop, Inductive
<1>4. CASE Writer
  BY <1>1, <1>4, WriteBeginExact, ForceBeginExact, SwitchMemTableExact,
     RoomWaitExact, RoomFoundExact, AddRecordExact, InsertIntoExact,
     ForceReturnExact DEF Writer, Inductive
<1>5. CASE Background
  BY <1>1, <1>5, FlushBuildExact, FlushEditExact, FlushLogExact,
     FlushInstallExact, TrimDoneExact DEF Background, Inductive
<1>6. CASE UNCHANGED vars
  <2> USE <1>6 DEF Inductive, Exact, vars, diskVars, dbVars, famVars, writerVars,
                   bgVars, openVars, ghostVars
  <2>1. DiskExact' /\ Unused' /\ Underway'
    BY DEF DiskExact, OnDisk, SequenceUnique, Unused, Underway
  <2>2. ReplayExact' /\ ApplyExact' /\ RunningExact'
    BY DEF ReplayExact, ApplyExact, RunningExact
  <2> QED
    BY <1>1, <2>1, <2>2
<1> QED
  BY <1>1, <1>2, <1>3, <1>4, <1>5, <1>6, CrashExact, DeleteLogExact
     DEF Next, Inductive

\* The invariant holds before the database is first opened.
LEMMA InductiveInit == Init => Inductive
<1> SUFFICES ASSUME Init PROVE Inductive
  OBVIOUS
<1>1. Kept
  BY KeptInit
<1>2. DiskExact /\ Unused
  BY FamiliesAssumption, NoneFromLogs
     DEF Init, DiskExact, OnDisk, SequenceUnique, NewDB, Unused, Never, Nothing
<1>3. ReplayExact /\ ApplyExact /\ RunningExact /\ Underway
  BY DEF Init, ReplayExact, ApplyExact, RunningExact, Underway
<1> QED
  BY <1>1, <1>2, <1>3 DEF Inductive, Exact

\* The invariant holds in every state of every behaviour.
THEOREM InductiveAlways == Spec => []Inductive
BY InductiveInit, InductiveStep, PTL DEF Spec

------------------------------------------------------------------------------
(* What the invariant gives the users of the database: the properties of    *)
(* SharedLog one by one, and the refinement of FamilyStore.                *)

\* A sequence number is never used for two batches, not even across a crash
\* after which the logs that held it are gone (DBImpl::Recover).
THEOREM SequenceNeverReused == Spec => []SequenceUnique
<1>1. Inductive => SequenceUnique
  BY DEF Inductive, Exact, DiskExact
<1> QED
  BY <1>1, InductiveAlways, PTL

\* A new log never has the number of a log or a record that exists
\* (MarkFileNumberUsed).
THEOREM LogNumberNeverReused == Spec => []FreshLogNumber
<1>1. Inductive => FreshLogNumber
  BY Fresh DEF FreshLogNumber
<1> QED
  BY <1>1, InductiveAlways, PTL

\* What tables hold is not replayed, neither by the next opening nor by one
\* that is under way (RecoverLogFile's test of LogNumber).
THEOREM NothingTwice == Spec => []NeverTwice
<1>1. ASSUME Inductive PROVE NeverTwice
  <2> USE <1>1 DEF Inductive, Kept, Exact
  <2>1. ASSUME NEW r \in hist, NEW f \in r.fams \cap OnDisk,
               InTables(f, r), Replayable(f, r)
        PROVE  FALSE
    <3>1. PICK s \in hist : s.seq = r.seq /\ s.log < man[f].log
      BY <2>1 DEF DiskExact, FromLogs, InTables
    <3>2. s = r
      BY <3>1 DEF DiskExact, SequenceUnique
    <3>3. man[f].log <= r.log /\ man[f].log \in Nat /\ r.log \in Nat
      BY <2>1, Numbers DEF Replayable
    <3> QED
      BY <3>1, <3>2, <3>3
  <2>2. ASSUME NEW f \in live \ applied, NEW q \in recTables[f] \cap man[f].tables
        PROVE  FALSE
    <3>1. f \in OnDisk /\ f \in Families /\ phase # "down"
      BY Numbers DEF Ids
    <3>2. phase \in {"replay", "apply"}
      BY <2>2, <3>1 DEF Unused, Nothing, TypeOK, DatabaseType
    <3>3. PICK s \in hist : s.seq = q /\ s.log < man[f].log
      BY <2>2, <3>1 DEF DiskExact, FromLogs
    <3>4. PICK r \in hist : r.seq = q /\ man[f].log <= r.log
      BY <2>2, <3>2 DEF ReplayExact, ApplyExact, FromLogs
    <3>5. s = r
      BY <3>3, <3>4 DEF DiskExact, SequenceUnique
    <3>6. man[f].log \in Nat /\ r.log \in Nat
      BY <3>1, Numbers
    <3> QED
      BY <3>3, <3>4, <3>5, <3>6
  <2> QED
    BY <2>1, <2>2 DEF NeverTwice
<1> QED
  BY <1>1, InductiveAlways, PTL

\* While the database is open, a family's memtables and tables hold every batch
\* that was written to it, nothing else, and each in one place.
THEOREM ServesWhatWasWritten == Spec => []ContentsExact
<1>1. ASSUME Inductive, phase = "open", NEW f \in live
      PROVE  /\ mem[f] \cup imm[f] \cup man[f].tables = BatchesOf(hist, f) \ InFlight
             /\ mem[f] \cap (imm[f] \cup man[f].tables) = {}
             /\ ~(bgPc = "install" /\ bgFam = f) => imm[f] \cap man[f].tables = {}
  <2> USE <1>1 DEF Inductive, Kept, Exact
  <2>1. /\ f \in OnDisk /\ f \in Families /\ man[f].log \in Nat /\ memLog[f] \in Nat
        /\ man[f].log <= memLog[f] /\ memLog[f] <= logfile /\ logfile \in Nat
    <3>1. f \in OnDisk /\ f \in Families
      BY Numbers DEF Ids
    <3> QED
      BY <3>1, Numbers DEF RunningOrder
  <2>2. /\ FromLogs(hist, mem[f], f, memLog[f], nextFile)
        /\ FromLogs(hist, man[f].tables, f, 0, man[f].log)
        /\ FromLogs(hist, imm[f], f,
                    IF bgPc = "install" /\ bgFam = f THEN 0 ELSE man[f].log, memLog[f])
    BY <2>1 DEF RunningExact, DiskExact
  <2>3. \A r, s \in hist : r.seq = s.seq => r = s
    BY DEF DiskExact, SequenceUnique
  <2>4. \A r \in hist : r.log \in Nat /\ r.seq \in Nat
    BY Numbers
  <2>5. wpc = "insert" => \A r \in hist : r.seq = lastSeq + 1 => r.log = logfile
    BY <2>3 DEF Underway
  <2>6. ASSUME NEW q \in mem[f] \cup imm[f] \cup man[f].tables
        PROVE  q \in BatchesOf(hist, f) \ InFlight
    <3>1. CASE q \in mem[f]
      <4>1. PICK r \in hist : r.seq = q /\ f \in r.fams
        BY <2>2, <3>1 DEF FromLogs
      <4>2. q <= lastSeq /\ lastSeq \in Nat
        BY <3>1, Numbers DEF RunningExact
      <4> QED
        BY <2>4, <4>1, <4>2 DEF BatchesOf, InFlight
    <3>2. CASE q \in imm[f] \cup man[f].tables
      <4>1. PICK r \in hist : r.seq = q /\ f \in r.fams /\ r.log < memLog[f]
        BY <2>1, <2>2, <2>4, <3>2 DEF FromLogs
      <4>2. r.log # logfile
        BY <2>1, <2>4, <4>1
      <4> QED
        BY <2>5, <4>1, <4>2 DEF BatchesOf, InFlight
    <3> QED
      BY <3>1, <3>2
  <2>7. ASSUME NEW q \in BatchesOf(hist, f) \ InFlight
        PROVE  q \in mem[f] \cup imm[f] \cup man[f].tables
    <3>1. PICK r \in hist : r.seq = q /\ f \in r.fams
      BY DEF BatchesOf
    <3>2. CASE r.log < man[f].log
      BY <2>1, <3>1, <3>2 DEF OnDiskSplit, InTables
    <3>3. CASE man[f].log <= r.log /\ r.log < memLog[f]
      BY <3>1, <3>3 DEF RunningSplit
    <3>4. CASE memLog[f] <= r.log
      BY <2>7, <3>1, <3>4 DEF RunningSplit, Pending, InFlight
    <3> QED
      BY <2>1, <2>4, <3>1, <3>2, <3>3, <3>4
  <2>8. ASSUME NEW q \in mem[f], q \in imm[f] \cup man[f].tables PROVE FALSE
    <3>1. PICK r \in hist : r.seq = q /\ memLog[f] <= r.log
      BY <2>2, <2>8 DEF FromLogs
    <3>2. PICK s \in hist : s.seq = q /\ s.log < memLog[f]
      BY <2>1, <2>2, <2>4, <2>8 DEF FromLogs
    <3> QED
      BY <2>1, <2>3, <2>4, <3>1, <3>2
  <2>9. ASSUME ~(bgPc = "install" /\ bgFam = f), NEW q \in imm[f], q \in man[f].tables
        PROVE  FALSE
    <3>1. PICK r \in hist : r.seq = q /\ man[f].log <= r.log
      BY <2>2, <2>9 DEF FromLogs
    <3>2. PICK s \in hist : s.seq = q /\ s.log < man[f].log
      BY <2>2, <2>9 DEF FromLogs
    <3> QED
      BY <2>1, <2>3, <2>4, <3>1, <3>2
  <2>10. mem[f] \cup imm[f] \cup man[f].tables = BatchesOf(hist, f) \ InFlight
    BY <2>6, <2>7
  <2> QED
    BY <2>8, <2>9, <2>10
<1>2. Inductive => ContentsExact
  BY <1>1 DEF ContentsExact
<1> QED
  BY <1>2, InductiveAlways, PTL

------------------------------------------------------------------------------
(* No family is left behind.                                               *)

\* A write that finds no flush pending leaves no live family's memtable on a
\* log that is more than kMaxLiveLogs numbers old: the families that hold the
\* oldest log back are full, so that the loop of MakeRoomForWrite cannot end.
THEOREM NobodyLags == Spec => NoLaggard
<1> DEFINE Lag == wpc # "append" /\ wpc' = "append" /\ (\A f \in live : ~hasImm[f])
                    => \A f \in live : logfile <= memLog[f] + MaxLiveLogs
<1>1. ASSUME Inductive, [Next]_vars, wpc # "append", wpc' = "append" PROVE RoomFound
  BY <1>1
  DEF Next, Crash, Recovery, RecoverOpen, RecoverList, ReplayLog, RecoverNewLog, RecoverApply,
      RecoverTrim, RecoverDone, Catalog, CreateBegin, CreateInstall, Drop, DropFamily,
      DropRemoveDir, Writer, WriteBegin, ForceBegin, SwitchMemTable, RoomWait, AddRecord,
      InsertInto, ForceReturn, Background, FlushBuild, FlushEdit, FlushLog, FlushInstall,
      TrimDone, DeleteLog, vars, writerVars
<1>2. ASSUME Inductive, RoomFound, \A f \in live : ~hasImm[f]
      PROVE  \A f \in live : logfile <= memLog[f] + MaxLiveLogs
  <2> USE <1>2 DEF Inductive, Kept, Exact
  <2>1. phase = "open" /\ MaxLiveLogs \in Nat
    BY BoundsAssumption DEF RoomFound, Stages
  <2>2. \A f \in live : /\ memLog[f] \in Nat /\ logfile \in Nat /\ memLog[f] <= logfile
                        /\ logNum[f] = memLog[f] /\ NeededBy(f) = memLog[f]
    BY <2>1, Numbers DEF RunningOrder, RunningExact, NeededBy
  <2> SUFFICES ASSUME NEW f \in live, ~(logfile <= memLog[f] + MaxLiveLogs) PROVE FALSE
    OBVIOUS
  <2>3. LogsLag
    <3>1. NeededBy(f) \in NeededLogs
      BY DEF NeededLogs
    <3> QED
      BY <2>1, <2>2, <3>1 DEF LogsLag
  <2>4. PICK g \in live : \A h \in live : memLog[g] <= memLog[h]
    <3>1. {memLog[h] : h \in live} \in SUBSET Nat /\ {memLog[h] : h \in live} # {}
      BY <2>2
    <3>2. PICK n \in {memLog[h] : h \in live} : \A m \in {memLog[h] : h \in live} : n <= m
      BY <3>1, LeastElement
    <3> QED
      BY <3>2
  <2>5. HoldsOldest(g)
    BY <2>2, <2>4 DEF HoldsOldest, NeededLogs
  <2>6. g \in Want /\ Full(g)
    BY <1>2, <2>3, <2>5 DEF Want, Full
  <2> QED
    BY <2>6 DEF RoomFound
<1>3. Inductive /\ [Next]_vars => [Lag]_vars
  BY <1>1, <1>2
<1> QED
  BY <1>3, InductiveAlways, PTL DEF Spec, NoLaggard

------------------------------------------------------------------------------
(* Every step of the shared log is a step of the store, or none.           *)

\* What a crash would leave of a family is what was ever written to it: the
\* disk alone determines the store.
LEMMA StoreIsHistory ==
  Inductive => \A f \in Families :
                 Recoverable(f) = IF f \in OnDisk THEN BatchesOf(hist, f) ELSE {}
<1> SUFFICES ASSUME Inductive, NEW f \in Families, f \in OnDisk
             PROVE  Recoverable(f) = BatchesOf(hist, f)
  BY DEF Recoverable
<1> USE DEF Inductive, Kept, Exact
<1> DEFINE left == {r \in wal : man[f].log <= r.log}
<1>1. Recoverable(f) = man[f].tables \cup BatchesOf(left, f)
  BY DEF Recoverable
<1>2. man[f].tables \subseteq BatchesOf(hist, f)
  BY DEF DiskExact, FromLogs, BatchesOf
<1>3. BatchesOf(left, f) \subseteq BatchesOf(hist, f)
  BY DEF OnDiskSplit, BatchesOf
<1>4. ASSUME NEW r \in hist, f \in r.fams
      PROVE  r.seq \in man[f].tables \cup BatchesOf(left, f)
  <2>1. man[f].log \in Nat /\ r.log \in Nat
    BY Numbers
  <2>2. CASE r.log < man[f].log
    BY <1>4, <2>2 DEF OnDiskSplit, InTables
  <2>3. CASE ~(r.log < man[f].log)
    <3>1. r \in left
      BY <1>4, <2>1, <2>3 DEF OnDiskSplit
    <3> QED
      BY <1>4, <3>1 DEF BatchesOf
  <2> QED
    BY <2>2, <2>3
<1>5. BatchesOf(hist, f) \subseteq man[f].tables \cup BatchesOf(left, f)
  BY <1>4 DEF BatchesOf
<1> QED
  BY <1>1, <1>2, <1>3, <1>5

\* The store before and after a step, as a function of what was written.
LEMMA StoreBothSides ==
  ASSUME Inductive, Inductive'
  PROVE  /\ [f \in Families |-> Recoverable(f)] =
              [f \in Families |-> IF f \in OnDisk THEN BatchesOf(hist, f) ELSE {}]
         /\ [f \in Families |-> Recoverable(f)]' =
              [f \in Families |-> IF f \in OnDisk' THEN BatchesOf(hist', f) ELSE {}]
<1>1. \A f \in Families :
        Recoverable(f) = IF f \in OnDisk THEN BatchesOf(hist, f) ELSE {}
  BY StoreIsHistory
<1>2. (\A f \in Families :
         Recoverable(f) = IF f \in OnDisk THEN BatchesOf(hist, f) ELSE {})'
  BY StoreIsHistory, PTL
<1> QED
  BY <1>1, <1>2

\* Before the first opening the store is empty.
LEMMA StoreInitially == Init => Store!StoreInit
<1> SUFFICES ASSUME Init PROVE Store!StoreInit
  OBVIOUS
<1>1. Inductive
  BY InductiveInit
<1>2. \A f \in Families : Recoverable(f) = {}
  BY <1>1, StoreIsHistory DEF Init, BatchesOf
<1> QED
  BY <1>2 DEF Init, Store!StoreInit, OnDisk

\* Appending a record commits its batch to every family it touches at once.
LEMMA AppendCommits ==
  ASSUME Inductive, Inductive', AddRecord
  PROVE  Store!Commit(wfams, lastSeq + 1) /\ lastSeq + 1 \in 1 .. MaxSeq
<1> USE DEF Inductive, Kept, Exact
<1> DEFINE new == [log |-> logfile, seq |-> lastSeq + 1, fams |-> wfams]
<1>1. /\ phase = "open" /\ hist' = hist \cup {new} /\ OnDisk' = OnDisk /\ gone' = gone
      /\ wpc = "append" /\ lastSeq \in Nat
  BY Numbers DEF AddRecord, Stages, OnDisk
<1>2. \A r \in hist : r.seq < lastSeq + 1
  BY <1>1, Numbers DEF RunningExact
<1>a. new.seq = lastSeq + 1 /\ new.fams = wfams
  OBVIOUS
<1>b. hist' = hist \cup {new}
  BY <1>1
<1>5. lastSeq + 1 \in 1 .. MaxSeq
  BY <1>1, BoundsAssumption DEF Underway
<1> HIDE DEF new
<1>3. ASSUME NEW f \in Families
      PROVE  BatchesOf(hist', f) = IF f \in wfams THEN BatchesOf(hist, f) \cup {lastSeq + 1}
                                                  ELSE BatchesOf(hist, f)
  <2>1. {x \in hist' : f \in x.fams} = {x \in hist : f \in x.fams}
                                       \cup (IF f \in wfams THEN {new} ELSE {})
    BY <1>a, <1>b
  <2>2. CASE f \in wfams
    <3>1. {x \in hist' : f \in x.fams} = {x \in hist : f \in x.fams} \cup {new}
      BY <2>1, <2>2
    <3> QED
      BY <1>a, <3>1, <2>2 DEF BatchesOf
  <2>3. CASE f \notin wfams
    <3>1. {x \in hist' : f \in x.fams} = {x \in hist : f \in x.fams}
      BY <2>1, <2>3
    <3> QED
      BY <3>1, <2>3 DEF BatchesOf
  <2> QED
    BY <2>2, <2>3
<1>4. {r.seq : r \in hist'} = {r.seq : r \in hist} \cup {lastSeq + 1}
  BY <1>a, <1>b
<1>6. \A q \in {r.seq : r \in hist} : q < lastSeq + 1
  BY <1>2
<1>7. [f \in Families |-> Recoverable(f)]' =
        [f \in Families |-> IF f \in wfams \cap OnDisk
                            THEN [g \in Families |-> Recoverable(g)][f] \cup {lastSeq + 1}
                            ELSE [g \in Families |-> Recoverable(g)][f]]
  BY <1>1, <1>3, StoreBothSides
<1> QED
  BY <1>1, <1>4, <1>5, <1>6, <1>7 DEF Store!Commit

\* A family that is listed in FAMILIES is new and empty.
LEMMA InstallAdds ==
  ASSUME Inductive, Inductive', NEW f \in Families, CreateInstall(f)
  PROVE  Store!Add(f)
<1> USE DEF Inductive, Kept, Exact
<1>a. f \in creating /\ hist' = hist /\ gone' = gone /\ listed' = (live \cup {f}) \ {0}
  BY DEF CreateInstall, WriteFamilies, ghostVars
<1>b. f \notin OnDisk /\ f \notin gone /\ NoRecords(f)
  BY <1>a DEF Ids
<1>c. live = OnDisk
  BY <1>a DEF Ids, Stages
<1>1. /\ f \notin OnDisk /\ f \notin gone /\ NoRecords(f)
      /\ OnDisk' = OnDisk \cup {f} /\ hist' = hist /\ gone' = gone
  BY <1>a, <1>b, <1>c DEF OnDisk
<1>2. BatchesOf(hist, f) = {}
  BY <1>1 DEF NoRecords, BatchesOf
<1>3. [g \in Families |-> Recoverable(g)]' = [g \in Families |-> Recoverable(g)]
  BY <1>1, <1>2, StoreBothSides
<1>4. [g \in Families |-> Recoverable(g)][f] = {}
  BY <1>1 DEF Recoverable
<1> QED
  BY <1>1, <1>3, <1>4 DEF Store!Add

\* A family that is no longer listed is gone with all it held.
LEMMA DropRemoves ==
  ASSUME Inductive, Inductive', NEW f \in Families, DropFamily(f)
  PROVE  Store!Remove(f)
<1> USE DEF Inductive, Kept, Exact
<1>1. /\ f \in OnDisk \ {0} /\ OnDisk' = OnDisk \ {f} /\ hist' = hist
      /\ gone' = gone \cup {f}
  BY DEF DropFamily, WriteFamilies, Ids, OnDisk
<1>2. [g \in Families |-> Recoverable(g)]' =
        [[g \in Families |-> Recoverable(g)] EXCEPT ![f] = {}]
  BY <1>1, StoreBothSides
<1> QED
  BY <1>1, <1>2 DEF Store!Remove

\* All other steps leave the store as it is: flushes, deletions, the stages of
\* opening, a crash.
LEMMA OthersStutter ==
  ASSUME Inductive, Inductive', UNCHANGED <<hist, listed, gone>>
  PROVE  UNCHANGED Store!storeVars
<1>1. OnDisk' = OnDisk
  BY DEF OnDisk
<1>2. [f \in Families |-> Recoverable(f)]' = [f \in Families |-> Recoverable(f)]
  BY <1>1, StoreBothSides
<1> QED
  BY <1>1, <1>2 DEF Store!storeVars

\* Every step maps to a step of the store or to none.
LEMMA StoreStep == Inductive /\ Inductive' /\ [Next]_vars => [Store!StoreNext]_(Store!storeVars)
<1> SUFFICES ASSUME Inductive, Inductive', [Next]_vars
             PROVE  Store!StoreNext \/ UNCHANGED Store!storeVars
  OBVIOUS
<1>1. CASE AddRecord
  <2>1. wfams \in SUBSET Families
    BY DEF Inductive, Kept, TypeOK, ActorType
  <2>2. Store!Commit(wfams, lastSeq + 1) /\ lastSeq + 1 \in 1 .. MaxSeq
    BY <1>1, AppendCommits
  <2>3. \E fs \in SUBSET Families, q \in 1 .. MaxSeq : Store!Commit(fs, q)
    BY <2>1, <2>2 DEF Store!Commit
  <2> QED
    BY <2>3 DEF Store!StoreNext
<1>2. ASSUME NEW f \in Families, CreateInstall(f) PROVE Store!StoreNext
  BY <1>2, InstallAdds DEF Store!StoreNext
<1>3. ASSUME NEW f \in Families, Drop(f) PROVE Store!StoreNext
  BY <1>3, DropRemoves DEF Store!StoreNext, Drop
<1>4. \/ AddRecord \/ \E f \in Families : CreateInstall(f) \/ Drop(f)
      \/ UNCHANGED <<hist, listed, gone>>
  BY DEF Next, Crash, Recovery, RecoverOpen, RecoverList, ReplayLog, RecoverNewLog, RecoverApply,
      RecoverTrim, RecoverDone, Catalog, CreateBegin, DropRemoveDir, Writer, WriteBegin,
      ForceBegin, SwitchMemTable, RoomWait, RoomFound, InsertInto, ForceReturn, Background,
      FlushBuild, FlushEdit, FlushLog, FlushInstall, TrimDone, DeleteLog, vars, diskVars,
      ghostVars
<1> QED
  BY <1>1, <1>2, <1>3, <1>4, OthersStutter

\* The shared log keeps the promise of FamilyStore: a batch is committed to all
\* its families by the one step that appends its record, and no crash, flush,
\* log deletion or stage of opening is visible.
THEOREM SharedLogImplementsStore == Spec => ImplementsStore
<1>1. Inductive /\ Inductive' /\ [Next]_vars => [Store!StoreNext]_(Store!storeVars)
  BY StoreStep
<1> QED
  BY <1>1, StoreInitially, InductiveAlways, PTL DEF Spec, ImplementsStore, Store!StoreSpec
==============================================================================
