-------------------------------- MODULE Levels --------------------------------
(***************************************************************************)
(* One column family: its memtables, its tables in levels, the snapshots,  *)
(* the background thread that flushes and compacts, and a caller of        *)
(* CompactRange(nullptr, nullptr).  Reads are DBImpl::Get: they go through *)
(* the layers newest first (memtable, the one being flushed, the tables of *)
(* level 0 from the newest, then level by level) and stop where the answer *)
(* is settled.  The question is whether any snapshot can tell what the     *)
(* background thread did.                                                  *)
(*                                                                         *)
(* A compaction captures its inputs and the snapshots with mutex_ held,    *)
(* works without it, and installs its outputs with mutex_ held; a write, a *)
(* snapshot or a flush can come in between.  Sizes are abstracted: any     *)
(* table can be picked and an output can end at any key it may end at.     *)
(***************************************************************************)
EXTENDS Tables

CONSTANTS
  NumLevels,          \* config::kNumLevels
  MaxMemCompactLevel, \* config::kMaxMemCompactLevel
  Writes,             \* the writes a user may make
  WritesDuringCall,   \* may the user write while CompactRange runs?
  MaxSnapshots,       \* bound: live snapshots at a time
  MaxCalls            \* bound: calls of CompactRange

VARIABLES
  written,    \* every write so far: write number i has sequence number i
  mem, imm,   \* the two memtables
  hasImm,     \* imm != nullptr
  level0,     \* the tables of level 0, newest first
  levels,     \* the set of tables of each deeper level
  snapshots,  \* live snapshots
  comp,       \* the compaction in progress
  call,       \* the caller of CompactRange
  calls       \* calls made so far

vars == <<written, mem, imm, hasImm, level0, levels, snapshots, comp, call, calls>>

Write == [type : EntryType \cup {"range"}, begin : Keys, end : 1 .. NKeys + 1]

ASSUME KeysAssumption == NKeys \in Nat \ {0} /\ MaxSeq \in Nat
ASSUME LevelsAssumption ==
  /\ NumLevels \in Nat /\ NumLevels >= 2
  /\ MaxMemCompactLevel \in 0 .. NumLevels - 1
ASSUME WritesAssumption == Writes \subseteq Write
ASSUME BoundsAssumption ==
  /\ WritesDuringCall \in BOOLEAN /\ MaxSnapshots \in Nat /\ MaxCalls \in Nat

Deeper  == 1 .. NumLevels - 1
LastSeq == Len(written)

\* The tables of a level.
TablesAt(l) == IF l = 0 THEN ToSet(level0) ELSE levels[l]

Idle   == [level |-> 0, in0 |-> {}, in1 |-> {}, outs |-> {}, busy |-> FALSE]
NoCall == [stage |-> "none", level |-> 0, max |-> 0, from |-> 0]

Init ==
  /\ written = <<>>
  /\ mem = Empty /\ imm = Empty /\ hasImm = FALSE
  /\ level0 = <<>> /\ levels = [l \in Deeper |-> {}]
  /\ snapshots = {}
  /\ comp = Idle /\ call = NoCall /\ calls = 0

------------------------------------------------------------------------------
(* The user.                                                               *)

\* MemTable::Add: a range tombstone is kept beside the entries, and one with
\* an empty range not at all.
AddTo(M, w, s) ==
  IF w.type = "range"
  THEN [M EXCEPT !.tombs = @ \cup
          (IF w.begin < w.end
           THEN {[begin |-> w.begin, end |-> w.end, seq |-> s]} ELSE {})]
  ELSE [M EXCEPT !.entries = @ \cup
          {[key |-> w.begin, seq |-> s, type |-> w.type,
            val |-> IF w.type = "deletion" THEN <<>> ELSE <<s>>]}]

WriteOne(w) ==
  /\ LastSeq < MaxSeq
  /\ call.stage = "none" \/ WritesDuringCall
  /\ written' = Append(written, w)
  /\ mem' = AddTo(mem, w, LastSeq + 1)
  /\ UNCHANGED <<imm, hasImm, level0, levels, snapshots, comp, call, calls>>

GetSnapshot ==
  /\ LastSeq > 0 /\ LastSeq \notin snapshots
  /\ Cardinality(snapshots) < MaxSnapshots
  /\ snapshots' = snapshots \cup {LastSeq}
  /\ UNCHANGED <<written, mem, imm, hasImm, level0, levels, comp, call, calls>>

ReleaseSnapshot ==
  /\ \E s \in snapshots : snapshots' = snapshots \ {s}
  /\ UNCHANGED <<written, mem, imm, hasImm, level0, levels, comp, call, calls>>

\* MakeRoomForWrite sets the memtable aside (when depends on sizes).
Switch ==
  /\ ~hasImm
  /\ imm' = mem /\ hasImm' = TRUE
  /\ mem' = Empty

SwitchMemTable ==
  /\ mem # Empty
  /\ Switch
  /\ UNCHANGED <<written, level0, levels, snapshots, comp, call, calls>>

------------------------------------------------------------------------------
(* CompactMemTable.                                                        *)

OverlapInLevel(l, T) == \E U \in TablesAt(l) : Overlaps(U, Lo(T), Hi(T))

\* PickLevelForMemTableOutput: the deepest level with nothing of T's range in
\* it or above; it may stop earlier when too much overlaps two levels below.
PickLevel(T) ==
  IF OverlapInLevel(0, T) THEN {0}
  ELSE {l \in 0 .. MaxMemCompactLevel :
          /\ \A i \in 1 .. l : ~OverlapInLevel(i, T)
          /\ \/ l = MaxMemCompactLevel
             \/ OverlapInLevel(l + 1, T)
             \/ l + 2 < NumLevels /\ OverlapInLevel(l + 2, T)}

\* The table of imm is built and installed, also in the middle of a
\* compaction, whose version does not change.
Flush ==
  /\ hasImm
  /\ IF imm = Empty
     THEN UNCHANGED <<level0, levels>>
     ELSE \E l \in PickLevel(imm) :
            IF l = 0
            THEN level0' = <<imm>> \o level0 /\ UNCHANGED levels
            ELSE levels' = [levels EXCEPT ![l] = @ \cup {imm}] /\ UNCHANGED level0
  /\ imm' = Empty /\ hasImm' = FALSE
  /\ UNCHANGED <<written, mem, snapshots, comp, call, calls>>

------------------------------------------------------------------------------
(* BackgroundCompaction and DoCompactionWork.                              *)

\* The tables below the outputs of a compaction of level l.
Below(l) == UNION {levels[i] : i \in {j \in Deeper : j >= l + 2}}

\* The tables of s that are not in C, in their order.
Without(s, C) ==
  LET rest[n \in 0 .. Len(s)] ==
        IF n = 0 THEN <<>>
        ELSE IF s[n] \in C THEN rest[n - 1] ELSE Append(rest[n - 1], s[n])
  IN  rest[Len(s)]

\* The version edit of a compaction: C0 and C1 leave levels l and l + 1, N
\* comes into the latter.
Replace(l, C0, C1, N) ==
  /\ levels' = [i \in Deeper |->
                  IF i = l THEN levels[i] \ C0
                  ELSE IF i = l + 1 THEN (levels[i] \ C1) \cup N ELSE levels[i]]
  /\ level0' = IF l = 0 THEN Without(level0, C0) ELSE level0

\* Grandparents, whose size can make a compaction of what could be moved.
Grandparents(l, in0) ==
  IF l + 2 < NumLevels
  THEN {T \in levels[l + 2] : Overlaps(T, HullLo(in0), HullHi(in0))} ELSE {}

\* Start compacting the inputs <<in0, in1>> of levels l and l + 1: what comes
\* out is settled here, by the inputs, the snapshots and the version captured.
BeginCompaction(l, in0, in1) ==
  LET ins     == in0 \cup in1
      entries == UNION {T.entries : T \in ins}
      tombs   == UNION {T.tombs : T \in ins}
      kept    == KeptTombs(tombs, snapshots, Below(l))
  IN  \E folds \in BOOLEAN :
        LET new == CompactEntries(entries, tombs, snapshots, Below(l), folds)
        IN  \E cuts \in CutsFor({e.key : e \in entries}, new) :
              comp' = [level |-> l, in0 |-> in0, in1 |-> in1,
                       outs |-> Outputs(new, kept, cuts), busy |-> TRUE]

\* An automatic compaction: PickCompaction by size, seeks or tombstones, that
\* is, of any table above the last level.  A table with nothing below it in
\* the next level is moved there as it is.
AutoCompaction ==
  /\ ~comp.busy /\ ~hasImm /\ call.stage # "armed"
  /\ \E l \in 0 .. NumLevels - 2 :
     \E f \in TablesAt(l) :
     \E in \in Inputs(TablesAt(l), l, levels[l + 1],
                      IF l = 0 THEN Overlapping(TablesAt(0), 0, Lo(f), Hi(f))
                               ELSE {f}) :
       LET movable == Cardinality(in[1]) = 1 /\ in[2] = {}
       IN \/ /\ movable
             /\ Replace(l, in[1], {}, in[1])
             /\ UNCHANGED comp
          \/ /\ ~movable \/ Grandparents(l, in[1]) # {}
             /\ BeginCompaction(l, in[1], in[2])
             /\ UNCHANGED <<level0, levels>>
  /\ UNCHANGED <<written, mem, imm, hasImm, snapshots, call, calls>>

\* InstallCompactionResults.
InstallCompaction ==
  /\ comp.busy
  /\ Replace(comp.level, comp.in0, comp.in1, comp.outs)
  /\ comp' = Idle
  /\ call' = IF call.stage = "running" THEN [call EXCEPT !.stage = "ready"]
                                       ELSE call
  /\ UNCHANGED <<written, mem, imm, hasImm, snapshots, calls>>

------------------------------------------------------------------------------
(* CompactRange(nullptr, nullptr): flush the memtable, then one level after *)
(* the other, down to the last that held tables when the call began.       *)

CallBegin ==
  /\ call.stage = "none" /\ calls < MaxCalls
  /\ calls' = calls + 1
  /\ call' = [NoCall EXCEPT !.stage = "force",
                            !.max = Max({1} \cup {l \in Deeper : levels[l] # {}})]
  /\ UNCHANGED <<written, mem, imm, hasImm, level0, levels, snapshots, comp>>

\* TEST_CompactMemTable: the memtable is set aside, empty or not.
CallForce ==
  /\ call.stage = "force"
  /\ Switch
  /\ call' = [call EXCEPT !.stage = "wait"]
  /\ UNCHANGED <<written, level0, levels, snapshots, comp, calls>>

CallFlushed ==
  /\ call.stage = "wait"
  /\ ~hasImm
  /\ call' = [call EXCEPT !.stage = "ready"]
  /\ UNCHANGED <<written, mem, imm, hasImm, level0, levels, snapshots, comp, calls>>

\* TEST_CompactRange hands its request to the background thread ...
CallArm ==
  /\ call.stage = "ready"
  /\ call' = [call EXCEPT !.stage = "armed"]
  /\ UNCHANGED <<written, mem, imm, hasImm, level0, levels, snapshots, comp, calls>>

\* ... which compacts the tables from where the last request ended; in a level
\* below 0, as many of the first of them as their sizes allow.
ManualTables == Overlapping(TablesAt(call.level), call.level, call.from, KeyEnd)

FirstOf(S) ==
  IF call.level = 0 THEN {S} ELSE {{T \in S : Lo(T) <= Lo(x)} : x \in S}

ManualCompaction ==
  /\ call.stage = "armed" /\ ~comp.busy /\ ~hasImm
  /\ ManualTables # {}
  /\ \E picked \in FirstOf(ManualTables) :
     \E in \in Inputs(TablesAt(call.level), call.level,
                      levels[call.level + 1], picked) :
       /\ BeginCompaction(call.level, in[1], in[2])
       /\ \E T \in in[1] : /\ \A U \in in[1] : Lo(U) <= Lo(T)
                           /\ call' = [call EXCEPT !.stage = "running",
                                                   !.from = Hi(T)]
  /\ UNCHANGED <<written, mem, imm, hasImm, level0, levels, snapshots, calls>>

\* Bug: the next level is compacted from where the last one ended.
ManualDoneFromThere ==
  /\ call.stage = "armed" /\ ~comp.busy /\ ~hasImm
  /\ ManualTables = {}
  /\ call' = IF call.level + 1 < call.max
             THEN [call EXCEPT !.stage = "ready", !.level = @ + 1]
             ELSE NoCall
  /\ UNCHANGED <<written, mem, imm, hasImm, level0, levels, snapshots, comp, calls>>

\* No table of the level is left: the next level, or the end of the call.
ManualDone ==
  /\ call.stage = "armed" /\ ~comp.busy /\ ~hasImm
  /\ ManualTables = {}
  /\ call' = IF call.level + 1 < call.max
             THEN [call EXCEPT !.stage = "ready", !.level = @ + 1, !.from = 0]
             ELSE NoCall
  /\ UNCHANGED <<written, mem, imm, hasImm, level0, levels, snapshots, comp, calls>>

------------------------------------------------------------------------------
User       == \/ \E w \in Writes : WriteOne(w)
              \/ GetSnapshot \/ ReleaseSnapshot \/ SwitchMemTable
Caller     == CallForce \/ CallFlushed \/ CallArm
Background == \/ Flush \/ AutoCompaction \/ InstallCompaction
              \/ ManualCompaction \/ ManualDone

Next == User \/ CallBegin \/ Caller \/ Background

Spec == Init /\ [][Next]_vars

------------------------------------------------------------------------------
(* Reads: the layers, and DBImpl::Get.                                     *)

\* The layers: 1 is mem, 2 is imm, then level 0 newest first, then the levels.
LayerCount == 2 + Len(level0) + NumLevels - 1
LevelOf(i) == i - 2 - Len(level0)

LayerTables(i) ==
  IF i = 1 THEN {mem} ELSE IF i = 2 THEN {imm}
  ELSE IF i <= 2 + Len(level0) THEN {level0[i - 2]} ELSE levels[LevelOf(i)]

LayerTombs(i) == UNION {T.tombs : T \in LayerTables(i)}

\* FindFile: the first table of a level whose `largest` is not before key k.
FindFile(S, k) ==
  LET reach == {T \in S : k < Hi(T) \/ (k = Hi(T) /\ ~Open(T))}
  IN  {T \in reach : \A U \in reach : Lo(T) <= Lo(U)}

\* The entries of key k that a lookup can meet in layer i.
LayerEntries(i, k) ==
  LET S == IF i <= 2 + Len(level0) THEN LayerTables(i)
                                   ELSE FindFile(LayerTables(i), k)
  IN  {e \in UNION {T.entries : T \in S} : e.key = k}

\* A tombstone of a newer layer hides all of layer i from a reader at r.
HiddenBelow(i, k, r) ==
  \E j \in 1 .. i - 1 : \E t \in LayerTombs(j) : Covers(t, k) /\ t.seq <= r

\* LookupState::Add takes e for a deletion: some tombstone visible at r is
\* newer.
TakenDeleted(e, r) ==
  \/ e.type = "deletion"
  \/ \E i \in 1 .. LayerCount : \E t \in LayerTombs(i) :
       Covers(t, e.key) /\ e.seq < t.seq /\ t.seq <= r

\* What a reader at r meets in layer i.
Met(i, k, r) ==
  IF HiddenBelow(i, k, r) THEN {} ELSE {e \in LayerEntries(i, k) : e.seq <= r}

\* It reads no further than the first entry that settles the answer; of those
\* it has read, these contribute to it.
Found(i, k, r) ==
  {e \in Met(i, k, r) :
     /\ ~TakenDeleted(e, r)
     /\ \A j \in 1 .. i : \A y \in Met(j, k, r) :
          y.type # "merge" \/ TakenDeleted(y, r) => j = i /\ y.seq <= e.seq}

\* What DBImpl::Get returns for key k at r (<<>> is NotFound): entry by entry,
\* layer by layer, newest first; operands wait for those below them.
Get(k, r) ==
  FlattenSeq([n \in 1 .. LayerCount |-> Folded(Found(LayerCount + 1 - n, k, r))])

------------------------------------------------------------------------------
(* Properties.                                                             *)

Compaction == [level : Nat, in0 : SUBSET Table, in1 : SUBSET Table,
               outs : SUBSET Table, busy : BOOLEAN]
Call == [stage : {"none", "force", "wait", "ready", "armed", "running"},
         level : Nat, max : Nat, from : Nat]

TableOK(T) ==
  /\ \A e \in T.entries : /\ e.key \in Keys /\ e.seq \in Seqs
                          /\ e.type \in EntryType /\ e.val \in Seq(Seqs)
  /\ T.tombs \subseteq Tombstone

TypeOK ==
  /\ written \in Seq(Writes) /\ LastSeq <= MaxSeq
  /\ TableOK(mem) /\ TableOK(imm) /\ hasImm \in BOOLEAN
  /\ \A T \in ToSet(level0) : T # Empty /\ TableOK(T)
  /\ DOMAIN levels = Deeper
  /\ \A l \in Deeper : \A T \in levels[l] : T # Empty /\ TableOK(T)
  /\ snapshots \subseteq 1 .. LastSeq
  /\ comp.level \in 0 .. NumLevels - 2 /\ comp.busy \in BOOLEAN
  /\ \A T \in comp.in0 \cup comp.in1 \cup comp.outs : TableOK(T)
  /\ call \in Call /\ calls \in 0 .. MaxCalls

\* Write number i puts an end to what key k held.
Wipes(i, k) ==
  LET w == written[i]
  IN  IF w.type = "range" THEN w.begin <= k /\ k < w.end
      ELSE w.type # "merge" /\ w.begin = k

\* Write number i is part of the value of key k for a reader at r, by the rule of
\* the specification: the newest visible Put, and the operands since then,
\* unless a Delete or a range delete came later.
Counts(i, k, r) ==
  /\ written[i].begin = k /\ written[i].type \in {"value", "merge"}
  /\ \A j \in i + 1 .. r : ~Wipes(j, k)

\* That value, oldest first.
Reference(k, r) ==
  FlattenSeq([i \in 1 .. r |-> IF Counts(i, k, r) THEN <<i>> ELSE <<>>])

\* Every reader, at every live snapshot or at the latest sequence number,
\* gets exactly what was written before it, whatever was flushed, moved and
\* compacted since and wherever tombstones and operands ended up (DBImpl::Get,
\* DoCompactionWork).
ReadsExact ==
  \A r \in snapshots \cup {LastSeq}, k \in Keys : Get(k, r) = Reference(k, r)

\* Sequence numbers of the entries and tombstones of key k in a layer.
LayerSeqs(i, k) ==
  UNION {{e.seq : e \in {x \in T.entries : x.key = k}} \cup
         {t.seq : t \in {x \in T.tombs : Covers(x, k)}} : T \in LayerTables(i)}

\* For any key, what a layer holds is older than what every newer layer holds,
\* tombstones included: lookups stop, and hide whole layers, on the strength
\* of this.
LayerOrder ==
  \A k \in Keys : \A i, j \in 1 .. LayerCount :
    i < j => \A s \in LayerSeqs(i, k), q \in LayerSeqs(j, k) : q < s

\* Tables of a level below 0 do not overlap, so that a lookup may look at one
\* of them only; the cut ends of their tombstones included.
LevelsDisjoint ==
  \A l \in Deeper : \A T, U \in levels[l] :
    T # U => Precedes(T, U) \/ Precedes(U, T)

\* Plain tables: one value for a key, no deletions and no tombstones.
Plain(S) ==
  /\ \A T \in S : T.tombs = {}
  /\ \A x, y \in UNION {T.entries : T \in S} :
       x.type = "value" /\ (x.key = y.key => x = y)

\* A compaction with no live snapshot and nothing deeper in its way leaves one
\* plain value per key: operands are folded, deletions and tombstones gone
\* with all that they hid (compact_group, the tombstones' drop rule).
BaseIsPlain ==
  [][~comp.busy /\ comp'.busy /\ snapshots = {} /\ Below(comp'.level) = {}
       => Plain(comp'.outs)]_vars

\* "After CompactRange(nullptr, nullptr) with no live snapshot, the data a
\* range delete covers is gone from the table files, not merely hidden."
RangeDeletedGone ==
  [][call.stage # "none" /\ call'.stage = "none" /\ snapshots = {} =>
       \A l \in 0 .. NumLevels - 1 : \A T \in TablesAt(l) : \A e \in T.entries :
         ~\E i \in e.seq + 1 .. LastSeq :
            written[i].type = "range" /\ Wipes(i, e.key)]_vars

\* CompactRange leaves nothing in the levels above the deepest that held tables
\* when it was called, when nobody writes meanwhile (TEST_CompactRange's
\* requests advance through each level and start over in the next one).
CallEmptiesLevels ==
  [][call.stage # "none" /\ call'.stage = "none" /\ ~WritesDuringCall =>
       \A l \in 0 .. call.max - 1 : TablesAt(l) = {}]_vars
==============================================================================
