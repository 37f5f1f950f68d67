---------------------------- MODULE BenchEnvProofs ----------------------------
(***************************************************************************)
(* Theorems of BenchEnv: the bookkeeping of jobs, the injector and what a  *)
(* killed process leaves in its files, for any number of jobs, any files,  *)
(* buffers and any setting of the injector.                                *)
(***************************************************************************)
EXTENDS BenchEnv, TLAPS

\* The types of the variables that the jobs are counted in.
JobTypes ==
  /\ queue \in Nat /\ pending \in Nat /\ scheduled \in Nat /\ jobsRun \in Nat
  /\ stop \in BOOLEAN
  /\ worker \in {"asleep", "awake", "running", "exited"}
  /\ main \in {"free", "waiting", "woken", "idle", "joining", "gone"}

\* pending_ counts the jobs that are queued and the one that runs.
PendingExact == pending = queue + (IF worker = "running" THEN 1 ELSE 0)

\* Every job that was scheduled has run or is still counted.
NoneForgotten == scheduled = jobsRun + pending

\* The caller that WaitIdle let go has scheduled nothing since.
NoJobsWhenIdle == main = "idle" => pending = 0

\* The worker leaves only when told to and with nothing left to do; it is told
\* by a main thread that then schedules nothing any more.
LeavesLast ==
  /\ worker = "exited" /\ alive => stop /\ queue = 0
  /\ stop => main \in {"joining", "gone"}
  /\ main = "gone" /\ alive => worker = "exited"

JobInv == JobTypes /\ PendingExact /\ NoneForgotten /\ NoJobsWhenIdle /\ LeavesLast

LEMMA JobInvInit == Init => JobInv
<1> SUFFICES ASSUME Init PROVE JobInv
  OBVIOUS
<1>1. JobTypes /\ PendingExact /\ NoneForgotten /\ NoJobsWhenIdle
  <2>1. stop \in BOOLEAN
    BY Zenon DEF Init
  <2> QED
    BY <2>1 DEF Init, JobTypes, PendingExact, NoneForgotten, NoJobsWhenIdle
<1>2. LeavesLast
  BY Zenon DEF Init, LeavesLast
<1> QED
  BY <1>1, <1>2 DEF JobInv

\* A killed process has no jobs, no threads and nothing to wait for.
LEMMA KilledJobs ==
  ASSUME NEW by \in {"cue", "outside"}, Killed(by)
  PROVE  JobInv'
<1>1. (JobTypes /\ PendingExact /\ NoneForgotten /\ NoJobsWhenIdle)'
  <2>1. stop' \in BOOLEAN
    BY Zenon DEF Killed
  <2>2. /\ queue' = 0 /\ pending' = 0 /\ scheduled' = 0 /\ jobsRun' = 0
        /\ worker' = "exited" /\ main' = "gone"
    BY DEF Killed
  <2> QED
    BY <2>1, <2>2 DEF JobTypes, PendingExact, NoneForgotten, NoJobsWhenIdle
<1>2. LeavesLast'
  <2>1. ~alive'
    BY DEF Killed, alive
  <2>2. ~stop'
    BY Zenon DEF Killed
  <2> QED
    BY <2>1, <2>2 DEF LeavesLast
<1> QED
  BY <1>1, <1>2 DEF JobInv

\* A step that leaves the jobs alone.
LEMMA JobsUntouched ==
  ASSUME JobInv, UNCHANGED <<jobVars, fate>>
  PROVE  JobInv'
BY DEF jobVars, JobInv, JobTypes, PendingExact, NoneForgotten, NoJobsWhenIdle,
       LeavesLast, alive

LEMMA JobInvStep == JobInv /\ [Next]_vars => JobInv'
<1> SUFFICES ASSUME JobInv, [Next]_vars PROVE JobInv'
  OBVIOUS
<1> USE DEF JobInv, JobTypes, PendingExact, NoneForgotten, NoJobsWhenIdle,
            LeavesLast, alive
<1>1. ASSUME NEW f \in Files, NEW kind \in Does[f], NEW n \in 0 .. MaxBytes[f],
             BeginOp(f, kind, n)
      PROVE  JobInv'
  BY <1>1, KilledJobs, JobsUntouched DEF BeginOp
<1>2. ASSUME NEW f \in Files, Perform(f) PROVE JobInv'
  BY <1>2, JobsUntouched DEF Perform
<1>3. ASSUME NEW f \in Files, EndOp(f) PROVE JobInv'
  BY <1>3, KilledJobs, JobsUntouched DEF EndOp
<1>4. CASE Kill
  BY <1>4, KilledJobs DEF Kill
<1>5. CASE Schedule
  BY <1>5 DEF Schedule, MainFree
<1>6. CASE WorkerSleeps
  BY <1>6 DEF WorkerSleeps
<1>7. CASE WorkerExits
  BY <1>7 DEF WorkerExits
<1>8. CASE TakeJob
  BY <1>8 DEF TakeJob
<1>9. CASE FinishJob
  BY <1>9 DEF FinishJob
<1>10. CASE WaitIdleReturns
  BY <1>10 DEF WaitIdleReturns, MainFree
<1>11. CASE WaitIdleWaits
  BY <1>11 DEF WaitIdleWaits, MainFree
<1>12. CASE GoOn
  BY <1>12 DEF GoOn
<1>13. CASE Arm
  BY <1>13, JobsUntouched DEF Arm
<1>14. CASE Disarm
  BY <1>14, JobsUntouched DEF Disarm
<1>15. CASE Destroy
  BY <1>15 DEF Destroy, MainFree
<1>16. CASE Joined
  BY <1>16 DEF Joined
<1>17. CASE UNCHANGED vars
  BY <1>17, JobsUntouched DEF vars
<1> QED
  BY <1>1, <1>2, <1>3, <1>4, <1>5, <1>6, <1>7, <1>8, <1>9, <1>10, <1>11,
     <1>12, <1>13, <1>14, <1>15, <1>16, <1>17 DEF Next

\* WaitIdle (bench_env.h:567) returns only when no job is queued or running,
\* those that other jobs scheduled included.
THEOREM WaitIdleIsIdle == Spec => []IdleMeansIdle
<1>1. JobInv => IdleMeansIdle
  BY DEF JobInv, JobTypes, PendingExact, NoneForgotten, NoJobsWhenIdle, IdleMeansIdle
<1> QED
  BY <1>1, JobInvInit, JobInvStep, PTL DEF Spec

\* ~BenchEnv (bench_env.h:382) has run every job that was scheduled when the
\* worker is joined.
AllJobsRun == main = "gone" /\ alive => queue = 0 /\ jobsRun = scheduled

\* Every job scheduled before or during ~BenchEnv has run when the destructor
\* has joined the worker.
THEOREM DestructorDrains == Spec => []AllJobsRun
<1>1. JobInv => AllJobsRun
  BY DEF JobInv, JobTypes, PendingExact, NoneForgotten, LeavesLast, AllJobsRun
<1> QED
  BY <1>1, JobInvInit, JobInvStep, PTL DEF Spec

-----------------------------------------------------------------------------
\* The injector.

Stages == {"none", "before", "after"}

OpTypes ==
  /\ count \in Nat /\ hits \in Nat /\ armed \in BOOLEAN /\ cue \in Cues
  /\ fate \in {"alive", "cue", "outside"}
  /\ op \in [Files -> [kind : Ops \cup {"none"}, n : Nat, stage : Stages,
                       counted : BOOLEAN, ok : BOOLEAN]]
  /\ \A f \in Files : op[f].stage = "none" <=> Idle(f)

\* An operation is made by the thread that works on the file, which waits,
\* returns or leaves only between two of them.
OpsHaveThreads ==
  /\ main # "free" => Idle("log")
  /\ worker # "running" => Idle("table")

\* An operation is counted as its event is, from its begin to its end.
CountedRightly ==
  \A f \in Files : ~Idle(f) =>
    /\ op[f].kind \in Does[f]
    /\ op[f].counted = Counts(Event(f, op[f].kind))

\* Events that were counted and are not yet performed.
Ahead == IF \E f \in Files : op[f].counted /\ op[f].stage = "before" THEN 1 ELSE 0

CueInv ==
  /\ OpTypes /\ OpsHaveThreads /\ CountedRightly
  /\ alive => /\ count = hits + Ahead
              /\ count <= cue.n
              /\ count = cue.n => cue.after /\ \E f \in Files : op[f].counted
  /\ fate = "cue" => hits = IF cue.after THEN cue.n ELSE cue.n - 1

\* The operations on one file are the only ones that the injector counts.
LEMMA CueOwner ==
  ASSUME OpTypes
  PROVE  \E F \in Files : \A g \in Files \ {F} : \A kind \in Does[g] :
           ~Counts(Event(g, kind))
BY CuesAssumption DEF OpTypes, Counts

\* Of those, the one in progress is the only one that can be counted.
LEMMA OthersUncounted ==
  ASSUME OpTypes, CountedRightly, NEW F \in Files,
         \A g \in Files \ {F} : \A kind \in Does[g] : ~Counts(Event(g, kind))
  PROVE  \A g \in Files \ {F} : ~op[g].counted
BY DEF OpTypes, CountedRightly, Idle, NoOp

LEMMA NoOpFields == NoOp.stage = "none" /\ NoOp.counted = FALSE
BY DEF NoOp

LEMMA CueInvInit == Init => CueInv
<1> SUFFICES ASSUME Init PROVE CueInv
  OBVIOUS
<1>1. armed \in BOOLEAN
  BY Zenon DEF Init
<1>2. \A f \in Files : op[f] = NoOp
  BY DEF Init
<1>3. OpTypes
  BY <1>1, CuesAssumption DEF Init, OpTypes, NoOp, Stages, Idle
<1>4. OpsHaveThreads /\ CountedRightly
  BY <1>2 DEF OpsHaveThreads, CountedRightly, Idle, Files
<1>5. count = 0 /\ hits = 0 /\ Ahead = 0 /\ fate = "alive"
  BY <1>2 DEF Init, Ahead, NoOp
<1>6. cue.n \in Nat \ {0}
  BY <1>3, CuesAssumption DEF OpTypes
<1> QED
  BY <1>3, <1>4, <1>5, <1>6 DEF CueInv, alive

\* A process that dies leaves no operation in progress.
LEMMA KilledCue ==
  ASSUME CueInv, NEW by \in {"cue", "outside"}, Killed(by),
         count' \in Nat, UNCHANGED <<cue, armed, hits>>,
         by = "cue" => hits = IF cue.after THEN cue.n ELSE cue.n - 1
  PROVE  CueInv'
<1>1. \A f \in Files : op'[f] = NoOp
  BY DEF Killed
<1>2. fate' = by /\ ~alive'
  BY DEF Killed, alive
<1>3. OpTypes'
  <2>1. armed' \in BOOLEAN
    BY Zenon DEF CueInv, OpTypes
  <2> QED
    BY <1>1, <1>2, <2>1 DEF CueInv, OpTypes, Killed, NoOp, Stages, Idle
<1>4. (OpsHaveThreads /\ CountedRightly)'
  BY <1>1 DEF OpsHaveThreads, CountedRightly, Idle, Files
<1> QED
  BY <1>2, <1>3, <1>4 DEF CueInv

\* A step of the jobs that starts no operation and counts nothing.
LEMMA CueUntouched ==
  ASSUME CueInv, UNCHANGED <<op, cue, armed, count, hits, fate>>, OpsHaveThreads'
  PROVE  CueInv'
<1>1. OpTypes'
  BY DEF CueInv, OpTypes, Idle
<1>2. CountedRightly'
  BY DEF CueInv, CountedRightly, Idle, Counts
<1>3. Ahead' = Ahead /\ alive' = alive
  BY DEF Ahead, alive
<1> QED
  BY <1>1, <1>2, <1>3 DEF CueInv

LEMMA CueBegin ==
  ASSUME CueInv, NEW f \in Files, NEW kind \in Does[f], NEW n \in 0 .. MaxBytes[f],
         BeginOp(f, kind, n)
  PROVE  CueInv'
<1> DEFINE e == Event(f, kind)
<1>0. OpTypes /\ CountedRightly /\ OpsHaveThreads /\ cue.n \in Nat \ {0}
  BY CuesAssumption DEF CueInv, OpTypes
<1>1. /\ alive /\ Idle(f) /\ count \in Nat
      /\ f = "log" => main = "free"
      /\ f = "table" => worker = "running"
  BY <1>0 DEF BeginOp, Works, OpTypes, Files
<1>2. PICK F \in Files : \A g \in Files \ {F} : \A k \in Does[g] :
               ~Counts(Event(g, k))
  BY <1>0, CueOwner
<1>3. \A g \in Files \ {F} : ~op[g].counted
  BY <1>0, <1>2, OthersUncounted
<1>4. count' = IF Counts(e) THEN count + 1 ELSE count
  BY DEF BeginOp
<1>5. UNCHANGED <<cue, armed, hits>>
  BY DEF BeginOp
<1>6. Counts(e) => f = F
  BY <1>2
<1>7. Counts(e) => Ahead = 0 /\ count = hits /\ count < cue.n
  <2> HAVE Counts(e)
  <2>1. \A g \in Files : ~op[g].counted
    BY <1>1, <1>3, <1>6 DEF Idle, NoOp
  <2> QED
    BY <1>0, <1>1, <2>1 DEF CueInv, Ahead, OpTypes
<1>8. CASE DiesBefore(e)
  <2>1. Killed("cue")
    BY <1>8 DEF BeginOp
  <2>2. hits = IF cue.after THEN cue.n ELSE cue.n - 1
    BY <1>0, <1>1, <1>7, <1>8 DEF DiesBefore
  <2> QED
    BY <1>1, <1>4, <1>5, <2>1, <2>2, KilledCue
<1>9. CASE ~DiesBefore(e)
  <2> DEFINE new == [kind |-> kind, n |-> n, stage |-> "before",
                     counted |-> Counts(e), ok |-> TRUE]
  <2>1. op' = [op EXCEPT ![f] = new] /\ UNCHANGED <<main, worker, fate>>
    BY <1>9 DEF BeginOp, jobVars
  <2>2. kind \in Ops /\ n \in Nat
    BY FilesAssumption
  <2>3. OpTypes'
    <3>1. armed' \in BOOLEAN /\ Counts(e) \in BOOLEAN
      BY <1>0, <1>5, Zenon DEF OpTypes, Counts
    <3>2. count' \in Nat
      BY <1>1, <1>4
    <3>3. new \in [kind : Ops \cup {"none"}, n : Nat, stage : Stages,
                   counted : BOOLEAN, ok : BOOLEAN]
      BY <2>2, <3>1 DEF Stages
    <3>4. \A g \in Files : op'[g].stage = "none" <=> op'[g] = NoOp
      BY <1>0, <2>1 DEF OpTypes, Idle, NoOp
    <3> QED
      BY <1>0, <1>5, <2>1, <3>1, <3>2, <3>3, <3>4 DEF OpTypes, Idle
  <2>4. OpsHaveThreads'
    BY <1>0, <1>1, <2>1 DEF OpsHaveThreads, OpTypes, Idle, Files
  <2>5. CountedRightly'
    BY <1>0, <1>5, <2>1 DEF CountedRightly, OpTypes, Idle, Counts
  <2>6. CASE Counts(e)
    <3>1. op'[f].counted /\ op'[f].stage = "before"
      BY <1>0, <2>1, <2>6 DEF OpTypes
    <3>2. Ahead' = 1
      BY <3>1 DEF Ahead
    <3>3. count' = hits' + 1 /\ count' <= cue'.n
      BY <1>0, <1>1, <1>4, <1>5, <1>7, <2>6
    <3>4. count' = cue'.n => cue'.after
      BY <1>4, <1>5, <1>9, <2>6 DEF DiesBefore
    <3> QED
      BY <1>1, <2>1, <2>3, <2>4, <2>5, <3>1, <3>2, <3>3, <3>4 DEF CueInv, alive
  <2>7. CASE ~Counts(e)
    <3>1. \A g \in Files : op'[g].counted <=> op[g].counted
      BY <1>0, <1>1, <2>1, <2>7 DEF OpTypes, Idle, NoOp
    <3>2. Ahead' = Ahead
      BY <1>0, <1>1, <2>1, <2>7 DEF Ahead, OpTypes, Idle, NoOp
    <3>3. count' = count
      BY <1>4, <2>7
    <3> QED
      BY <1>1, <1>5, <2>1, <2>3, <2>4, <2>5, <3>1, <3>2, <3>3 DEF CueInv, alive
  <2> QED
    BY <2>6, <2>7
<1> QED
  BY <1>8, <1>9

LEMMA CuePerform ==
  ASSUME CueInv, NEW f \in Files, Perform(f)
  PROVE  CueInv'
<1>0. OpTypes /\ CountedRightly /\ OpsHaveThreads
  BY DEF CueInv
<1>1. /\ alive /\ op[f].stage = "before" /\ UNCHANGED <<main, worker, cue, armed, count, fate>>
      /\ hits' = IF op[f].counted THEN hits + 1 ELSE hits
  BY DEF Perform, Works, jobVars
<1>2. PICK ok \in BOOLEAN : op' = [op EXCEPT ![f] = [op[f] EXCEPT !.stage = "after", !.ok = ok]]
  <2>1. op' = [op EXCEPT ![f].stage = "after"] \/ op' = [op EXCEPT ![f].stage = "after", ![f].ok = FALSE]
    BY DEF Perform
  <2>2. op[f].ok \in BOOLEAN
    BY <1>0, Zenon DEF OpTypes
  <2>3. CASE op' = [op EXCEPT ![f].stage = "after"]
    <3>1. op' = [op EXCEPT ![f] = [op[f] EXCEPT !.stage = "after", !.ok = op[f].ok]]
      BY <1>0, <2>3 DEF OpTypes
    <3> QED
      BY <2>2, <3>1
  <2>4. CASE op' = [op EXCEPT ![f].stage = "after", ![f].ok = FALSE]
    <3>1. op' = [op EXCEPT ![f] = [op[f] EXCEPT !.stage = "after", !.ok = FALSE]]
      BY <1>0, <2>4 DEF OpTypes
    <3> QED
      BY <3>1
  <2> QED
    BY <2>1, <2>3, <2>4
<1>3. op'[f].stage = "after" /\ op'[f].counted = op[f].counted /\ op'[f].kind = op[f].kind
  BY <1>0, <1>2 DEF OpTypes
<1>4. \A g \in Files \ {f} : op'[g] = op[g]
  BY <1>0, <1>2 DEF OpTypes
<1>5. PICK F \in Files : \A g \in Files \ {F} : \A k \in Does[g] :
               ~Counts(Event(g, k))
  BY <1>0, CueOwner
<1>6. \A g \in Files \ {F} : ~op[g].counted
  BY <1>0, <1>5, OthersUncounted
<1>7. OpTypes'
  <2>1. armed' \in BOOLEAN
    BY <1>0, <1>1, Zenon DEF OpTypes
  <2>2. \A g \in Files : op'[g].stage = "none" <=> op'[g] = NoOp
    BY <1>0, <1>3, <1>4, NoOpFields DEF OpTypes, Idle
  <2>3. [op[f] EXCEPT !.stage = "after", !.ok = ok]
          \in [kind : Ops \cup {"none"}, n : Nat, stage : Stages,
              counted : BOOLEAN, ok : BOOLEAN]
    BY <1>0 DEF OpTypes, Stages
  <2> QED
    BY <1>0, <1>1, <1>2, <2>1, <2>2, <2>3 DEF OpTypes, Idle
<1>8. OpsHaveThreads'
  BY <1>0, <1>1, <1>4 DEF OpsHaveThreads, Idle, Files, OpTypes, NoOp
<1>9. CountedRightly'
  <2>1. op[f] # NoOp
    BY <1>1, NoOpFields
  <2> QED
    BY <1>0, <1>1, <1>3, <1>4, <2>1 DEF CountedRightly, Idle, Counts
<1>10. Ahead' = IF op[f].counted THEN Ahead - 1 ELSE Ahead
  BY <1>1, <1>3, <1>4, <1>6 DEF Ahead
<1>11. /\ count = hits + Ahead
       /\ hits \in Nat
       /\ op[f].counted => Ahead = 1
  BY <1>0, <1>1 DEF CueInv, OpTypes, Ahead
<1>12. \A g \in Files : op'[g].counted = op[g].counted
  BY <1>3, <1>4
<1> QED
  BY <1>1, <1>7, <1>8, <1>9, <1>10, <1>11, <1>12 DEF CueInv, alive

LEMMA CueEnd ==
  ASSUME CueInv, NEW f \in Files, EndOp(f)
  PROVE  CueInv'
<1> DEFINE e == Event(f, op[f].kind)
<1>0. OpTypes /\ CountedRightly /\ OpsHaveThreads
  BY DEF CueInv
<1>1. alive /\ op[f].stage = "after" /\ ~Idle(f) /\ UNCHANGED <<cue, armed, count, hits>>
  BY <1>0 DEF EndOp, Works, cueVars, OpTypes, Stages
<1>2. PICK F \in Files : \A g \in Files \ {F} : \A k \in Does[g] :
               ~Counts(Event(g, k))
  BY <1>0, CueOwner
<1>3. \A g \in Files \ {F} : ~op[g].counted
  BY <1>0, <1>2, OthersUncounted
<1>4. op[f].counted = Counts(e)
  BY <1>0, <1>1 DEF CountedRightly
<1>5. op[f].counted => Ahead = 0 /\ count = hits
  <2> HAVE op[f].counted
  <2>1. f = F
    BY <1>3
  <2> QED
    BY <1>1, <1>3, <2>1 DEF CueInv, Ahead, OpTypes
<1>6. CASE DiesAfter(e)
  <2>1. Killed("cue")
    BY <1>6 DEF EndOp
  <2>2. hits = IF cue.after THEN cue.n ELSE cue.n - 1
    BY <1>4, <1>5, <1>6 DEF DiesAfter
  <2> QED
    BY <1>0, <1>1, <2>1, <2>2, KilledCue DEF OpTypes
<1>7. CASE ~DiesAfter(e)
  <2>1. op' = [op EXCEPT ![f] = NoOp] /\ UNCHANGED <<main, worker, fate>>
    BY <1>7 DEF EndOp, jobVars
  <2>2. op'[f] = NoOp /\ \A g \in Files \ {f} : op'[g] = op[g]
    BY <1>0, <2>1 DEF OpTypes
  <2>3. OpTypes'
    <3>1. armed' \in BOOLEAN
      BY <1>0, <1>1, Zenon DEF OpTypes
    <3>2. NoOp \in [kind : Ops \cup {"none"}, n : Nat, stage : Stages,
                    counted : BOOLEAN, ok : BOOLEAN]
      BY DEF NoOp, Stages
    <3>3. \A g \in Files : op'[g].stage = "none" <=> op'[g] = NoOp
      BY <1>0, <2>2, NoOpFields DEF OpTypes, Idle
    <3> QED
      BY <1>0, <1>1, <2>1, <3>1, <3>2, <3>3 DEF OpTypes, Idle
  <2>4. OpsHaveThreads'
    BY <1>0, <2>1, <2>2 DEF OpsHaveThreads, Idle, Files
  <2>5. CountedRightly'
    BY <1>0, <1>1, <2>2 DEF CountedRightly, Idle, Counts
  <2>6. Ahead' = Ahead
    BY <1>1, <2>2 DEF Ahead, NoOp
  <2>7. count = cue.n => cue.after /\ \E g \in Files : op'[g].counted
    <3> HAVE count = cue.n
    <3>1. PICK g \in Files : op[g].counted /\ cue.after
      BY <1>1 DEF CueInv
    <3>2. g # f
      BY <1>4, <1>7, <3>1 DEF DiesAfter
    <3> QED
      BY <2>2, <3>1, <3>2
  <2> QED
    BY <1>1, <2>1, <2>3, <2>4, <2>5, <2>6, <2>7 DEF CueInv, alive
<1> QED
  BY <1>6, <1>7

\* The injector is armed and disarmed while no operation is in progress: the
\* caller of WaitIdle makes none, and no job runs.
LEMMA NothingInProgress ==
  ASSUME JobInv, CueInv, main = "idle"
  PROVE  \A f \in Files : Idle(f)
<1>1. worker # "running"
  BY DEF JobInv, JobTypes, PendingExact, NoJobsWhenIdle
<1> QED
  BY <1>1 DEF CueInv, OpsHaveThreads, Files

LEMMA CueInvStep == JobInv /\ CueInv /\ [Next]_vars => CueInv'
<1> SUFFICES ASSUME JobInv, CueInv, [Next]_vars PROVE CueInv'
  OBVIOUS
<1>0. OpsHaveThreads
  BY DEF CueInv
<1>1. ASSUME NEW f \in Files, NEW kind \in Does[f], NEW n \in 0 .. MaxBytes[f],
             BeginOp(f, kind, n)
      PROVE  CueInv'
  BY <1>1, CueBegin
<1>2. ASSUME NEW f \in Files, Perform(f) PROVE CueInv'
  BY <1>2, CuePerform
<1>3. ASSUME NEW f \in Files, EndOp(f) PROVE CueInv'
  BY <1>3, CueEnd
<1>4. CASE Kill
  BY <1>4, KilledCue DEF Kill, cueVars, CueInv, OpTypes
<1>5. CASE Schedule
  BY <1>0, <1>5, CueUntouched DEF Schedule, fileVars, cueVars, OpsHaveThreads, Idle, MainFree
<1>6. CASE WorkerSleeps
  BY <1>0, <1>6, CueUntouched DEF WorkerSleeps, fileVars, cueVars, OpsHaveThreads, Idle
<1>7. CASE WorkerExits
  BY <1>0, <1>7, CueUntouched DEF WorkerExits, fileVars, cueVars, OpsHaveThreads, Idle
<1>8. CASE TakeJob
  BY <1>0, <1>8, CueUntouched DEF TakeJob, fileVars, cueVars, OpsHaveThreads, Idle
<1>9. CASE FinishJob
  BY <1>0, <1>9, CueUntouched DEF FinishJob, fileVars, cueVars, OpsHaveThreads, Idle
<1>10. CASE WaitIdleReturns
  BY <1>0, <1>10, CueUntouched DEF WaitIdleReturns, fileVars, cueVars, OpsHaveThreads, Idle, MainFree
<1>11. CASE WaitIdleWaits
  BY <1>0, <1>11, CueUntouched DEF WaitIdleWaits, fileVars, cueVars, OpsHaveThreads, Idle, MainFree
<1>12. CASE GoOn
  BY <1>0, <1>12, CueUntouched DEF GoOn, fileVars, cueVars, OpsHaveThreads, Idle
<1>13. CASE Arm
  <2>1. \A f \in Files : op[f] = NoOp /\ op'[f] = NoOp
    BY <1>13, NothingInProgress DEF Arm, fileVars, Idle
  <2>2. count' = 0 /\ hits' = 0 /\ UNCHANGED <<op, cue, fate, main, worker>> /\ alive
    BY <1>13 DEF Arm, fileVars, jobVars
  <2>3. armed' \in BOOLEAN
    BY <1>13, Zenon DEF Arm
  <2>4. OpTypes'
    BY <2>2, <2>3 DEF CueInv, OpTypes, Idle
  <2>5. (OpsHaveThreads /\ CountedRightly)'
    BY <2>1 DEF OpsHaveThreads, CountedRightly, Idle, Files
  <2>6. Ahead' = 0
    BY <2>1, NoOpFields DEF Ahead
  <2>7. cue.n \in Nat \ {0}
    BY CuesAssumption DEF CueInv, OpTypes
  <2> QED
    BY <2>2, <2>4, <2>5, <2>6, <2>7 DEF CueInv, alive
<1>14. CASE Disarm
  <2>1. \A f \in Files : op[f] = NoOp /\ op'[f] = NoOp
    BY <1>14, NothingInProgress DEF Disarm, fileVars, Idle
  <2>2. UNCHANGED <<op, cue, fate, main, worker, count, hits>>
    BY <1>14 DEF Disarm, fileVars, jobVars
  <2>3. armed' \in BOOLEAN
    BY <1>14, Zenon DEF Disarm
  <2>4. OpTypes'
    BY <2>2, <2>3 DEF CueInv, OpTypes, Idle
  <2>5. (OpsHaveThreads /\ CountedRightly)'
    BY <2>1 DEF OpsHaveThreads, CountedRightly, Idle, Files
  <2>6. Ahead' = Ahead /\ alive' = alive
    BY <2>2 DEF Ahead, alive
  <2> QED
    BY <2>2, <2>4, <2>5, <2>6 DEF CueInv
<1>15. CASE Destroy
  BY <1>0, <1>15, CueUntouched DEF Destroy, fileVars, cueVars, OpsHaveThreads, Idle, MainFree
<1>16. CASE Joined
  BY <1>0, <1>16, CueUntouched DEF Joined, fileVars, cueVars, OpsHaveThreads, Idle
<1>17. CASE UNCHANGED vars
  BY <1>0, <1>17, CueUntouched DEF vars, jobVars, fileVars, cueVars, OpsHaveThreads, Idle
<1> QED
  BY <1>1, <1>2, <1>3, <1>4, <1>5, <1>6, <1>7, <1>8, <1>9, <1>10, <1>11,
     <1>12, <1>13, <1>14, <1>15, <1>16, <1>17 DEF Next

\* CrashInjector::Before and After (bench_env.h:166-175): the process dies at
\* the N-th armed event, never earlier and never later, whatever the other
\* thread does and however often the injector was disarmed and armed again.
THEOREM DiesOnCue == Spec => []CrashesOnCue
<1>1. CueInv => CrashesOnCue
  <2> SUFFICES ASSUME CueInv PROVE CrashesOnCue
    OBVIOUS
  <2>1. ASSUME alive, \A f \in Files : Idle(f) PROVE hits < cue.n
    <3>1. \A f \in Files : ~op[f].counted
      BY <2>1, NoOpFields DEF Idle
    <3>2. Ahead = 0
      BY <3>1 DEF Ahead
    <3>3. count \in Nat /\ hits \in Nat /\ cue.n \in Nat
      BY CuesAssumption DEF CueInv, OpTypes
    <3> QED
      BY <2>1, <3>1, <3>2, <3>3 DEF CueInv
  <2> QED
    BY <2>1 DEF CueInv, CrashesOnCue
<1> QED
  BY <1>1, JobInvInit, JobInvStep, CueInvInit, CueInvStep, PTL DEF Spec

-----------------------------------------------------------------------------
\* The files.

\* The bytes from + 1, from + 2, ... in their order.
Numbered(s, from) == s \in Seq(Nat) /\ \A i \in 1 .. Len(s) : s[i] = from + i

Records == [open : BOOLEAN, buf : Seq(Nat), disk : Seq(Nat), next : Nat,
            kept : Nat, ok : BOOLEAN]

\* What the file and the buffer hold, r being a file and f its name: the buffer
\* goes on where the file ends, as long as the process lives.
Sound(f, r, live) ==
  /\ Len(r.buf) <= BufferSize
  /\ r.next <= MaxBytes[f]
  /\ r.ok => /\ Numbered(r.disk, 0)
             /\ r.kept <= Len(r.disk)
             /\ Len(r.disk) <= MaxBytes[f]
             /\ live => /\ Numbered(r.buf, Len(r.disk))
                        /\ Len(r.disk) + Len(r.buf) = r.next

\* An operation o in progress: what it may still append, and that the buffer is
\* empty when a Flush, Sync or Close is about to report success.
Poised(f, r, o) ==
  /\ o.stage = "before" =>
       /\ o.kind \in Ops
       /\ IF o.kind = "append" THEN r.next + o.n <= MaxBytes[f] ELSE o.n = 0
  /\ o.stage = "after" /\ o.kind \in {"flush", "sync", "close"} => r.buf = <<>>

FileInv ==
  /\ file \in [Files -> Records]
  /\ \A f \in Files : Sound(f, file[f], alive) /\ Poised(f, file[f], op[f])

LEMMA BufferPositive == BufferSize \in Nat \ {0}
BY SizesAssumption

LEMMA BytesNumbered ==
  ASSUME NEW from \in Nat, NEW n \in Nat
  PROVE  Numbered(Bytes(from, n), from) /\ Len(Bytes(from, n)) = n
BY DEF Bytes, Numbered

\* A numbered sequence is told by its first number and its length.
LEMMA NumberedIsBytes ==
  ASSUME NEW from \in Nat, NEW s, Numbered(s, from)
  PROVE  s = Bytes(from, Len(s))
<1>1. s \in Seq(Nat) /\ Bytes(from, Len(s)) \in Seq(Nat) /\ Len(Bytes(from, Len(s))) = Len(s)
  BY BytesNumbered DEF Numbered
<1>2. \A i \in 1 .. Len(s) : s[i] = Bytes(from, Len(s))[i]
  BY DEF Numbered, Bytes
<1> QED
  BY <1>1, <1>2

LEMMA NumberedConcat ==
  ASSUME NEW from \in Nat, NEW s, NEW t, Numbered(s, from), Numbered(t, from + Len(s))
  PROVE  Numbered(s \o t, from) /\ Len(s \o t) = Len(s) + Len(t)
<1>1. s \in Seq(Nat) /\ t \in Seq(Nat) /\ s \o t \in Seq(Nat) /\ Len(s \o t) = Len(s) + Len(t)
  BY DEF Numbered
<1>2. ASSUME NEW i \in 1 .. Len(s \o t) PROVE (s \o t)[i] = from + i
  <2>1. CASE i <= Len(s)
    BY <1>1, <2>1 DEF Numbered
  <2>2. CASE i > Len(s)
    <3>1. (s \o t)[i] = t[i - Len(s)] /\ i - Len(s) \in 1 .. Len(t)
      BY <1>1, <2>2
    <3>2. t[i - Len(s)] = from + Len(s) + (i - Len(s))
      BY <3>1 DEF Numbered
    <3> QED
      BY <1>1, <3>1, <3>2
  <2> QED
    BY <1>1, <2>1, <2>2
<1> QED
  BY <1>1, <1>2 DEF Numbered

LEMMA NumberedPart ==
  ASSUME NEW from \in Nat, NEW s, Numbered(s, from), NEW l \in 0 .. Len(s)
  PROVE  /\ Numbered(SubSeq(s, 1, l), from)
         /\ Len(SubSeq(s, 1, l)) = l
         /\ Numbered(SubSeq(s, l + 1, Len(s)), from + l)
         /\ Len(SubSeq(s, l + 1, Len(s))) = Len(s) - l
<1>1. s \in Seq(Nat) /\ l \in Nat /\ Len(s) \in Nat /\ l <= Len(s)
  BY DEF Numbered
<1>2. /\ SubSeq(s, 1, l) \in Seq(Nat) /\ Len(SubSeq(s, 1, l)) = l
      /\ SubSeq(s, l + 1, Len(s)) \in Seq(Nat) /\ Len(SubSeq(s, l + 1, Len(s))) = Len(s) - l
  BY <1>1
<1>3. \A i \in 1 .. l : SubSeq(s, 1, l)[i] = from + i
  BY <1>1 DEF Numbered
<1>4. ASSUME NEW i \in 1 .. (Len(s) - l)
      PROVE  SubSeq(s, l + 1, Len(s))[i] = from + l + i
  <2>1. SubSeq(s, l + 1, Len(s))[i] = s[l + i] /\ l + i \in 1 .. Len(s)
    BY <1>1
  <2> QED
    BY <1>1, <2>1 DEF Numbered
<1> QED
  BY <1>2, <1>3, <1>4 DEF Numbered

\* What a write that did not complete got out is numbered as the whole is.
LEMMA PrefixesNumbered ==
  ASSUME NEW from \in Nat, NEW s, Numbered(s, from), NEW p \in Prefixes(s)
  PROVE  Numbered(p, from) /\ Len(p) <= Len(s)
<1>1. PICK l \in 0 .. Len(s) : p = SubSeq(s, 1, l)
  BY DEF Prefixes
<1> QED
  BY <1>1, NumberedPart DEF Numbered

\* Any part of a sequence of bytes is one.
LEMMA PrefixesTyped ==
  ASSUME NEW s \in Seq(Nat), NEW p \in Prefixes(s)
  PROVE  p \in Seq(Nat)
BY DEF Prefixes

\* BenchWritableFile::Append, 267-294: what stays in the buffer fits.
LEMMA AppendFits ==
  ASSUME NEW f \in Files, file \in [Files -> Records], NEW n \in Nat,
         Len(file[f].buf) <= BufferSize
  PROVE  /\ Appended(f, n).out \in Seq(Nat)
         /\ Appended(f, n).buf \in Seq(Nat)
         /\ Len(Appended(f, n).buf) <= BufferSize
<1> DEFINE all == file[f].buf \o Bytes(file[f].next, n)
           rest == Len(all) - BufferSize
<1>1. /\ all \in Seq(Nat) /\ Len(all) \in Nat
      /\ BufferSize \in Nat \ {0}
  <2>1. file[f].buf \in Seq(Nat) /\ file[f].next \in Nat
    BY DEF Records
  <2>2. Bytes(file[f].next, n) \in Seq(Nat)
    BY <2>1, BytesNumbered DEF Numbered
  <2>3. \A s, t \in Seq(Nat) : s \o t \in Seq(Nat) /\ Len(s \o t) \in Nat
    OBVIOUS
  <2> QED
    BY <2>1, <2>2, <2>3, BufferPositive, Zenon
<1>2. Appended(f, n) = IF rest <= 0 THEN [out |-> <<>>, buf |-> all]
                       ELSE IF rest < BufferSize
                       THEN [out |-> SubSeq(all, 1, BufferSize),
                             buf |-> SubSeq(all, BufferSize + 1, Len(all))]
                       ELSE [out |-> all, buf |-> <<>>]
  BY DEF Appended
<1> HIDE DEF all
<1>3. CASE rest <= 0
  BY <1>1, <1>2, <1>3
<1>4. CASE rest > 0 /\ rest < BufferSize
  BY <1>1, <1>2, <1>4
<1>5. CASE rest > 0 /\ ~(rest < BufferSize)
  BY <1>1, <1>2, <1>5
<1> QED
  BY <1>1, <1>3, <1>4, <1>5

\* What is written out and what stays are the buffer and the new bytes in order.
LEMMA AppendSplits ==
  ASSUME NEW f \in Files, file \in [Files -> Records], NEW n \in Nat, NEW from \in Nat,
         Numbered(file[f].buf, from), from + Len(file[f].buf) = file[f].next
  PROVE  /\ Numbered(Appended(f, n).out, from)
         /\ Numbered(Appended(f, n).buf, from + Len(Appended(f, n).out))
         /\ Len(Appended(f, n).out) + Len(Appended(f, n).buf) = Len(file[f].buf) + n
<1> DEFINE all == file[f].buf \o Bytes(file[f].next, n)
           rest == Len(all) - BufferSize
<1>1. /\ Numbered(all, from) /\ Len(all) = Len(file[f].buf) + n /\ Len(all) \in Nat
      /\ BufferSize \in Nat \ {0}
  <2>1. file[f].buf \in Seq(Nat) /\ file[f].next \in Nat
    BY DEF Records
  <2>2. /\ Numbered(Bytes(file[f].next, n), file[f].next)
        /\ Len(Bytes(file[f].next, n)) = n
    BY <2>1, BytesNumbered
  <2>3. Numbered(Bytes(file[f].next, n), from + Len(file[f].buf))
    BY <2>2
  <2>4. Numbered(all, from) /\ Len(all) = Len(file[f].buf) + n
    <3>1. /\ Numbered(all, from)
          /\ Len(all) = Len(file[f].buf) + Len(Bytes(file[f].next, n))
      BY <2>3, NumberedConcat, Zenon
    <3> QED
      BY <2>2, <3>1
  <2> QED
    BY <2>1, <2>4, BufferPositive
<1>2. Appended(f, n) = IF rest <= 0 THEN [out |-> <<>>, buf |-> all]
                       ELSE IF rest < BufferSize
                       THEN [out |-> SubSeq(all, 1, BufferSize),
                             buf |-> SubSeq(all, BufferSize + 1, Len(all))]
                       ELSE [out |-> all, buf |-> <<>>]
  BY DEF Appended
<1>3. \A k \in Nat : Numbered(<<>>, k) /\ Len(<<>>) = 0
  BY DEF Numbered
<1> HIDE DEF all
<1>4. CASE rest <= 0
  <2>1. Appended(f, n).out = <<>> /\ Appended(f, n).buf = all
    BY <1>2, <1>4
  <2>2. Len(<<>>) = 0 /\ Numbered(<<>>, from) /\ from + 0 = from
    BY <1>3
  <2> QED
    BY <1>1, <2>1, <2>2
<1>5. CASE rest > 0 /\ rest < BufferSize
  <2>1. BufferSize \in 0 .. Len(all)
    BY <1>1, <1>5
  <2>2. /\ Appended(f, n).out = SubSeq(all, 1, BufferSize)
        /\ Appended(f, n).buf = SubSeq(all, BufferSize + 1, Len(all))
    BY <1>1, <1>2, <1>5
  <2>3. /\ Numbered(Appended(f, n).out, from)
        /\ Len(Appended(f, n).out) = BufferSize
        /\ Numbered(Appended(f, n).buf, from + BufferSize)
        /\ Len(Appended(f, n).buf) = Len(all) - BufferSize
    <3>1. PICK b : b = BufferSize
      OBVIOUS
    <3>2. Numbered(all, from) /\ b \in 0 .. Len(all)
      BY <1>1, <2>1, <3>1
    <3>3. /\ Numbered(SubSeq(all, 1, b), from)
          /\ Len(SubSeq(all, 1, b)) = b
          /\ Numbered(SubSeq(all, b + 1, Len(all)), from + b)
          /\ Len(SubSeq(all, b + 1, Len(all))) = Len(all) - b
      BY <3>2, NumberedPart
    <3> QED
      BY <2>2, <3>1, <3>3, Zenon
  <2> QED
    BY <1>1, <2>3
<1>6. CASE rest > 0 /\ ~(rest < BufferSize)
  BY <1>1, <1>2, <1>3, <1>6
<1> QED
  <2>1. rest <= 0 \/ (rest > 0 /\ rest < BufferSize) \/ (rest > 0 /\ ~(rest < BufferSize))
    BY <1>1
  <2> QED
    BY <2>1, <1>4, <1>5, <1>6, Zenon

\* The same of any operation that may be in progress.
LEMMA WrittenSplits ==
  ASSUME NEW f \in Files, FileInv, OpTypes
  PROVE  /\ Written(f).out \in Seq(Nat) /\ Written(f).buf \in Seq(Nat)
         /\ op[f].stage = "before" => Len(Written(f).buf) <= BufferSize
         /\ alive /\ file[f].ok /\ op[f].stage = "before" /\ op[f].kind \in {"append", "flush", "sync", "close"} =>
              /\ Numbered(Written(f).out, Len(file[f].disk))
              /\ Numbered(Written(f).buf, Len(file[f].disk) + Len(Written(f).out))
              /\ Len(file[f].disk) + Len(Written(f).out) + Len(Written(f).buf)
                   = file[f].next + op[f].n
              /\ file[f].next + op[f].n <= MaxBytes[f]
<1>0. file \in [Files -> Records]
  BY DEF FileInv
<1>1. /\ op[f].n \in Nat /\ BufferSize \in Nat
      /\ Len(file[f].buf) <= BufferSize /\ Len(file[f].disk) \in Nat
      /\ file[f].disk \in Seq(Nat) /\ file[f].buf \in Seq(Nat) /\ file[f].next \in Nat
  <2>1. Len(file[f].buf) <= BufferSize
    BY DEF FileInv, Sound
  <2>2. op[f].n \in Nat
    BY DEF OpTypes
  <2>3. /\ file[f].buf \in Seq(Nat) /\ file[f].disk \in Seq(Nat)
        /\ file[f].next \in Nat
    BY <1>0 DEF Records
  <2> QED
    BY <2>1, <2>2, <2>3, BufferPositive
<1>2. CASE op[f].kind = "append"
  <2>1. Written(f) = Appended(f, op[f].n)
    BY <1>2 DEF Written
  <2>2. ASSUME alive, file[f].ok
        PROVE  /\ Numbered(file[f].buf, Len(file[f].disk))
               /\ Len(file[f].disk) + Len(file[f].buf) = file[f].next
    BY <2>2 DEF FileInv, Sound
  <2>3. op[f].stage = "before" => file[f].next + op[f].n <= MaxBytes[f]
    BY <1>2 DEF FileInv, Poised
  <2>4. /\ Written(f).out \in Seq(Nat) /\ Written(f).buf \in Seq(Nat)
        /\ Len(Written(f).buf) <= BufferSize
    BY <1>0, <1>1, <2>1, AppendFits
  <2>5. ASSUME alive, file[f].ok
        PROVE  /\ Numbered(Written(f).out, Len(file[f].disk))
               /\ Numbered(Written(f).buf, Len(file[f].disk) + Len(Written(f).out))
               /\ Len(Written(f).out) + Len(Written(f).buf) = Len(file[f].buf) + op[f].n
    BY <1>0, <1>1, <2>1, <2>2, <2>5, AppendSplits
  <2>6. Len(Written(f).out) \in Nat /\ Len(Written(f).buf) \in Nat
        /\ Len(file[f].buf) \in Nat
    BY <1>1, <2>4
  <2>7. ASSUME alive, file[f].ok
        PROVE  Len(file[f].disk) + Len(Written(f).out) + Len(Written(f).buf)
                 = file[f].next + op[f].n
    <3>1. Len(file[f].disk) + Len(file[f].buf) = file[f].next
      BY <2>2, <2>7
    <3>2. Len(Written(f).out) + Len(Written(f).buf) = Len(file[f].buf) + op[f].n
      BY <2>5, <2>7
    <3> DEFINE d == Len(file[f].disk)
               b == Len(file[f].buf)
               o == Len(Written(f).out)
               k == Len(Written(f).buf)
    <3>3. /\ d \in Nat /\ b \in Nat /\ o \in Nat /\ k \in Nat
          /\ op[f].n \in Nat
          /\ d + b = file[f].next /\ o + k = b + op[f].n
      BY <1>1, <2>6, <3>1, <3>2, Zenon
    <3> HIDE DEF d, b, o, k
    <3>4. d + o + k = file[f].next + op[f].n
      BY <3>3
    <3> QED
      BY <3>4 DEF d, o, k
  <2> QED
    BY <2>3, <2>4, <2>5, <2>7, Zenon
<1>3. CASE op[f].kind \in {"flush", "sync", "close"}
  <2>1. Written(f).out = file[f].buf /\ Written(f).buf = <<>>
    BY <1>3 DEF Written
  <2>2. op[f].stage = "before" => op[f].n = 0
    BY <1>3 DEF FileInv, Poised
  <2>3. file[f].next <= MaxBytes[f]
    BY DEF FileInv, Sound
  <2>4. alive /\ file[f].ok => /\ Numbered(file[f].buf, Len(file[f].disk))
                               /\ Len(file[f].disk) + Len(file[f].buf) = file[f].next
    BY DEF FileInv, Sound
  <2>5. \A k \in Nat : Numbered(<<>>, k) /\ Len(<<>>) = 0 /\ <<>> \in Seq(Nat)
    BY DEF Numbered
  <2>6. Len(file[f].buf) \in Nat
    BY <1>1
  <2> QED
    <3>1. /\ Len(Written(f).out) = Len(file[f].buf) /\ Len(Written(f).buf) = 0
          /\ Numbered(Written(f).buf, Len(file[f].disk) + Len(Written(f).out))
          /\ Len(Written(f).buf) <= BufferSize
      <4> DEFINE d == Len(file[f].disk)
                 b == Len(file[f].buf)
      <4>0. d \in Nat /\ b \in Nat /\ BufferSize \in Nat
        BY <1>1, <2>6, Zenon
      <4> HIDE DEF d, b
      <4>1. d + b \in Nat /\ 0 <= BufferSize
        BY <4>0
      <4> USE DEF d, b
      <4> QED
        BY <2>1, <2>5, <4>1, Zenon
    <3>2. op[f].stage = "before" => file[f].next + op[f].n <= MaxBytes[f]
      BY <1>1, <2>2, <2>3
    <3>3. op[f].stage = "before" /\ Len(file[f].disk) + Len(file[f].buf) = file[f].next =>
            Len(file[f].disk) + Len(Written(f).out) + Len(Written(f).buf)
              = file[f].next + op[f].n
      BY <1>1, <2>2, <2>6, <3>1
    <3> QED
      BY <1>1, <2>1, <2>4, <2>5, <3>1, <3>2, <3>3, Zenon
<1>4. CASE op[f].kind \notin {"append", "flush", "sync", "close"}
  <2>1. Written(f).out = <<>> /\ Written(f).buf = <<>>
    BY <1>4 DEF Written
  <2>2. <<>> \in Seq(Nat) /\ Len(<<>>) = 0
    OBVIOUS
  <2> QED
    BY <1>1, <1>4, <2>1, <2>2
<1> QED
  BY <1>2, <1>3, <1>4

\* What a process that is killed had got out of an operation in progress goes on
\* where the file ended.
LEMMA PartOut ==
  ASSUME NEW f \in Files, FileInv, OpTypes, NEW p,
         IF op[f].stage = "before" THEN p \in Prefixes(Written(f).out) ELSE p = <<>>
  PROVE  /\ p \in Seq(Nat)
         /\ alive /\ file[f].ok => /\ Numbered(p, Len(file[f].disk))
                                   /\ Len(file[f].disk) + Len(p) <= MaxBytes[f]
<1>1. Written(f).out \in Seq(Nat) /\ Written(f).buf \in Seq(Nat)
  BY WrittenSplits
<1>2. /\ file[f].disk \in Seq(Nat) /\ Len(file[f].disk) \in Nat /\ file[f].next \in Nat
      /\ op[f].n \in Nat /\ MaxBytes[f] \in Nat
  BY FilesAssumption DEF FileInv, Records, OpTypes
<1>3. p \in Seq(Nat)
  <2>1. CASE op[f].stage = "before"
    BY <1>1, <2>1, PrefixesTyped
  <2>2. CASE op[f].stage # "before"
    BY <2>2
  <2> QED
    BY <2>1, <2>2
<1>4. ASSUME alive, file[f].ok, p = <<>>
      PROVE  Numbered(p, Len(file[f].disk)) /\ Len(file[f].disk) + Len(p) <= MaxBytes[f]
  <2>1. Len(file[f].disk) <= MaxBytes[f]
    BY <1>4 DEF FileInv, Sound
  <2>2. Numbered(<<>>, Len(file[f].disk)) /\ Len(<<>>) = 0
    BY DEF Numbered
  <2> QED
    BY <1>2, <1>4, <2>1, <2>2
<1>5. ASSUME alive, file[f].ok, op[f].stage = "before",
             op[f].kind \in {"append", "flush", "sync", "close"}
      PROVE  Numbered(p, Len(file[f].disk)) /\ Len(file[f].disk) + Len(p) <= MaxBytes[f]
  <2> DEFINE d == Len(file[f].disk)
             o == Len(Written(f).out)
             k == Len(Written(f).buf)
             l == Len(p)
  <2>1. /\ Numbered(Written(f).out, d)
        /\ d + o + k = file[f].next + op[f].n
        /\ file[f].next + op[f].n <= MaxBytes[f]
    BY <1>5, WrittenSplits, Zenon
  <2>2. p \in Prefixes(Written(f).out)
    BY <1>5
  <2>3. Numbered(p, d) /\ l <= o
    BY <1>2, <2>1, <2>2, PrefixesNumbered, Zenon
  <2>4. d \in Nat /\ o \in Nat /\ k \in Nat /\ l \in Nat
    BY <1>1, <1>2, <1>3
  <2> HIDE DEF d, o, k, l
  <2>5. d + l <= MaxBytes[f]
    BY <1>2, <2>1, <2>3, <2>4
  <2> QED
    BY <2>3, <2>5 DEF d, l
<1>6. ASSUME op[f].stage = "before",
             op[f].kind \notin {"append", "flush", "sync", "close"}
      PROVE  p = <<>>
  <2>1. Written(f).out = <<>>
    BY <1>6 DEF Written
  <2>2. p \in Prefixes(<<>>)
    BY <1>6, <2>1
  <2> QED
    BY <2>2 DEF Prefixes
<1> QED
  BY <1>3, <1>4, <1>5, <1>6

LEMMA FileInvInit == Init => FileInv
<1> SUFFICES ASSUME Init PROVE FileInv
  OBVIOUS
<1>1. \A f \in Files : file[f] = Empty /\ op[f] = NoOp
  BY DEF Init
<1>2. Empty \in Records
  BY DEF Empty, Records
<1>3. file \in [Files -> Records]
  BY <1>2 DEF Init
<1>4. ASSUME NEW f \in Files PROVE Sound(f, Empty, alive)
  <2>1. MaxBytes[f] \in Nat /\ BufferSize \in Nat
    BY FilesAssumption, BufferPositive
  <2>2. Len(<<>>) = 0 /\ Numbered(<<>>, 0)
    BY DEF Numbered
  <2> QED
    BY <2>1, <2>2 DEF Sound, Empty
<1>5. ASSUME NEW f \in Files PROVE Poised(f, Empty, NoOp)
  BY DEF Poised, NoOp
<1> QED
  BY <1>1, <1>3, <1>4, <1>5 DEF FileInv

\* SIGKILL.
LEMMA KilledFiles ==
  ASSUME FileInv, OpTypes, alive, NEW by \in {"cue", "outside"}, Killed(by)
  PROVE  FileInv'
<1>1. PICK part :
        /\ \A f \in Files : IF op[f].stage = "before"
                            THEN part[f] \in Prefixes(Written(f).out)
                            ELSE part[f] = <<>>
        /\ file' = [f \in Files |-> [file[f] EXCEPT !.open = FALSE, !.buf = <<>>,
                                                    !.disk = @ \o part[f]]]
  BY DEF Killed
<1>2. ~alive' /\ \A f \in Files : op'[f] = NoOp
  BY DEF Killed, alive
<1>3. ASSUME NEW f \in Files
      PROVE  file'[f] \in Records /\ Sound(f, file'[f], alive') /\ Poised(f, file'[f], op'[f])
  <2>1. file[f] \in Records /\ Sound(f, file[f], alive)
    BY DEF FileInv
  <2>2. /\ part[f] \in Seq(Nat)
        /\ file[f].ok => /\ Numbered(part[f], Len(file[f].disk))
                         /\ Len(file[f].disk) + Len(part[f]) <= MaxBytes[f]
    BY <1>1, PartOut
  <2>3. file'[f] = [file[f] EXCEPT !.open = FALSE, !.buf = <<>>, !.disk = @ \o part[f]]
    BY <1>1
  <2>4. file[f].disk \in Seq(Nat) /\ file[f].kept \in Nat
    BY <2>1 DEF Records
  <2>5. \A s, t \in Seq(Nat) : s \o t \in Seq(Nat) /\ Len(s \o t) = Len(s) + Len(t)
    OBVIOUS
  <2>6. file'[f] \in Records
    <3>1. file[f].disk \o part[f] \in Seq(Nat)
      BY <2>2, <2>4, <2>5
    <3> DEFINE new == file[f].disk \o part[f]
    <3>2. /\ file'[f] = [file[f] EXCEPT !.open = FALSE, !.buf = <<>>, !.disk = new]
          /\ new \in Seq(Nat)
      BY <2>3, <3>1
    <3> HIDE DEF new
    <3>3. <<>> \in Seq(Nat)
      OBVIOUS
    <3>4. PICK r \in Records : r = file[f]
      BY <2>1
    <3>5. [r EXCEPT !.open = FALSE, !.buf = <<>>, !.disk = new] \in Records
      BY <3>2, <3>3 DEF Records
    <3> QED
      BY <3>2, <3>4, <3>5
  <2>7. /\ file'[f].buf = <<>> /\ file'[f].disk = file[f].disk \o part[f]
        /\ file'[f].next = file[f].next /\ file'[f].kept = file[f].kept
        /\ file'[f].ok = file[f].ok
    BY <2>1, <2>3 DEF Records
  <2>8. ASSUME file[f].ok
        PROVE  /\ Numbered(file'[f].disk, 0)
               /\ file'[f].kept <= Len(file'[f].disk)
               /\ Len(file'[f].disk) <= MaxBytes[f]
    <3>1. Numbered(file[f].disk, 0) /\ file[f].kept <= Len(file[f].disk)
      BY <2>1, <2>8 DEF Sound
    <3>2. 0 + Len(file[f].disk) = Len(file[f].disk) /\ Len(file[f].disk) \in Nat
          /\ Len(part[f]) \in Nat
      BY <2>2, <2>4
    <3>3. /\ Numbered(file'[f].disk, 0)
          /\ Len(file'[f].disk) = Len(file[f].disk) + Len(part[f])
      BY <2>2, <2>7, <2>8, <3>1, <3>2, NumberedConcat
    <3> DEFINE d == Len(file[f].disk)
               l == Len(part[f])
    <3>4. d \in Nat /\ l \in Nat /\ d + l <= MaxBytes[f] /\ file[f].kept <= d
      BY <2>2, <2>8, <3>1, <3>2, Zenon
    <3> HIDE DEF d, l
    <3>5. file[f].kept <= d + l
      BY <2>4, <3>4
    <3> QED
      BY <2>7, <3>3, <3>4, <3>5 DEF d, l
  <2>9. Len(file'[f].buf) <= BufferSize
    <3>1. Len(<<>>) = 0 /\ 0 <= BufferSize
      BY BufferPositive
    <3> QED
      BY <2>7, <3>1
  <2>10. file'[f].next <= MaxBytes[f]
    BY <2>1, <2>7 DEF Sound
  <2>11. Sound(f, file'[f], alive')
    BY <1>2, <2>7, <2>8, <2>9, <2>10, Zenon DEF Sound
  <2>12. Poised(f, file'[f], op'[f])
    BY <1>2 DEF Poised, NoOp
  <2> QED
    BY <2>6, <2>11, <2>12
<1>4. file' \in [Files -> Records]
  BY <1>1, <1>3
<1> QED
  BY <1>3, <1>4 DEF FileInv

\* A step that leaves the files alone.
LEMMA FilesUntouched ==
  ASSUME FileInv, UNCHANGED <<file, op, fate>>
  PROVE  FileInv'
BY DEF FileInv, alive

LEMMA FilesBegin ==
  ASSUME FileInv, OpTypes, NEW f \in Files, NEW kind \in Does[f],
         NEW n \in 0 .. MaxBytes[f], BeginOp(f, kind, n)
  PROVE  FileInv'
<1>1. CASE DiesBefore(Event(f, kind))
  BY <1>1, KilledFiles DEF BeginOp, Works
<1>2. CASE ~DiesBefore(Event(f, kind))
  <2> DEFINE new == [kind |-> kind, n |-> n, stage |-> "before",
                     counted |-> Counts(Event(f, kind)), ok |-> TRUE]
  <2>1. op' = [op EXCEPT ![f] = new] /\ UNCHANGED <<file, fate>>
    BY <1>2 DEF BeginOp
  <2>2. IF kind = "append" THEN file[f].next + n <= MaxBytes[f] ELSE n = 0
    BY DEF BeginOp
  <2>3. \A g \in Files \ {f} : op'[g] = op[g]
    BY <2>1 DEF OpTypes
  <2>4. op'[f] = new
    BY <2>1 DEF OpTypes
  <2>5. Poised(f, file[f], new)
    BY <2>2, FilesAssumption DEF Poised
  <2> QED
    BY <2>1, <2>3, <2>4, <2>5 DEF FileInv, alive
<1> QED
  BY <1>1, <1>2

\* What Perform does to the operation and to the other file.
LEMMA PerformOp ==
  ASSUME OpTypes, NEW f \in Files, Perform(f)
  PROVE  /\ op'[f].stage = "after" /\ op'[f].kind = op[f].kind
         /\ \A g \in Files \ {f} : op'[g] = op[g]
<1>1. op' = [op EXCEPT ![f].stage = "after"] \/ op' = [op EXCEPT ![f].stage = "after", ![f].ok = FALSE]
  BY DEF Perform
<1>2. CASE op' = [op EXCEPT ![f].stage = "after"]
  BY <1>2 DEF OpTypes
<1>3. CASE op' = [op EXCEPT ![f].stage = "after", ![f].ok = FALSE]
  BY <1>3 DEF OpTypes
<1> QED
  BY <1>1, <1>2, <1>3

\* Renewing a file: the empty file is sound, and reopening one changes no byte.
LEMMA RenewedSound ==
  ASSUME FileInv, NEW f \in Files, alive, op[f].kind \in {"create", "reopen", "remove"}
  PROVE  Renewed(f) \in Records /\ Sound(f, Renewed(f), TRUE)
<1>1. Empty \in Records /\ [Empty EXCEPT !.open = TRUE] \in Records
  <2>1. Empty \in Records
    BY DEF Empty, Records
  <2>2. \A r \in Records : [r EXCEPT !.open = TRUE] \in Records
    BY DEF Records
  <2> QED
    BY <2>1, <2>2
<1>2. MaxBytes[f] \in Nat /\ BufferSize \in Nat
  BY FilesAssumption, BufferPositive
<1>3. Len(<<>>) = 0 /\ Numbered(<<>>, 0)
  BY DEF Numbered
<1>4. Sound(f, Empty, TRUE) /\ Sound(f, [Empty EXCEPT !.open = TRUE], TRUE)
  BY <1>2, <1>3 DEF Sound, Empty
<1>5. file[f] \in Records /\ Sound(f, file[f], TRUE)
  BY DEF FileInv, Sound
<1>6. CASE op[f].kind = "reopen"
  <2>1. Renewed(f) = [file[f] EXCEPT !.open = TRUE]
    BY <1>6 DEF Renewed
  <2>2. PICK r \in Records : r = file[f]
    BY <1>5
  <2>3. [r EXCEPT !.open = TRUE] \in Records
    BY DEF Records
  <2>4. LET q == [r EXCEPT !.open = TRUE]
        IN  /\ q.buf = r.buf /\ q.disk = r.disk /\ q.next = r.next
            /\ q.kept = r.kept /\ q.ok = r.ok
    BY DEF Records
  <2>5. Sound(f, r, TRUE)
    BY <1>5, <2>2
  <2>6. Sound(f, [r EXCEPT !.open = TRUE], TRUE)
    BY <2>4, <2>5, Zenon DEF Sound
  <2> QED
    BY <2>1, <2>2, <2>3, <2>6
<1> QED
  BY <1>1, <1>4, <1>6 DEF Renewed

\* The record of a file after a write, and after one that failed.
Rewrite(r, o, n, d, b) == [[r EXCEPT !.next = n, !.open = o] EXCEPT !.disk = d, !.buf = b]
Spoil(r, o, n, d) == [[r EXCEPT !.next = n, !.open = o]
                        EXCEPT !.disk = d, !.buf = <<>>, !.ok = FALSE]

LEMMA Reset ==
  ASSUME NEW r \in Records, NEW o \in BOOLEAN, NEW n \in Nat
  PROVE  \E s \in Records : /\ s = [r EXCEPT !.next = n, !.open = o]
                            /\ s.next = n /\ s.kept = r.kept /\ s.ok = r.ok
<1>1. [r EXCEPT !.next = n, !.open = o] \in Records
  BY DEF Records
<1>2. LET s == [r EXCEPT !.next = n, !.open = o]
      IN  s.next = n /\ s.kept = r.kept /\ s.ok = r.ok
  BY DEF Records
<1> QED
  BY <1>1, <1>2

LEMMA Rewritten ==
  ASSUME NEW r \in Records, NEW o \in BOOLEAN, NEW n \in Nat, NEW d \in Seq(Nat),
         NEW b \in Seq(Nat)
  PROVE  \E q \in Records :
           /\ q = Rewrite(r, o, n, d, b)
           /\ q.buf = b /\ q.disk = d /\ q.next = n /\ q.kept = r.kept /\ q.ok = r.ok
<1>1. PICK s \in Records : /\ s = [r EXCEPT !.next = n, !.open = o]
                           /\ s.next = n /\ s.kept = r.kept /\ s.ok = r.ok
  BY Reset
<1>2. LET q == [s EXCEPT !.disk = d, !.buf = b]
      IN  /\ q \in Records
          /\ q.buf = b /\ q.disk = d /\ q.next = s.next /\ q.kept = s.kept /\ q.ok = s.ok
  BY DEF Records
<1> QED
  BY <1>1, <1>2 DEF Rewrite

LEMMA Spoilt ==
  ASSUME NEW r \in Records, NEW o \in BOOLEAN, NEW n \in Nat, NEW d \in Seq(Nat)
  PROVE  \E q \in Records :
           q = Spoil(r, o, n, d) /\ q.buf = <<>> /\ q.next = n /\ ~q.ok
<1>1. PICK s \in Records : /\ s = [r EXCEPT !.next = n, !.open = o]
                           /\ s.next = n /\ s.kept = r.kept /\ s.ok = r.ok
  BY Reset
<1>2. LET q == [s EXCEPT !.disk = d, !.buf = <<>>, !.ok = FALSE]
      IN  q \in Records /\ q.buf = <<>> /\ q.next = s.next /\ ~q.ok
  <2>1. <<>> \in Seq(Nat)
    OBVIOUS
  <2> QED
    BY <2>1 DEF Records
<1> QED
  BY <1>1, <1>2 DEF Spoil

LEMMA FilesPerform ==
  ASSUME FileInv, OpTypes, NEW f \in Files, Perform(f)
  PROVE  FileInv'
<1>1. /\ alive /\ op[f].stage = "before" /\ UNCHANGED fate
  BY DEF Perform, Works
<1>2. /\ op'[f].stage = "after" /\ op'[f].kind = op[f].kind
      /\ \A g \in Files \ {f} : op'[g] = op[g]
  BY PerformOp
<1>3. file[f] \in Records /\ Sound(f, file[f], TRUE) /\ Poised(f, file[f], op[f])
  BY <1>1 DEF FileInv, Sound
<1>4. SUFFICES \E q \in Records :
                 /\ file' = [file EXCEPT ![f] = q]
                 /\ Sound(f, q, TRUE)
                 /\ op[f].kind \in {"flush", "sync", "close"} => q.buf = <<>>
  <2>1. PICK q \in Records :
                 /\ file' = [file EXCEPT ![f] = q]
                 /\ Sound(f, q, TRUE)
                 /\ op[f].kind \in {"flush", "sync", "close"} => q.buf = <<>>
    BY <1>4
  <2>2. file' \in [Files -> Records] /\ file'[f] = q
        /\ \A g \in Files \ {f} : file'[g] = file[g]
    BY <2>1 DEF FileInv
  <2>3. alive' = TRUE /\ alive = TRUE
    BY <1>1 DEF alive
  <2>4. Poised(f, q, op'[f])
    BY <1>2, <2>1 DEF Poised
  <2> QED
    BY <1>2, <2>1, <2>2, <2>3, <2>4 DEF FileInv
<1>5. CASE op[f].kind \in {"create", "reopen", "remove"}
  <2>1. file' = [file EXCEPT ![f] = Renewed(f)]
    BY <1>5 DEF Perform
  <2> QED
    BY <1>1, <1>5, <2>1, RenewedSound
<1>6. CASE op[f].kind \notin {"create", "reopen", "remove"}
  <2> DEFINE w == Written(f)
             shut == op[f].kind # "close"
             later == file[f].next + op[f].n
  <2>1. w.out \in Seq(Nat) /\ w.buf \in Seq(Nat) /\ Len(w.buf) <= BufferSize
    BY <1>1, WrittenSplits
  <2>2. file[f].next \in Nat /\ op[f].n \in Nat /\ later \in Nat
        /\ file[f].disk \in Seq(Nat) /\ Len(file[f].disk) \in Nat /\ file[f].kept \in Nat
        /\ MaxBytes[f] \in Nat
    BY <1>3, FilesAssumption DEF Records, OpTypes
  <2>3. later <= MaxBytes[f]
    BY <1>1, <1>3, <2>2 DEF Poised, Sound
  <2>4. op[f].kind \in {"flush", "sync", "close"} => w.buf = <<>>
    BY DEF Written
  <2>5. <<>> \in Seq(Nat) /\ Len(<<>>) = 0 /\ 0 <= BufferSize
    BY BufferPositive
  <2>6. CASE file' = [file EXCEPT ![f] = [[file[f] EXCEPT !.next = @ + op[f].n, !.open = shut]
                                           EXCEPT !.disk = @ \o w.out, !.buf = w.buf]]
    <3> DEFINE disk == file[f].disk \o w.out
               new == Rewrite(file[f], shut, later, disk, w.buf)
    <3>1. disk \in Seq(Nat)
      BY <2>1, <2>2
    <3>2. [[file[f] EXCEPT !.next = @ + op[f].n, !.open = shut]
             EXCEPT !.disk = @ \o w.out, !.buf = w.buf] = new
      BY <1>3 DEF Records, Rewrite
    <3>3. file' = [file EXCEPT ![f] = new]
      BY <2>6, <3>2
    <3>4. shut \in BOOLEAN
      OBVIOUS
    <3>5. ASSUME file[f].ok
          PROVE  /\ Numbered(disk, 0) /\ file[f].kept <= Len(disk)
                 /\ Len(disk) <= MaxBytes[f]
                 /\ Numbered(w.buf, Len(disk)) /\ Len(disk) + Len(w.buf) = later
      <4> DEFINE d == Len(file[f].disk)
                 o == Len(w.out)
                 k == Len(w.buf)
      <4>1. /\ Numbered(w.out, d) /\ Numbered(w.buf, d + o) /\ d + o + k = later
            /\ Numbered(file[f].disk, 0) /\ file[f].kept <= d
        <5>1. op[f].kind \in {"append", "flush", "sync", "close"}
          BY <1>1, <1>3, <1>6 DEF Poised, Ops
        <5>2. Numbered(file[f].disk, 0) /\ file[f].kept <= d
          BY <1>3, <3>5 DEF Sound
        <5> QED
          BY <1>1, <3>5, <5>1, <5>2, WrittenSplits, Zenon
      <4>2. d \in Nat /\ o \in Nat /\ k \in Nat /\ 0 + d = d
        BY <2>1, <2>2
      <4>3. Numbered(disk, 0) /\ Len(disk) = d + o
        <5>1. Numbered(w.out, 0 + Len(file[f].disk)) /\ 0 \in Nat
          BY <4>1, <4>2
        <5> QED
          BY <4>1, <5>1, NumberedConcat, Zenon
      <4> HIDE DEF d, o, k, disk, later
      <4>4. file[f].kept <= d + o /\ d + o <= MaxBytes[f]
        BY <2>2, <2>3, <4>1, <4>2
      <4> QED
        BY <4>1, <4>3, <4>4 DEF k
    <3> HIDE DEF disk, later, shut
    <3>6. PICK q \in Records :
             q = new /\ q.buf = w.buf /\ q.disk = disk /\ q.next = later
             /\ q.kept = file[f].kept /\ q.ok = file[f].ok
      <4>1. /\ file[f] \in Records /\ shut \in BOOLEAN /\ later \in Nat
            /\ disk \in Seq(Nat) /\ w.buf \in Seq(Nat)
        BY <1>3, <2>1, <2>2, <3>1, <3>4, Zenon
      <4>2. PICK s \in BOOLEAN, l \in Nat, d \in Seq(Nat), b \in Seq(Nat) :
                   s = shut /\ l = later /\ d = disk /\ b = w.buf
        BY <4>1
      <4>3. PICK q \in Records :
                   /\ q = Rewrite(file[f], s, l, d, b)
                   /\ q.buf = b /\ q.disk = d /\ q.next = l
                   /\ q.kept = file[f].kept /\ q.ok = file[f].ok
        <5>1. PICK r \in Records : r = file[f]
          BY <4>1
        <5>2. PICK q \in Records :
                     /\ q = Rewrite(r, s, l, d, b)
                     /\ q.buf = b /\ q.disk = d /\ q.next = l
                     /\ q.kept = r.kept /\ q.ok = r.ok
          BY Rewritten
        <5> QED
          BY <5>1, <5>2
      <4> QED
        BY <4>2, <4>3
    <3> HIDE DEF new
    <3>7. Sound(f, q, TRUE)
      BY <2>1, <2>3, <3>5, <3>6, Zenon DEF Sound
    <3> QED
      BY <2>4, <3>3, <3>6, <3>7
  <2>7. CASE \E part \in Prefixes(w.out) \ {w.out} :
               file' = [file EXCEPT ![f] = [[file[f] EXCEPT !.next = @ + op[f].n, !.open = shut]
                                             EXCEPT !.disk = @ \o part, !.buf = <<>>, !.ok = FALSE]]
    <3>1. PICK part \in Prefixes(w.out) :
               file' = [file EXCEPT ![f] = [[file[f] EXCEPT !.next = @ + op[f].n, !.open = shut]
                                             EXCEPT !.disk = @ \o part, !.buf = <<>>, !.ok = FALSE]]
      BY <2>7
    <3>2. part \in Seq(Nat)
      BY <2>1, PrefixesTyped
    <3> DEFINE disk == file[f].disk \o part
               new == Spoil(file[f], shut, later, disk)
    <3>3. disk \in Seq(Nat) /\ shut \in BOOLEAN
      BY <2>2, <3>2
    <3>4. [[file[f] EXCEPT !.next = @ + op[f].n, !.open = shut]
             EXCEPT !.disk = @ \o part, !.buf = <<>>, !.ok = FALSE] = new
      BY <1>3 DEF Records, Spoil
    <3>5. file' = [file EXCEPT ![f] = new]
      BY <3>1, <3>4
    <3> HIDE DEF disk, later, shut
    <3>6. PICK q \in Records : q = new /\ q.buf = <<>> /\ q.next = later /\ ~q.ok
      <4>1. /\ file[f] \in Records /\ shut \in BOOLEAN /\ later \in Nat
            /\ disk \in Seq(Nat)
        BY <1>3, <2>2, <3>3, Zenon
      <4>2. PICK s \in BOOLEAN, l \in Nat, d \in Seq(Nat) :
                   s = shut /\ l = later /\ d = disk
        BY <4>1
      <4>3. PICK q \in Records :
                   q = Spoil(file[f], s, l, d) /\ q.buf = <<>> /\ q.next = l /\ ~q.ok
        <5>1. PICK r \in Records : r = file[f]
          BY <4>1
        <5>2. PICK q \in Records :
                     q = Spoil(r, s, l, d) /\ q.buf = <<>> /\ q.next = l /\ ~q.ok
          BY Spoilt
        <5> QED
          BY <5>1, <5>2
      <4> QED
        BY <4>2, <4>3
    <3> HIDE DEF new
    <3>7. Sound(f, q, TRUE)
      BY <2>3, <2>5, <3>6, Zenon DEF Sound
    <3> QED
      BY <3>5, <3>6, <3>7
  <2> QED
    BY <1>6, <2>6, <2>7 DEF Perform
<1> QED
  BY <1>5, <1>6

LEMMA FilesEnd ==
  ASSUME FileInv, OpTypes, NEW f \in Files, EndOp(f)
  PROVE  FileInv'
<1>1. alive /\ op[f].stage = "after"
  BY DEF EndOp, Works
<1>2. CASE DiesAfter(Event(f, op[f].kind))
  BY <1>1, <1>2, KilledFiles DEF EndOp
<1>3. CASE ~DiesAfter(Event(f, op[f].kind))
  <2>1. /\ op' = [op EXCEPT ![f] = NoOp] /\ UNCHANGED fate
        /\ file' = IF op[f].kind \in {"flush", "sync", "close"} /\ op[f].ok
                   THEN [file EXCEPT ![f].kept = file[f].next]
                   ELSE file
    BY <1>3 DEF EndOp
  <2>2. op'[f] = NoOp /\ \A g \in Files \ {f} : op'[g] = op[g]
    BY <2>1 DEF OpTypes
  <2>3. alive' = TRUE /\ alive = TRUE
    BY <1>1, <2>1 DEF alive
  <2>4. \A r : Poised(f, r, NoOp)
    BY DEF Poised, NoOp
  <2>5. CASE file' = file
    BY <2>2, <2>3, <2>4, <2>5 DEF FileInv
  <2>6. CASE op[f].kind \in {"flush", "sync", "close"} /\ file' = [file EXCEPT ![f].kept = file[f].next]
    <3>1. file \in [Files -> Records] /\ Sound(f, file[f], TRUE) /\ file[f].buf = <<>>
      BY <1>1, <2>3, <2>6 DEF FileInv, Poised
    <3>2. PICK r \in Records : r = file[f]
      BY <3>1
    <3>3. r.next \in Nat /\ r.disk \in Seq(Nat) /\ r.kept \in Nat
      BY DEF Records
    <3>4. PICK q \in Records : /\ q = [r EXCEPT !.kept = r.next]
                               /\ q.buf = r.buf /\ q.disk = r.disk /\ q.next = r.next
                               /\ q.kept = r.next /\ q.ok = r.ok
      <4>1. [r EXCEPT !.kept = r.next] \in Records
        BY <3>3 DEF Records
      <4>2. LET q == [r EXCEPT !.kept = r.next]
            IN  /\ q.buf = r.buf /\ q.disk = r.disk /\ q.next = r.next
                /\ q.kept = r.next /\ q.ok = r.ok
        BY DEF Records
      <4> QED
        BY <4>1, <4>2
    <3>5. file' \in [Files -> Records] /\ file'[f] = q
          /\ \A g \in Files \ {f} : file'[g] = file[g]
      <4>1. file' = [file EXCEPT ![f] = q]
        BY <2>6, <3>1, <3>2, <3>4
      <4> QED
        BY <3>1, <4>1
    <3>6. r.ok => r.next <= Len(r.disk)
      <4> HAVE r.ok
      <4>1. Len(r.disk) + Len(r.buf) = r.next /\ r.buf = <<>>
        BY <3>1, <3>2 DEF Sound
      <4>2. Len(<<>>) = 0 /\ Len(r.disk) \in Nat
        BY <3>3
      <4> QED
        BY <3>3, <4>1, <4>2
    <3>7. Sound(f, q, TRUE)
      <4>1. Sound(f, r, TRUE)
        BY <3>1, <3>2
      <4> QED
        BY <3>4, <3>6, <4>1, Zenon DEF Sound
    <3> QED
      BY <2>2, <2>3, <2>4, <3>5, <3>7 DEF FileInv
  <2> QED
    BY <2>1, <2>5, <2>6
<1> QED
  BY <1>2, <1>3

LEMMA FileInvStep == FileInv /\ CueInv /\ [Next]_vars => FileInv'
<1> SUFFICES ASSUME FileInv, CueInv, [Next]_vars PROVE FileInv'
  OBVIOUS
<1>0. OpTypes
  BY DEF CueInv
<1>1. ASSUME NEW f \in Files, NEW kind \in Does[f], NEW n \in 0 .. MaxBytes[f],
             BeginOp(f, kind, n)
      PROVE  FileInv'
  BY <1>0, <1>1, FilesBegin
<1>2. ASSUME NEW f \in Files, Perform(f) PROVE FileInv'
  BY <1>0, <1>2, FilesPerform
<1>3. ASSUME NEW f \in Files, EndOp(f) PROVE FileInv'
  BY <1>0, <1>3, FilesEnd
<1>4. CASE Kill
  BY <1>0, <1>4, KilledFiles DEF Kill
<1>5. CASE \/ Schedule \/ WorkerSleeps \/ WorkerExits \/ TakeJob \/ FinishJob
           \/ WaitIdleReturns \/ WaitIdleWaits \/ GoOn \/ Arm \/ Disarm
           \/ Destroy \/ Joined \/ UNCHANGED vars
  <2>1. UNCHANGED <<file, op, fate>>
    BY <1>5 DEF Schedule, WorkerSleeps, WorkerExits, TakeJob, FinishJob, WaitIdleReturns,
                WaitIdleWaits, GoOn, Arm, Disarm, Destroy, Joined, vars, fileVars
  <2> QED
    BY <2>1, FilesUntouched
<1> QED
  BY <1>1, <1>2, <1>3, <1>4, <1>5 DEF Next

\* BenchWritableFile (bench_env.h:262-338): whatever is killed when, the file
\* holds a prefix of what was appended, with all that was reported flushed.
THEOREM FilesSurvive == Spec => []SurvivesAsPrefix
<1>1. FileInv => SurvivesAsPrefix
  <2> SUFFICES ASSUME FileInv PROVE SurvivesAsPrefix
    OBVIOUS
  <2>1. ASSUME NEW f \in Files
        PROVE  /\ Len(file[f].buf) <= BufferSize
               /\ file[f].ok =>
                    /\ IsPrefix(file[f].disk, Bytes(0, MaxBytes[f]))
                    /\ Len(file[f].disk) >= file[f].kept
                    /\ alive => file[f].disk \o file[f].buf = Bytes(0, file[f].next)
    <3>1. Sound(f, file[f], alive) /\ MaxBytes[f] \in Nat
      BY FilesAssumption DEF FileInv
    <3>2. file[f].disk \in Seq(Nat) /\ file[f].kept \in Nat /\ Len(file[f].disk) \in Nat
          /\ file[f].next \in Nat
      BY DEF FileInv, Records
    <3>3. ASSUME file[f].ok PROVE IsPrefix(file[f].disk, Bytes(0, MaxBytes[f]))
      <4> DEFINE d == file[f].disk
                 b == Bytes(0, MaxBytes[f])
      <4>1. /\ Numbered(d, 0) /\ Len(d) <= MaxBytes[f]
            /\ Numbered(b, 0) /\ Len(b) = MaxBytes[f]
        BY <3>1, <3>3, BytesNumbered DEF Sound
      <4>2. Len(d) \in 0 .. Len(b) /\ Len(d) \in 0 .. Len(d)
        BY <3>1, <3>2, <4>1
      <4>3. /\ Numbered(SubSeq(d, 1, Len(d)), 0) /\ Len(SubSeq(d, 1, Len(d))) = Len(d)
            /\ Numbered(SubSeq(b, 1, Len(d)), 0) /\ Len(SubSeq(b, 1, Len(d))) = Len(d)
        BY <4>1, <4>2, NumberedPart
      <4>4. SubSeq(d, 1, Len(d)) = SubSeq(b, 1, Len(d))
        BY <4>3, NumberedIsBytes
      <4> QED
        BY <3>1, <3>2, <4>1, <4>4 DEF IsPrefix
    <3>4. ASSUME file[f].ok, alive
          PROVE  file[f].disk \o file[f].buf = Bytes(0, file[f].next)
      <4>1. /\ Numbered(file[f].disk, 0) /\ Numbered(file[f].buf, Len(file[f].disk))
            /\ Len(file[f].disk) + Len(file[f].buf) = file[f].next
        BY <3>1, <3>4 DEF Sound
      <4>2. 0 + Len(file[f].disk) = Len(file[f].disk)
        BY <3>2
      <4>3. /\ Numbered(file[f].disk \o file[f].buf, 0)
            /\ Len(file[f].disk \o file[f].buf) = file[f].next
        BY <4>1, <4>2, NumberedConcat
      <4> QED
        BY <4>3, NumberedIsBytes
    <3>5. Len(file[f].buf) <= BufferSize
      BY <3>1 DEF Sound
    <3>6. file[f].ok => Len(file[f].disk) >= file[f].kept
      BY <3>1, <3>2 DEF Sound
    <3> QED
      BY <3>3, <3>4, <3>5, <3>6
  <2> QED
    BY <2>1, Zenon DEF SurvivesAsPrefix
<1> QED
  BY <1>1, JobInvInit, JobInvStep, CueInvInit, CueInvStep, FileInvInit, FileInvStep,
     PTL DEF Spec
==============================================================================
