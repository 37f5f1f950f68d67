------------------------------- MODULE BenchEnv -------------------------------
(***************************************************************************)
(* The Env every measured or tested process runs on                        *)
(* (environment/bench/bench_env.h): one worker thread that runs scheduled  *)
(* jobs in order, WaitIdle and the destructor that wait for it, writable   *)
(* files with a buffer in the process, and the injector that kills the     *)
(* process at the N-th event of one kind.                                  *)
(*                                                                         *)
(* Two threads act: the main thread, which writes the log, schedules jobs, *)
(* waits and destroys the Env, and the worker, whose jobs write a table    *)
(* and may schedule another job.  Every file operation is begun            *)
(* (CrashInjector::Before), performed and ended (After); SIGKILL can come  *)
(* between any two of these and leaves of the data on its way to the file  *)
(* any prefix.  Data are the numbers of the bytes in the order in which    *)
(* they were appended.                                                     *)
(***************************************************************************)
EXTENDS Integers, Sequences, SequencesExt, FiniteSets

CONSTANTS
  BufferSize,   \* kBufferSize
  MaxBytes,     \* bytes appended to each file
  Does,         \* the operations that are made on each file
  MaxJobs,      \* jobs scheduled
  MaxErrors,    \* writes that fail
  MaxArms,      \* calls of Arm
  Cues          \* what the injector may be configured with

ASSUME SizesAssumption ==
  /\ BufferSize \in Nat \ {0}
  /\ {MaxJobs, MaxErrors, MaxArms} \subseteq Nat

Files == {"log", "table"}
Ops == {"create", "reopen", "append", "flush", "sync", "close", "remove"}

ASSUME FilesAssumption ==
  /\ MaxBytes \in [Files -> Nat]
  /\ Does \in [Files -> SUBSET Ops]

\* AppendEvent, and the events named in the other operations of a file.
Event(f, kind) ==
  CASE kind = "remove" -> "remove_file"
    [] f = "log" /\ kind = "append" -> "log_append"
    [] f = "table" /\ kind \in {"create", "append", "sync", "close"} ->
         "table_" \o kind
    [] OTHER -> "none"

\* A cue is a positive number of events (Configure), which the operations of
\* one thread are: After looks at a count that both threads may advance.
ASSUME CuesAssumption ==
  \A c \in Cues :
    /\ c.n \in Nat \ {0} /\ c.after \in BOOLEAN
    /\ \E f \in Files : \A g \in Files \ {f} : \A kind \in Does[g] :
         Event(g, kind) # c.event

NoOp == [kind |-> "none", n |-> 0, stage |-> "none", counted |-> FALSE, ok |-> TRUE]

VARIABLES
  queue,      \* queue_: how many jobs wait
  pending,    \* pending_
  stop,       \* stop_
  worker,     \* "asleep" on cv_, "awake", "running" a job, "exited"
  main,       \* "free", "waiting" on idle_cv_, "joining" the worker, "gone"
  scheduled,  \* jobs ever scheduled
  jobsRun,    \* jobs_run_
  file,       \* the open and the stored part of each file
  op,         \* the operation in progress on each file
  errors,
  cue,        \* event_, n_, after_
  armed,      \* armed_
  count,      \* count_
  hits,       \* events of the cue's kind performed since it was armed
  arms,
  fate        \* "alive", or killed by its "cue" or from "outside"

jobVars  == <<queue, pending, stop, worker, main, scheduled, jobsRun>>
fileVars == <<file, op, errors>>
cueVars  == <<cue, armed, count, hits, arms>>
vars == <<jobVars, fileVars, cueVars, fate>>

alive == fate = "alive"

\* A file: open_ in the process, buf_[0 .. pos_), what reached the kernel,
\* how many bytes were ever appended, how many of them a successful Flush,
\* Sync or Close was told of, and whether no operation has failed.
Empty == [open |-> FALSE, buf |-> <<>>, disk |-> <<>>, next |-> 0,
          kept |-> 0, ok |-> TRUE]

Init ==
  /\ queue = 0 /\ pending = 0 /\ stop = FALSE
  /\ worker = "awake" /\ main = "free"
  /\ scheduled = 0 /\ jobsRun = 0
  /\ file = [f \in Files |-> Empty]
  /\ op = [f \in Files |-> NoOp]
  /\ errors = 0
  /\ cue \in Cues /\ armed = TRUE /\ count = 0 /\ hits = 0 /\ arms = 0
  /\ fate = "alive"

Idle(f) == op[f] = NoOp

\* The thread that works on a file can take a step on it.
Works(f) ==
  /\ alive
  /\ IF f = "log" THEN main = "free" ELSE worker = "running"

-----------------------------------------------------------------------------
\* Writing.

Bytes(from, n) == [i \in 1 .. n |-> from + i]

\* Mutant: FlushBuffer not called before the rest is written through.
AppendedDirect(f, n) ==
  LET rest == Len(file[f].buf) + n - BufferSize
  IN  IF rest <= 0 THEN [out |-> <<>>, buf |-> file[f].buf \o Bytes(file[f].next, n)]
      ELSE [out |-> Bytes(file[f].next, n), buf |-> file[f].buf]

\* BenchWritableFile::Append: what the buffer keeps and what is written out.
Appended(f, n) ==
  LET all  == file[f].buf \o Bytes(file[f].next, n)
      rest == Len(all) - BufferSize
  IN  IF rest <= 0 THEN [out |-> <<>>, buf |-> all]
      ELSE IF rest < BufferSize
      THEN [out |-> SubSeq(all, 1, BufferSize),
            buf |-> SubSeq(all, BufferSize + 1, Len(all))]
      ELSE [out |-> all, buf |-> <<>>]

\* What an operation in progress hands to write(2), and what stays behind.
Written(f) ==
  CASE op[f].kind = "append" -> Appended(f, op[f].n)
    [] op[f].kind \in {"flush", "sync", "close"} -> [out |-> file[f].buf, buf |-> <<>>]
    [] OTHER -> [out |-> <<>>, buf |-> <<>>]

\* SIGKILL: the threads, their jobs and the buffers are gone, a write that
\* was under way got part of its bytes out.
Killed(by) ==
  /\ fate' = by
  /\ queue' = 0 /\ pending' = 0 /\ stop' = FALSE /\ scheduled' = 0 /\ jobsRun' = 0
  /\ worker' = "exited" /\ main' = "gone"
  /\ op' = [f \in Files |-> NoOp]
  /\ file' \in {[f \in Files |-> [file[f] EXCEPT !.open = FALSE, !.buf = <<>>,
                                                 !.disk = @ \o part[f]]] :
                part \in {p \in [Files -> UNION {Prefixes(Written(f).out) : f \in Files}] :
                  \A f \in Files :
                    IF op[f].stage = "before"
                    THEN p[f] \in Prefixes(Written(f).out)
                    ELSE p[f] = <<>>}}

\* CrashInjector::Before and After.
Counts(e) == e # "none" /\ e = cue.event /\ armed
DiesBefore(e) == Counts(e) /\ ~cue.after /\ count + 1 = cue.n
DiesAfter(e)  == Counts(e) /\ cue.after /\ count = cue.n

BeginOp(f, kind, n) ==
  /\ Works(f) /\ Idle(f)
  /\ file[f].open = (kind \notin {"create", "reopen", "remove"})
  /\ IF kind = "append" THEN n > 0 /\ file[f].next + n <= MaxBytes[f] ELSE n = 0
  /\ LET e == Event(f, kind)
     IN  /\ count' = IF Counts(e) THEN count + 1 ELSE count
         /\ IF DiesBefore(e)
            THEN Killed("cue")
            ELSE /\ op' = [op EXCEPT ![f] = [kind |-> kind, n |-> n, stage |-> "before",
                                             counted |-> Counts(e), ok |-> TRUE]]
                 /\ UNCHANGED <<jobVars, file, fate>>
  /\ UNCHANGED <<errors, cue, armed, hits, arms>>

\* NewWritableFile truncates, NewAppendableFile does not, RemoveFile unlinks.
Renewed(f) ==
  CASE op[f].kind = "create" -> [Empty EXCEPT !.open = TRUE]
    [] op[f].kind = "reopen" -> [file[f] EXCEPT !.open = TRUE]
    [] op[f].kind = "remove" -> Empty

\* The operation itself.  A failed write loses the buffer: FlushBuffer sets
\* pos_ to 0 in any case, and Append drops what it has not yet copied.
Perform(f) ==
  /\ Works(f) /\ op[f].stage = "before"
  /\ hits' = IF op[f].counted THEN hits + 1 ELSE hits
  /\ IF op[f].kind \in {"create", "reopen", "remove"}
     THEN /\ file' = [file EXCEPT ![f] = Renewed(f)]
          /\ op' = [op EXCEPT ![f].stage = "after"]
          /\ UNCHANGED errors
     ELSE LET w == Written(f)
              moved == [file[f] EXCEPT !.next = @ + op[f].n,
                                       !.open = op[f].kind # "close"]
          IN  \/ /\ file' = [file EXCEPT ![f] = [moved EXCEPT !.disk = @ \o w.out,
                                                              !.buf = w.buf]]
                 /\ op' = [op EXCEPT ![f].stage = "after"]
                 /\ UNCHANGED errors
              \/ /\ errors < MaxErrors /\ w.out # <<>>
                 /\ errors' = errors + 1
                 /\ \E part \in Prefixes(w.out) \ {w.out} :
                      file' = [file EXCEPT ![f] = [moved EXCEPT !.disk = @ \o part,
                                                                !.buf = <<>>,
                                                                !.ok = FALSE]]
                 /\ op' = [op EXCEPT ![f].stage = "after", ![f].ok = FALSE]
  /\ UNCHANGED <<jobVars, cue, armed, count, arms, fate>>

EndOp(f) ==
  /\ Works(f) /\ op[f].stage = "after"
  /\ IF DiesAfter(Event(f, op[f].kind))
     THEN Killed("cue")
     ELSE /\ op' = [op EXCEPT ![f] = NoOp]
          /\ file' = IF op[f].kind \in {"flush", "sync", "close"} /\ op[f].ok
                     THEN [file EXCEPT ![f].kept = file[f].next]
                     ELSE file
          /\ UNCHANGED <<jobVars, fate>>
  /\ UNCHANGED <<errors, cueVars>>

\* The crash the injector did not choose.
Kill == alive /\ Killed("outside") /\ UNCHANGED <<errors, cueVars>>

-----------------------------------------------------------------------------
\* Jobs.

MainFree == alive /\ main = "free" /\ Idle("log")

\* Schedule, by the main thread or by the job that is running.
Schedule ==
  /\ MainFree \/ (alive /\ worker = "running" /\ Idle("table"))
  /\ scheduled < MaxJobs
  /\ scheduled' = scheduled + 1
  /\ queue' = queue + 1
  /\ pending' = pending + 1
  /\ worker' = IF worker = "asleep" THEN "awake" ELSE worker
  /\ UNCHANGED <<stop, main, jobsRun, fileVars, cueVars, fate>>

\* WorkerLoop: wait on cv_, leave, or take a job.
WorkerSleeps ==
  /\ alive /\ worker = "awake"
  /\ ~stop /\ queue = 0
  /\ worker' = "asleep"
  /\ UNCHANGED <<queue, pending, stop, main, scheduled, jobsRun, fileVars, cueVars, fate>>

\* Mutant: the worker leaves as soon as it is told to stop.
WorkerExitsAtOnce ==
  /\ alive /\ worker = "awake"
  /\ stop
  /\ worker' = "exited"
  /\ UNCHANGED <<queue, pending, stop, main, scheduled, jobsRun, fileVars, cueVars, fate>>

WorkerExits ==
  /\ alive /\ worker = "awake"
  /\ stop /\ queue = 0
  /\ worker' = "exited"
  /\ UNCHANGED <<queue, pending, stop, main, scheduled, jobsRun, fileVars, cueVars, fate>>

TakeJob ==
  /\ alive /\ worker = "awake"
  /\ queue > 0
  /\ queue' = queue - 1
  /\ worker' = "running"
  /\ UNCHANGED <<pending, stop, main, scheduled, jobsRun, fileVars, cueVars, fate>>

\* Mutant: the last job does not notify idle_cv_.
FinishJobSilent ==
  /\ alive /\ worker = "running" /\ Idle("table")
  /\ jobsRun' = jobsRun + 1
  /\ pending' = pending - 1
  /\ worker' = "awake"
  /\ UNCHANGED <<queue, stop, main, scheduled, fileVars, cueVars, fate>>

\* The job returns; the last one wakes WaitIdle.
FinishJob ==
  /\ alive /\ worker = "running" /\ Idle("table")
  /\ jobsRun' = jobsRun + 1
  /\ pending' = pending - 1
  /\ worker' = "awake"
  /\ main' = IF pending - 1 = 0 /\ main = "waiting" THEN "woken" ELSE main
  /\ UNCHANGED <<queue, stop, scheduled, fileVars, cueVars, fate>>

\* Mutant: WaitIdle looks at the queue only.
WaitIdleReturnsEarly ==
  /\ MainFree \/ (alive /\ main = "woken")
  /\ queue = 0
  /\ main' = "idle"
  /\ UNCHANGED <<queue, pending, stop, worker, scheduled, jobsRun, fileVars, cueVars, fate>>

\* WaitIdle: return at once, or wait; woken, look again.
WaitIdleReturns ==
  /\ MainFree \/ (alive /\ main = "woken")
  /\ pending = 0
  /\ main' = "idle"
  /\ UNCHANGED <<queue, pending, stop, worker, scheduled, jobsRun, fileVars, cueVars, fate>>

WaitIdleWaits ==
  /\ MainFree \/ (alive /\ main = "woken")
  /\ pending # 0
  /\ main' = "waiting"
  /\ UNCHANGED <<queue, pending, stop, worker, scheduled, jobsRun, fileVars, cueVars, fate>>

\* The caller of WaitIdle goes on: it may first arm or disarm the injector.
GoOn ==
  /\ alive /\ main = "idle"
  /\ main' = "free"
  /\ UNCHANGED <<queue, pending, stop, worker, scheduled, jobsRun, fileVars, cueVars, fate>>

\* Mutant: Arm does not restart the count.
ArmKeepsCount ==
  /\ alive /\ main = "idle" /\ arms < MaxArms
  /\ armed' = TRUE /\ hits' = 0
  /\ arms' = arms + 1
  /\ UNCHANGED <<jobVars, fileVars, cue, count, fate>>

Arm ==
  /\ alive /\ main = "idle" /\ arms < MaxArms
  /\ armed' = TRUE /\ count' = 0 /\ hits' = 0
  /\ arms' = arms + 1
  /\ UNCHANGED <<jobVars, fileVars, cue, fate>>

Disarm ==
  /\ alive /\ main = "idle" /\ armed
  /\ armed' = FALSE
  /\ UNCHANGED <<jobVars, fileVars, cue, count, hits, arms, fate>>

\* ~BenchEnv: stop, notify, join.
Destroy ==
  /\ MainFree
  /\ stop' = TRUE
  /\ worker' = IF worker = "asleep" THEN "awake" ELSE worker
  /\ main' = "joining"
  /\ UNCHANGED <<queue, pending, scheduled, jobsRun, fileVars, cueVars, fate>>

Joined ==
  /\ alive /\ main = "joining" /\ worker = "exited"
  /\ main' = "gone"
  /\ UNCHANGED <<queue, pending, stop, worker, scheduled, jobsRun, fileVars, cueVars, fate>>

Next ==
  \/ \E f \in Files : \E kind \in Does[f], n \in 0 .. MaxBytes[f] : BeginOp(f, kind, n)
  \/ \E f \in Files : Perform(f) \/ EndOp(f)
  \/ Kill
  \/ Schedule \/ WorkerSleeps \/ WorkerExits \/ TakeJob \/ FinishJob
  \/ WaitIdleReturns \/ WaitIdleWaits \/ GoOn \/ Arm \/ Disarm
  \/ Destroy \/ Joined

Spec == Init /\ [][Next]_vars

\* The threads run; a job is a call of the engine that returns, however many
\* operations on files it makes before that.
FairSpec ==
  /\ Spec
  /\ WF_vars(WorkerExits) /\ WF_vars(TakeJob) /\ SF_vars(FinishJob)
  /\ WF_vars(Perform("table")) /\ WF_vars(EndOp("table"))
  /\ WF_vars(main = "woken" /\ WaitIdleReturns)
  /\ WF_vars(Joined)

-----------------------------------------------------------------------------
\* Properties.

(* WaitIdle (bench_env.h:565): when it has returned, no job is queued or   *)
(* running, those that other jobs scheduled included, so the counters and  *)
(* the injector can be read and set.                                       *)
IdleMeansIdle ==
  main = "idle" => queue = 0 /\ worker # "running" /\ jobsRun = scheduled

(* What a killed process leaves of a file on which no write failed is a    *)
(* prefix of what was appended, with at least everything a successful      *)
(* Flush, Sync or Close had reported, and the buffer never overflows       *)
(* (BenchWritableFile, 262-338).                                           *)
SurvivesAsPrefix ==
  \A f \in Files : Len(file[f].buf) <= BufferSize /\ (file[f].ok =>
    /\ IsPrefix(file[f].disk, Bytes(0, MaxBytes[f]))
    /\ Len(file[f].disk) >= file[f].kept
    /\ alive => file[f].disk \o file[f].buf = Bytes(0, file[f].next))

(* The injector (126-189) kills the process at the N-th armed event, before*)
(* or after it is performed as configured, never earlier and never later.  *)
CrashesOnCue ==
  /\ fate = "cue" => hits = IF cue.after THEN cue.n ELSE cue.n - 1
  /\ alive /\ (\A f \in Files : Idle(f)) => hits < cue.n

(* A thread that waits for the jobs gets on, unless the process dies.      *)
WaitEnds == main = "waiting" ~> (main = "idle" \/ ~alive)

(* The destructor ends, and only when every scheduled job has run.         *)
ShutdownRunsAll ==
  main = "joining" ~> ((main = "gone" /\ jobsRun = scheduled) \/ ~alive)

=============================================================================
