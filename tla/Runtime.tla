------------------------------ MODULE Runtime -------------------------------
(***************************************************************************)
(* The runtime of carve serve: worker loops (runtime/worker.py), their     *)
(* heartbeats (runtime/heartbeat.py) and the reaper (runtime/reaper.py),   *)
(* meeting in the jobs table and in the runs table                         *)
(* (core/state/repository.py).  Every await of run_once that reaches the   *)
(* database is a step of its own, so the steps of several workers and of   *)
(* the reaper interleave, a worker may die between any two of them, and    *)
(* any of them may raise.                                                  *)
(***************************************************************************)
EXTENDS JobQueue, FiniteSets

CONSTANTS
    LabelFor,    \* the label that a pipeline's components require
    MaxCrashes,  \* bound on worker deaths (kill -9, cancellation at shutdown)
    MaxStalls,   \* bound on live workers silent for longer than the threshold
    MaxDbErrors, \* bound on statements that raise
    MaxLeft,     \* bound on executions left behind at one time
    Archiving    \* whether finished runs leave the table (runtime/archiver.py)

ASSUME LabelForAssumption == LabelFor \in [Pipelines -> Labels \cup {Null}]
ASSUME FaultBounds == /\ MaxCrashes \in Nat /\ MaxStalls \in Nat
                      /\ MaxDbErrors \in Nat /\ MaxLeft \in Nat
ASSUME ArchivingAssumption == Archiving \in BOOLEAN

VARIABLES
    runs,     \* the status column of runs
    events,   \* the run lifecycle events written for each run
    worker,   \* each worker's position in run_once and its locals
    beats,    \* heartbeats past their owner check, write still to come
    pending,  \* reclaimed runs the current reaper pass has still to fail
    orphans,  \* runs some of whose steps execute on after their worker left them
    faults    \* how many deaths, stalls and raising statements happened

vars == <<jobs, runs, events, worker, beats, pending, orphans, faults>>

OpenRun == {"queued", "running"}
ClosedRun == {"success", "failed", "cancelled"}

\* RunResult.status; both tables file a partial run under failed, so here
\* "failed" is failed or partial.
Results == {"succeeded", "failed"}
RunStatusByResult == [res \in Results |-> IF res = "succeeded" THEN "success" ELSE "failed"]
JobStatusByResult == [res \in Results |-> res]

\* Where a worker is in run_once: the statement it issues next.
PC == {"idle", "create_run", "transition", "release", "cancel_run", "mark_running",
       "announce", "execute", "finish_run", "finish_job", "finish_emit",
       "fail_run", "fail_job", "fail_emit", "dead"}

IdleWorker == [pc |-> "idle", job |-> Null, run |-> Null, result |-> Null]

Init ==
    /\ QueueInit
    /\ runs = [r \in Runs |-> "absent"]
    /\ events = [r \in Runs |-> {}]
    /\ worker = [w \in Workers |-> IdleWorker]
    /\ beats = {}
    /\ pending = {}
    /\ orphans = {}
    /\ faults = [crash |-> 0, stall |-> 0, db |-> 0]

At(w, label) == worker[w].pc = label
Goto(w, label) == worker' = [worker EXCEPT ![w].pc = label]
PollAgain(w) == worker' = [worker EXCEPT ![w] = IdleWorker]

\* Repository.update_run_status: the status is written whatever it was.
update_run_status(r, status) == runs' = [runs EXCEPT ![r] = status]

emit(kind, r) == events' = [events EXCEPT ![r] = @ \cup {kind}]

-----------------------------------------------------------------------------
(* Producers: the scheduler and POST /runs.                                *)

\* resolve_worker_label: a pipeline file that cannot be read, parsed or reduced
\* to one label (any exception) is treated as unlabeled.
resolve_worker_label(p) == {LabelFor[p], Null}

EnqueueScheduled(p) ==
    /\ \E l \in resolve_worker_label(p) : enqueue_scheduled(p, l)
    /\ UNCHANGED <<runs, events, worker, beats, pending, orphans, faults>>

TriggerRun(p) ==
    /\ \E l \in resolve_worker_label(p) : enqueue_manual(p, l)
    /\ UNCHANGED <<runs, events, worker, beats, pending, orphans, faults>>

-----------------------------------------------------------------------------
(* run_once.                                                               *)

Claim(w) ==
    /\ At(w, "idle")
    /\ \E j \in Jobs :
          /\ claim_next(w, j)
          /\ worker' = [worker EXCEPT ![w].pc = "create_run", ![w].job = j]
    /\ UNCHANGED <<runs, events, beats, pending, orphans, faults>>

NextRun(r) == runs[r] = "absent" /\ \A q \in Runs : q < r => runs[q] # "absent"

CreateRun(w) ==
    /\ At(w, "create_run")
    /\ \E r \in Runs :
          /\ NextRun(r)
          /\ update_run_status(r, "queued")
          /\ worker' = [worker EXCEPT ![w].pc = "transition", ![w].run = r]
    /\ UNCHANGED <<jobs, events, beats, pending, orphans, faults>>

\* Three outcomes: the flip lands, PipelineAlreadyRunning, or the guard
\* matches no row because the job was reclaimed from this worker.
Transition(w) ==
    LET j == worker[w].job IN
    /\ At(w, "transition")
    /\ \/ transition_to_running(w, j, worker[w].run) /\ Goto(w, "mark_running")
       \/ PipelineAlreadyRunning(w, j) /\ Goto(w, "release") /\ UNCHANGED jobs
       \/ ~CanStart(w, j) /\ Goto(w, "cancel_run") /\ UNCHANGED jobs
    /\ UNCHANGED <<runs, events, beats, pending, orphans, faults>>

\* The back-off.  An IntegrityError of the one-queued index is an Exception
\* like any other and ends in _fail_job.
ReleaseClaim(w) ==
    LET j == worker[w].job IN
    /\ At(w, "release")
    /\ \/ release_claim(j) /\ Goto(w, "cancel_run")
       \/ OtherQueued(j) /\ Goto(w, "fail_run") /\ UNCHANGED jobs
    /\ UNCHANGED <<runs, events, beats, pending, orphans, faults>>

CancelRun(w) ==
    /\ At(w, "cancel_run")
    /\ update_run_status(worker[w].run, "cancelled")
    /\ PollAgain(w)
    /\ UNCHANGED <<jobs, events, beats, pending, orphans, faults>>

MarkRunning(w) ==
    /\ At(w, "mark_running")
    /\ update_run_status(worker[w].run, "running")
    /\ Goto(w, "announce")
    /\ UNCHANGED <<jobs, events, beats, pending, orphans, faults>>

\* Emits run.started and starts the heartbeat loop.
Announce(w) ==
    /\ At(w, "announce")
    /\ emit("started", worker[w].run)
    /\ Goto(w, "execute")
    /\ UNCHANGED <<jobs, runs, beats, pending, orphans, faults>>

\* The steps of a run may execute on without their worker: a statement in its
\* thread after the step's timeout, the siblings of a coroutine whose sink call
\* raised, the thread of a cancelled task, the subprocess of a killed process.
Execution(w) == [run |-> worker[w].run, pipeline |-> jobs[worker[w].job].pipeline]
MayLeaveBehind(w) ==
    \/ UNCHANGED orphans
    \/ Cardinality(orphans) < MaxLeft /\ orphans' = orphans \cup {Execution(w)}

\* execute_pipeline returns a result or raises; the heartbeat loop is stopped.
Execute(w) ==
    /\ At(w, "execute")
    /\ \/ \E res \in Results :
             worker' = [worker EXCEPT ![w].pc = "finish_run", ![w].result = res]
       \/ Goto(w, "fail_run")
    /\ MayLeaveBehind(w)
    /\ UNCHANGED <<jobs, runs, events, beats, pending, faults>>

\* What was left behind ends by itself, if it ends.
OrphanEnds(o) ==
    /\ orphans' = orphans \ {o}
    /\ UNCHANGED <<jobs, runs, events, worker, beats, pending, faults>>

\* _finalize
FinishRun(w) ==
    /\ At(w, "finish_run")
    /\ update_run_status(worker[w].run, RunStatusByResult[worker[w].result])
    /\ Goto(w, "finish_job")
    /\ UNCHANGED <<jobs, events, beats, pending, orphans, faults>>

\* The guarded terminal write: lands, or matches no row.
FinishOrSkip(w, j, s) == mark_finished(w, j, s) \/ (~CanFinish(w, j) /\ UNCHANGED jobs)

FinishJob(w) ==
    /\ At(w, "finish_job")
    /\ FinishOrSkip(w, worker[w].job, JobStatusByResult[worker[w].result])
    /\ Goto(w, "finish_emit")
    /\ UNCHANGED <<runs, events, beats, pending, orphans, faults>>

FinishEmit(w) ==
    /\ At(w, "finish_emit")
    /\ emit(IF worker[w].result = "succeeded" THEN "succeeded" ELSE "failed", worker[w].run)
    /\ PollAgain(w)
    /\ UNCHANGED <<jobs, runs, beats, pending, orphans, faults>>

\* _fail_job: the run (when there is one), then the job, each best effort.
FailRun(w) ==
    /\ At(w, "fail_run")
    /\ update_run_status(worker[w].run, "failed")
    /\ Goto(w, "fail_job")
    /\ UNCHANGED <<jobs, events, beats, pending, orphans, faults>>

FailJob(w) ==
    /\ At(w, "fail_job")
    /\ FinishOrSkip(w, worker[w].job, "failed")
    /\ Goto(w, "fail_emit")
    /\ UNCHANGED <<runs, events, beats, pending, orphans, faults>>

FailEmit(w) ==
    /\ At(w, "fail_emit")
    /\ IF worker[w].run = Null THEN UNCHANGED events ELSE emit("failed", worker[w].run)
    /\ PollAgain(w)
    /\ UNCHANGED <<jobs, runs, beats, pending, orphans, faults>>

\* A statement raises.  Inside the try of run_once the handler is _fail_job
\* (which skips the run when create_run is what raised); _finalize is outside
\* it, so there the exception reaches worker_loop and the job stays running;
\* _fail_job and the emitter swallow theirs and go on.
\* Mutant: _finalize suppresses a failed terminal write and goes on to emit.
OnError_finalize_suppressed == [pc \in PC |->
    CASE pc = "create_run" -> "fail_job"
      [] pc \in {"transition", "release", "cancel_run", "mark_running"} -> "fail_run"
      [] pc = "announce" -> "execute"
      [] pc = "finish_job" -> "finish_emit"
      [] pc = "fail_run" -> "fail_job"
      [] pc = "fail_job" -> "fail_emit"
      [] OTHER -> "idle"]

OnError == [pc \in PC |->
    CASE pc = "create_run" -> "fail_job"
      [] pc \in {"transition", "release", "cancel_run", "mark_running"} -> "fail_run"
      [] pc = "announce" -> "execute"
      [] pc = "fail_run" -> "fail_job"
      [] pc = "fail_job" -> "fail_emit"
      [] OTHER -> "idle"]

DbError(w) ==
    /\ faults.db < MaxDbErrors
    /\ worker[w].pc \notin {"idle", "execute", "dead"}
    /\ IF OnError[worker[w].pc] = "idle" THEN PollAgain(w) ELSE Goto(w, OnError[worker[w].pc])
    /\ faults' = [faults EXCEPT !.db = @ + 1]
    /\ UNCHANGED <<jobs, runs, events, beats, pending, orphans>>

\* kill -9, or a task cancelled at shutdown: except Exception does not see a
\* CancelledError, so nothing is cleaned up.  A heartbeat already handed to
\* its thread may still be written.
Crash(w) ==
    /\ faults.crash < MaxCrashes
    /\ ~At(w, "dead")
    /\ worker' = [worker EXCEPT ![w] = [IdleWorker EXCEPT !.pc = "dead"]]
    /\ faults' = [faults EXCEPT !.crash = @ + 1]
    /\ IF At(w, "execute") THEN MayLeaveBehind(w) ELSE UNCHANGED orphans
    /\ UNCHANGED <<jobs, runs, events, beats, pending>>

-----------------------------------------------------------------------------
(* The heartbeat loop: one beat is the check, then the write; stopping the *)
(* loop does not call back a beat whose thread has started.                *)

BeatCheck(w) ==
    /\ At(w, "execute")
    /\ HeartbeatCheck(w, worker[w].job)
    /\ <<w, worker[w].job>> \notin beats
    /\ beats' = beats \cup {<<w, worker[w].job>>}
    /\ UNCHANGED <<jobs, runs, events, worker, pending, orphans, faults>>

BeatWrite(w, j) ==
    /\ <<w, j>> \in beats
    /\ HeartbeatWrite(j)
    /\ beats' = beats \ {<<w, j>>}
    /\ UNCHANGED <<runs, events, worker, pending, orphans, faults>>

-----------------------------------------------------------------------------
(* The reaper, and the clock it reads.                                     *)

\* A worker that is alive and still at work on the job it owns.
Attends(w, j) == /\ worker[w].pc \notin {"idle", "dead"}
                 /\ worker[w].job = j
                 /\ jobs[j].claimedBy = w
                 /\ jobs[j].status \in Held

\* The threshold passes on an abandoned job by itself; on an attended one
\* only if its worker is silent for 60 s (a stalled host, a lost connection).
HeartbeatExpires(j) ==
    /\ Expire(j)
    /\ IF \E w \in Workers : Attends(w, j)
       THEN /\ faults.stall < MaxStalls
            /\ faults' = [faults EXCEPT !.stall = @ + 1]
       ELSE UNCHANGED faults
    /\ UNCHANGED <<runs, events, worker, beats, pending, orphans>>

\* reap_stale_once, first half: the batch UPDATE.
Reclaim ==
    /\ pending = {}
    /\ reclaim_stale
    /\ pending' = {jobs[j].runId : j \in StaleJobs} \ {Null}
    /\ UNCHANGED <<runs, events, worker, beats, orphans, faults>>

\* Second half, one reclaimed job at a time: fail the run it points to.
FailReclaimed(r) ==
    /\ r \in pending
    /\ update_run_status(r, "failed")
    /\ pending' = pending \ {r}
    /\ UNCHANGED <<jobs, events, worker, beats, orphans, faults>>

\* update_run_status raises, or serve dies: the rest of the pass is lost.
ReaperError ==
    /\ pending # {}
    /\ faults.db < MaxDbErrors
    /\ pending' = {}
    /\ faults' = [faults EXCEPT !.db = @ + 1]
    /\ UNCHANGED <<jobs, runs, events, worker, beats, orphans>>

\* Retention: a closed run no job row refers to leaves the live table, long
\* after the last worker and the last thread that held it.
ArchiveRun(r) ==
    /\ Archiving
    /\ runs[r] \in ClosedRun
    /\ \A j \in Jobs : jobs[j].runId # r
    /\ \A w \in Workers : worker[w].run # r
    /\ \A o \in orphans : o.run # r
    /\ r \notin pending
    /\ runs' = [runs EXCEPT ![r] = "absent"]
    /\ events' = [events EXCEPT ![r] = {}]
    /\ UNCHANGED <<jobs, worker, beats, pending, orphans, faults>>

-----------------------------------------------------------------------------
RunOnce(w) ==
    \/ Claim(w) \/ CreateRun(w) \/ Transition(w) \/ ReleaseClaim(w) \/ CancelRun(w)
    \/ MarkRunning(w) \/ Announce(w) \/ Execute(w)
    \/ FinishRun(w) \/ FinishJob(w) \/ FinishEmit(w)
    \/ FailRun(w) \/ FailJob(w) \/ FailEmit(w)

Next ==
    \/ \E p \in Pipelines : EnqueueScheduled(p) \/ TriggerRun(p)
    \/ \E w \in Workers : RunOnce(w) \/ DbError(w) \/ Crash(w) \/ BeatCheck(w)
    \/ \E w \in Workers, j \in Jobs : BeatWrite(w, j)
    \/ \E j \in Jobs : HeartbeatExpires(j)
    \/ Reclaim \/ ReaperError
    \/ \E r \in Runs : FailReclaimed(r) \/ ArchiveRun(r)
    \/ \E o \in orphans : OrphanEnds(o)

Spec == Init /\ [][Next]_vars

\* Every loop polls forever (worker_loop, reaper_loop), pipelines return, time
\* passes.  Nothing is assumed of producers, faults or heartbeats.
Fairness ==
    /\ \A w \in Workers : WF_vars(RunOnce(w))
    /\ WF_vars(Reclaim)
    /\ \A r \in Runs : WF_vars(FailReclaimed(r)) /\ WF_vars(ArchiveRun(r))
    /\ \A j \in Jobs : WF_vars(HeartbeatExpires(j) /\ UNCHANGED faults)

FairSpec == Spec /\ Fairness

-----------------------------------------------------------------------------
(* Properties.                                                             *)

WorkerState == [pc : PC, job : Jobs \cup {Null}, run : Runs \cup {Null},
                result : Results \cup {Null}]

\* Every variable has its type.
TypeOK ==
    /\ QueueTypeOK
    /\ runs \in [Runs -> {"absent"} \cup OpenRun \cup ClosedRun]
    /\ events \in [Runs -> SUBSET {"started", "succeeded", "failed"}]
    /\ worker \in [Workers -> WorkerState]
    /\ beats \subseteq Workers \X Jobs
    /\ pending \subseteq Runs
    /\ orphans \subseteq [run : Runs, pipeline : Pipelines \cup {Null}]
    /\ faults \in [crash : Nat, stall : Nat, db : Nat]

NoStall == faults.stall = 0

Executing(w) == worker[w].pc \in {"mark_running", "announce", "execute", "finish_run", "finish_job"}

\* As long as no live worker was silent past the threshold, a worker between
\* its transition_to_running and its terminal write still owns a running job
\* bound to its own run, whatever the other workers, the reaper, deaths and
\* raising statements did meanwhile: the reaper never takes a job from a
\* worker that beats, and no other worker's back-off or finish reaches it.
ExecutorOwnsJob ==
    NoStall => \A w \in Workers : Executing(w) =>
        LET row == jobs[worker[w].job] IN
        row.status = "running" /\ row.claimedBy = w /\ row.runId = worker[w].run

\* The executions under way, with the worker that drives each, or Null.
Executions ==
    {[of |-> Execution(w), by |-> w] : w \in {v \in Workers : Executing(v)}}
        \cup {[of |-> o, by |-> Null] : o \in orphans}

\* Under the same assumption two workers never drive one pipeline, also across
\* crashes, reclaims and the job that replaces a finished one: where two runs
\* of a pipeline execute at once, one of them was left behind by its worker.
MutualExclusion ==
    NoStall => \A d, e \in Executions :
        d # e /\ d.of.pipeline = e.of.pipeline => Null \in {d.by, e.by}

\* Whatever zombies do, a job is succeeded only if the run it is bound to is:
\* the outcome of a job is never the outcome of a superseded run.
SucceededRunBehindJob ==
    \A j \in Jobs : jobs[j].status = "succeeded" =>
        jobs[j].runId # Null /\ runs[jobs[j].runId] = "success"

\* Whoever holds a job advertises the label the row carries, also when POST
\* /runs coalesced onto a queued row and gave it another label, and when the
\* job went from a stalled worker to another.
LabelPlacement ==
    \A j \in Jobs : jobs[j].status \in Held => jobs[j].label \in {Null, LabelOf[jobs[j].claimedBy]}

\* What a job row tells of its owner, its run and its place: HeldIsReapable,
\* SucceededRunBehindJob and LabelPlacement.
JobRowIsTrue == HeldIsReapable /\ SucceededRunBehindJob /\ LabelPlacement

\* Under no stall an event run.succeeded tells the truth to whoever reads it
\* later: the run is a success, a job bound to it succeeded, and no run.failed
\* was emitted for the same run.
SuccessEventIsTrue ==
    NoStall => \A r \in Runs : "succeeded" \in events[r] =>
        /\ runs[r] = "success"
        /\ "failed" \notin events[r]
        /\ \E j \in Jobs : jobs[j].runId = r /\ jobs[j].status = "succeeded"

\* Under no stall a finished job stays finished: no release, reclaim, late
\* finish or heartbeat returns it to the queue.
FinishedStays ==
    [][\A j \in Jobs : faults'.stall = 0 /\ jobs[j].status \in Finished
            => jobs'[j].status = jobs[j].status]_vars

\* Under no stall the runtime follows the life of a job: nobody but the worker
\* at work on a job starts it, gives it back or finishes it, the reaper takes
\* back only what no worker is at work on, and what is done is never redone.
StageOf == [absent |-> "none", queued |-> "waiting", claimed |-> "taken", running |-> "running",
            succeeded |-> "done", failed |-> "done"]
DriverOf(j) == LET w == jobs[j].claimedBy IN
               IF w # Null /\ Attends(w, j) THEN w ELSE Null
Lifecycle == INSTANCE JobLifecycle WITH stage  <- [j \in Jobs |-> StageOf[jobs[j].status]],
                                        driver <- [j \in Jobs |-> DriverOf(j)]
FollowsLifecycle == Lifecycle!Spec

\* A job some worker that never dies may claim is in the end finished, as long
\* as no reclaim collides with the one-queued index.
Served(j) == \E w \in Workers : ~At(w, "dead") /\ jobs[j].label \in {Null, LabelOf[w]}
JobsFinish ==
    []~ReclaimConflict =>
        \A j \in Jobs : jobs[j].status = "queued" ~> (jobs[j].status \in Finished \/ ~Served(j))

-----------------------------------------------------------------------------
(* What the code's comments promise and the runs of the findings refute.   *)

\* job_queue.py on a returning zombie: it backs off and never stomps the new
\* owner.  A worker's step leaves jobs owned by another worker, and finished
\* jobs, as they are.
NeverStomps ==
    [][\A w \in Workers, j \in Jobs :
          RunOnce(w) /\ (jobs[j].status \in Finished \/ jobs[j].claimedBy \notin {Null, w})
              => jobs'[j] = jobs[j]]_vars

\* job_queue.py on transition_to_running: the worker releases its claim "rather
\* than running a second concurrent execution".
NothingOverlaps ==
    NoStall => \A d, e \in Executions :
        d.of.run # e.of.run => d.of.pipeline # e.of.pipeline

\* runtime.md: a labeled pipeline is run only by a worker with its label.
PipelinePlacement ==
    \A w \in Workers : Executing(w) =>
        LabelFor[jobs[worker[w].job].pipeline] \in {Null, LabelOf[w]}

\* reaper.py: a stuck job is reclaimed.
StaleIsReclaimed == \A j \in Jobs : j \in StaleJobs ~> j \notin StaleJobs
=============================================================================
