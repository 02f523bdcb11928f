---------------------------- MODULE RuntimeProofs ---------------------------
(***************************************************************************)
(* The jobs table under any callers, and the worker / reaper protocol over *)
(* it, for every number of workers, pipelines, jobs and runs, and every    *)
(* number of crashes and raising statements.                               *)
(***************************************************************************)
EXTENDS Runtime, TLAPS

-----------------------------------------------------------------------------
(* The jobs table keeps its invariants whoever calls.                      *)


\* The inductive invariant: the conjunction is inductive as it stands.
QueueInv == QueueTypeOK /\ OnePerPipeline /\ HeldIsReapable

LEMMA NullFacts == /\ Null \notin Workers
                   /\ Null \notin Runs
                   /\ Null # "fresh" /\ Null # "stale"
BY NullAssumption, BoundsAssumption DEF Runs

LEMMA InsertedRow ==
    ASSUME NEW p \in Pipelines, NEW l \in Labels \cup {Null}, NEW t \in {"scheduled", "api"}
    PROVE  Inserted(p, t, l) \in JobRow
BY DEF Inserted, NoJob, JobRow, JobStatus

\* A statement that assigns to one row: the table stays typed, the other rows
\* are as before.
LEMMA RowUpdate ==
    ASSUME QueueTypeOK, NEW j \in Jobs, NEW row \in JobRow, jobs' = [jobs EXCEPT ![j] = row]
    PROVE  QueueTypeOK' /\ jobs'[j] = row /\ (\A i \in Jobs : i # j => jobs'[i] = jobs[i])
BY DEF QueueTypeOK

\* What the reaper's UPDATE does to a row.
LEMMA ReclaimedRow ==
    ASSUME NEW row \in JobRow
    PROVE  /\ Reclaimed(row) \in JobRow
           /\ Reclaimed(row).status = "queued"
           /\ Reclaimed(row).claimedBy = Null
           /\ Reclaimed(row).pipeline = row.pipeline
           /\ Reclaimed(row).label = row.label
           /\ Reclaimed(row).runId = row.runId
<1>1. Reclaimed(row) \in JobRow
  BY DEF Reclaimed, JobRow, JobStatus
<1>. QED  BY <1>1 DEF Reclaimed, JobRow

\* Init establishes the invariant: no row exists.
LEMMA QueueInitInv == QueueInit => QueueInv
BY NullFacts DEF QueueInit, QueueInv, QueueTypeOK, OnePerPipeline, HeldIsReapable,
   NoJob, JobRow, JobStatus, Held, SamePipeline

\* Inserting a queued row for a pipeline that has none.
LEMMA InsertInv ==
    ASSUME QueueInv, NEW p \in Pipelines, NEW l \in Labels \cup {Null},
           NEW t \in {"scheduled", "api"}, NEW j \in Jobs,
           QueuedFor(p) = {}, NextId(j),
           jobs' = [jobs EXCEPT ![j] = Inserted(p, t, l)]
    PROVE  QueueInv'
<1>1. QueueTypeOK'
  BY InsertedRow DEF QueueInv, QueueTypeOK
<1>2. OnePerPipeline'
  BY DEF QueueInv, QueueTypeOK, OnePerPipeline, SamePipeline, QueuedFor, Inserted,
     NoJob, JobRow
<1>3. HeldIsReapable'
  BY DEF QueueInv, QueueTypeOK, HeldIsReapable, Inserted, NoJob, Held
<1>. QED  BY <1>1, <1>2, <1>3 DEF QueueInv

\* Every statement preserves the invariant.
LEMMA QueueNextInv == QueueInv /\ [QueueNext]_jobs => QueueInv'
<1>. SUFFICES ASSUME QueueInv, [QueueNext]_jobs PROVE QueueInv'
  OBVIOUS
<1>. USE DEF QueueInv
<1>1. CASE UNCHANGED jobs
  BY <1>1 DEF QueueTypeOK, OnePerPipeline, HeldIsReapable, SamePipeline
<1>2. ASSUME NEW p \in Pipelines, NEW l \in Labels \cup {Null}, enqueue_scheduled(p, l)
      PROVE  QueueInv'
  BY <1>2, InsertInv DEF enqueue_scheduled
<1>3. ASSUME NEW p \in Pipelines, NEW l \in Labels \cup {Null}, enqueue_manual(p, l)
      PROVE  QueueInv'
  <2>1. CASE \E j \in Jobs : QueuedFor(p) = {} /\ NextId(j)
                             /\ jobs' = [jobs EXCEPT ![j] = Inserted(p, "api", l)]
    BY <2>1, InsertInv
  <2>2. ASSUME NEW j \in QueuedFor(p),
               jobs' = [jobs EXCEPT ![j].trigger = "api", ![j].label = l]
        PROVE  QueueInv'
    <3>. DEFINE row == [jobs[j] EXCEPT !.trigger = "api", !.label = l]
    <3>. j \in Jobs
      BY DEF QueuedFor
    <3>1. row \in JobRow
      BY <2>2 DEF QueueTypeOK, JobRow, JobStatus, Held, Finished
    <3>2. jobs' = [jobs EXCEPT ![j] = row]
      BY <2>2 DEF QueuedFor
    <3>3. /\ QueueTypeOK' /\ jobs'[j] = row
         /\ \A i \in Jobs : i # j => jobs'[i] = jobs[i]
      BY <3>1, <3>2, RowUpdate
    <3>4. OnePerPipeline'
      BY <2>2, <3>3 DEF QueuedFor, OnePerPipeline, SamePipeline, QueueTypeOK, JobRow
    <3>5. HeldIsReapable'
      BY <2>2, <3>3, NullFacts DEF QueuedFor, HeldIsReapable,
         QueueTypeOK, JobRow, Held, Finished
    <3>. QED  BY <3>3, <3>4, <3>5
  <2>. QED  BY <1>3, <2>1, <2>2 DEF enqueue_manual
<1>4. ASSUME NEW w \in Workers, NEW j \in Jobs, claim_next(w, j)
      PROVE  QueueInv'
  <2>. DEFINE row == [jobs[j] EXCEPT !.status = "claimed", !.claimedBy = w,
                           !.heartbeat = "fresh"]
  <2>1. row \in JobRow
    BY <1>4 DEF QueueTypeOK, JobRow, JobStatus, Held, Finished
  <2>2. jobs' = [jobs EXCEPT ![j] = row]
    BY <1>4 DEF claim_next, Claimable
  <2>3. /\ QueueTypeOK' /\ jobs'[j] = row
       /\ \A i \in Jobs : i # j => jobs'[i] = jobs[i]
    BY <2>1, <2>2, RowUpdate
  <2>4. OnePerPipeline'
    BY <1>4, <2>3 DEF claim_next, Claimable, OnePerPipeline, SamePipeline, QueueTypeOK,
       JobRow
  <2>5. HeldIsReapable'
    BY <1>4, <2>3, NullFacts DEF claim_next, Claimable, HeldIsReapable,
       QueueTypeOK, JobRow, Held, Finished
  <2>. QED  BY <2>3, <2>4, <2>5
<1>5. ASSUME NEW w \in Workers, NEW j \in Jobs, NEW r \in Runs, transition_to_running(w, j, r)
      PROVE  QueueInv'
  <2>. DEFINE row == [jobs[j] EXCEPT !.status = "running", !.runId = r]
  <2>1. row \in JobRow
    BY <1>5 DEF QueueTypeOK, JobRow, JobStatus, Held, Finished
  <2>2. jobs' = [jobs EXCEPT ![j] = row]
    BY <1>5 DEF transition_to_running, CanStart, OtherRunning
  <2>3. /\ QueueTypeOK' /\ jobs'[j] = row
       /\ \A i \in Jobs : i # j => jobs'[i] = jobs[i]
    BY <2>1, <2>2, RowUpdate
  <2>4. OnePerPipeline'
    BY <1>5, <2>3 DEF transition_to_running, CanStart, OtherRunning, OnePerPipeline,
       SamePipeline, QueueTypeOK, JobRow
  <2>5. HeldIsReapable'
    BY <1>5, <2>3, NullFacts DEF transition_to_running, CanStart, OtherRunning,
       HeldIsReapable, QueueTypeOK, JobRow, Held, Finished
  <2>. QED  BY <2>3, <2>4, <2>5
<1>6. ASSUME NEW w \in Workers, NEW j \in Jobs, NEW s \in Finished, mark_finished(w, j, s)
      PROVE  QueueInv'
  <2>. DEFINE row == [jobs[j] EXCEPT !.status = s]
  <2>1. row \in JobRow
    BY <1>6 DEF QueueTypeOK, JobRow, JobStatus, Held, Finished
  <2>2. jobs' = [jobs EXCEPT ![j] = row]
    BY <1>6 DEF mark_finished, CanFinish
  <2>3. /\ QueueTypeOK' /\ jobs'[j] = row
       /\ \A i \in Jobs : i # j => jobs'[i] = jobs[i]
    BY <2>1, <2>2, RowUpdate
  <2>4. OnePerPipeline'
    BY <1>6, <2>3 DEF mark_finished, CanFinish, Finished, OnePerPipeline, SamePipeline,
       QueueTypeOK, JobRow
  <2>5. HeldIsReapable'
    BY <1>6, <2>3, NullFacts DEF mark_finished, CanFinish, HeldIsReapable,
       QueueTypeOK, JobRow, Held, Finished
  <2>. QED  BY <2>3, <2>4, <2>5
<1>7. ASSUME NEW j \in Jobs, release_claim(j)
      PROVE  QueueInv'
  <2>. DEFINE row == [jobs[j] EXCEPT !.status = "queued", !.claimedBy = Null]
  <2>1. row \in JobRow
    BY <1>7 DEF QueueTypeOK, JobRow, JobStatus, Held, Finished
  <2>2. jobs' = [jobs EXCEPT ![j] = row]
    BY <1>7 DEF release_claim, OtherQueued
  <2>3. /\ QueueTypeOK' /\ jobs'[j] = row
       /\ \A i \in Jobs : i # j => jobs'[i] = jobs[i]
    BY <2>1, <2>2, RowUpdate
  <2>4. OnePerPipeline'
    BY <1>7, <2>3 DEF release_claim, OtherQueued, OnePerPipeline, SamePipeline,
       QueueTypeOK, JobRow
  <2>5. HeldIsReapable'
    BY <1>7, <2>3, NullFacts DEF release_claim, OtherQueued, HeldIsReapable,
       QueueTypeOK, JobRow, Held, Finished
  <2>. QED  BY <2>3, <2>4, <2>5
<1>8. ASSUME NEW j \in Jobs, HeartbeatWrite(j)
      PROVE  QueueInv'
  <2>. DEFINE row == [jobs[j] EXCEPT !.heartbeat = "fresh"]
  <2>1. row \in JobRow
    BY <1>8 DEF QueueTypeOK, JobRow, JobStatus, Held, Finished
  <2>2. jobs' = [jobs EXCEPT ![j] = row]
    BY <1>8 DEF HeartbeatWrite
  <2>3. /\ QueueTypeOK' /\ jobs'[j] = row
       /\ \A i \in Jobs : i # j => jobs'[i] = jobs[i]
    BY <2>1, <2>2, RowUpdate
  <2>4. OnePerPipeline'
    BY <1>8, <2>3 DEF HeartbeatWrite, OnePerPipeline, SamePipeline, QueueTypeOK, JobRow
  <2>5. HeldIsReapable'
    BY <1>8, <2>3, NullFacts DEF HeartbeatWrite, HeldIsReapable,
       QueueTypeOK, JobRow, Held, Finished
  <2>. QED  BY <2>3, <2>4, <2>5
<1>9. ASSUME NEW j \in Jobs, Expire(j)
      PROVE  QueueInv'
  <2>. DEFINE row == [jobs[j] EXCEPT !.heartbeat = "stale"]
  <2>1. row \in JobRow
    BY <1>9 DEF QueueTypeOK, JobRow, JobStatus, Held, Finished
  <2>2. jobs' = [jobs EXCEPT ![j] = row]
    BY <1>9 DEF Expire
  <2>3. /\ QueueTypeOK' /\ jobs'[j] = row
       /\ \A i \in Jobs : i # j => jobs'[i] = jobs[i]
    BY <2>1, <2>2, RowUpdate
  <2>4. OnePerPipeline'
    BY <1>9, <2>3 DEF Expire, OnePerPipeline, SamePipeline, QueueTypeOK, JobRow
  <2>5. HeldIsReapable'
    BY <1>9, <2>3, NullFacts DEF Expire, HeldIsReapable, QueueTypeOK,
       JobRow, Held, Finished
  <2>. QED  BY <2>3, <2>4, <2>5
<1>10. CASE reclaim_stale
  <2>1. \A j \in Jobs : jobs[j] \in JobRow
    BY DEF QueueTypeOK
  <2>2. /\ jobs' \in [Jobs -> JobRow]
        /\ \A j \in StaleJobs : jobs'[j] = Reclaimed(jobs[j])
        /\ \A j \in Jobs \ StaleJobs : jobs'[j] = jobs[j]
    BY <1>10, <2>1, ReclaimedRow DEF reclaim_stale, StaleJobs
  <2>3. \A j \in StaleJobs : /\ jobs'[j].status = "queued" /\ jobs'[j].claimedBy = Null
                             /\ jobs'[j].pipeline = jobs[j].pipeline
                             /\ jobs'[j].runId = jobs[j].runId
    BY <2>1, <2>2, ReclaimedRow DEF StaleJobs
  <2>4. OnePerPipeline'
    BY <1>10, <2>2, <2>3 DEF reclaim_stale, ReclaimConflict, OnePerPipeline,
       SamePipeline, StaleJobs
  <2>5. HeldIsReapable'
    BY <2>2, <2>3 DEF StaleJobs, HeldIsReapable, Held
  <2>. QED  BY <2>2, <2>4, <2>5 DEF QueueTypeOK
<1>. QED  BY <1>1, <1>2, <1>3, <1>4, <1>5, <1>6, <1>7, <1>8, <1>9, <1>10 DEF QueueNext

\* The jobs table is well typed, holds at most one queued and one running row
\* per pipeline, and never holds a job the reaper could not see go stale,
\* under any interleaving of the statements of job_queue.py.
THEOREM QueueInvariant ==
    QueueSpec => [](QueueTypeOK /\ OnePerPipeline /\ HeldIsReapable)
<1>1. QueueSpec => []QueueInv
  BY QueueInitInv, QueueNextInv, PTL DEF QueueSpec
<1>2. QueueInv => QueueTypeOK /\ OnePerPipeline /\ HeldIsReapable
  BY DEF QueueInv
<1>. QED  BY <1>1, <1>2, PTL
-----------------------------------------------------------------------------
(* The runtime: its types.                                                 *)


\* What the locals of run_once hold at each statement.
LocalsOK ==
    \A w \in Workers :
        /\ worker[w].pc \notin {"idle", "dead"} => worker[w].job \in Jobs
        /\ worker[w].pc \in {"transition", "release", "cancel_run", "mark_running", "announce",
                             "execute", "finish_run", "finish_job", "finish_emit", "fail_run"}
               => worker[w].run \in Runs
        /\ worker[w].pc \in {"finish_run", "finish_job", "finish_emit"}
               => worker[w].result \in Results

\* TypeOK without the jobs table, whose typing every statement preserves.
RestOK ==
    /\ runs \in [Runs -> {"absent"} \cup OpenRun \cup ClosedRun]
    /\ events \in [Runs -> SUBSET {"started", "succeeded", "failed"}]
    /\ worker \in [Workers -> WorkerState]
    /\ beats \subseteq Workers \X Jobs
    /\ pending \subseteq Runs
    /\ orphans \subseteq [run : Runs, pipeline : Pipelines \cup {Null}]
    /\ faults \in [crash : Nat, stall : Nat, db : Nat]

TypeInv == QueueInv /\ RestOK /\ LocalsOK

LEMMA TypeInvTypeOK == TypeInv => TypeOK
BY DEF TypeInv, QueueInv, TypeOK, RestOK

LEMMA InitTypeInv == Init => TypeInv
<1>. SUFFICES ASSUME Init PROVE TypeInv
  OBVIOUS
<1>1. QueueInv
  BY QueueInitInv DEF Init
<1>2. IdleWorker \in WorkerState
  BY DEF IdleWorker, WorkerState, PC
<1>3. RestOK
  BY <1>2 DEF Init, RestOK
<1>4. LocalsOK
  BY DEF Init, LocalsOK, IdleWorker
<1>. QED  BY <1>1, <1>3, <1>4 DEF TypeInv

\* Moving one worker on.
LEMMA GotoType ==
    ASSUME TypeInv, NEW w \in Workers, NEW label \in PC, Goto(w, label)
    PROVE  /\ worker' \in [Workers -> WorkerState]
           /\ worker'[w].pc = label
           /\ worker'[w].job = worker[w].job
           /\ worker'[w].run = worker[w].run
           /\ worker'[w].result = worker[w].result
           /\ \A v \in Workers : v # w => worker'[v] = worker[v]
BY DEF TypeInv, RestOK, Goto, WorkerState

LEMMA PollAgainType ==
    ASSUME TypeInv, NEW w \in Workers, PollAgain(w)
    PROVE  /\ worker' \in [Workers -> WorkerState]
           /\ worker'[w].pc = "idle"
           /\ worker'[w] = IdleWorker
           /\ \A v \in Workers : v # w => worker'[v] = worker[v]
BY DEF TypeInv, RestOK, PollAgain, WorkerState, IdleWorker, PC

\* Every step on jobs is a statement of the queue.
LEMMA StepIsQueueStep == TypeInv /\ [Next]_vars => [QueueNext]_jobs
<1>. SUFFICES ASSUME TypeInv, [Next]_vars, jobs' # jobs PROVE QueueNext
  OBVIOUS
<1>1. ASSUME NEW p \in Pipelines, EnqueueScheduled(p) \/ TriggerRun(p)
      PROVE  QueueNext
  <2>. resolve_worker_label(p) \subseteq Labels \cup {Null}
    BY LabelForAssumption DEF resolve_worker_label
  <2>. QED  BY <1>1 DEF EnqueueScheduled, TriggerRun, QueueNext
<1>2. ASSUME NEW w \in Workers, Claim(w)
      PROVE  QueueNext
  BY <1>2 DEF Claim, QueueNext
<1>3. ASSUME NEW w \in Workers, Transition(w)
      PROVE  QueueNext
  <2>1. worker[w].job \in Jobs /\ worker[w].run \in Runs
    BY <1>3 DEF Transition, At, TypeInv, LocalsOK
  <2>. QED  BY <1>3, <2>1 DEF Transition, QueueNext
<1>4. ASSUME NEW w \in Workers, ReleaseClaim(w)
      PROVE  QueueNext
  <2>1. worker[w].job \in Jobs
    BY <1>4 DEF ReleaseClaim, At, TypeInv, LocalsOK
  <2>. QED  BY <1>4, <2>1 DEF ReleaseClaim, QueueNext
<1>5. ASSUME NEW w \in Workers, FinishJob(w)
      PROVE  QueueNext
  <2>1. worker[w].job \in Jobs /\ worker[w].result \in Results
    BY <1>5 DEF FinishJob, At, TypeInv, LocalsOK
  <2>2. JobStatusByResult[worker[w].result] \in Finished
    BY <2>1 DEF JobStatusByResult, Results, Finished
  <2>. QED  BY <1>5, <2>1, <2>2 DEF FinishJob, FinishOrSkip, QueueNext
<1>6. ASSUME NEW w \in Workers, FailJob(w)
      PROVE  QueueNext
  <2>1. worker[w].job \in Jobs
    BY <1>6 DEF FailJob, At, TypeInv, LocalsOK
  <2>. QED  BY <1>6, <2>1 DEF FailJob, FinishOrSkip, QueueNext, Finished
<1>7. ASSUME NEW w \in Workers, NEW j \in Jobs, BeatWrite(w, j)
      PROVE  QueueNext
  BY <1>7 DEF BeatWrite, QueueNext
<1>8. ASSUME NEW j \in Jobs, HeartbeatExpires(j)
      PROVE  QueueNext
  BY <1>8 DEF HeartbeatExpires, QueueNext
<1>9. CASE Reclaim
  BY <1>9 DEF Reclaim, QueueNext
<1>. QED
  BY <1>1, <1>2, <1>3, <1>4, <1>5, <1>6, <1>7, <1>8, <1>9
  DEF vars, Next, RunOnce, CreateRun, CancelRun, MarkRunning, Announce, Execute, FinishRun,
      FinishEmit, FailRun, FailEmit, DbError, Crash, BeatCheck, ReaperError, FailReclaimed,
      ArchiveRun, OrphanEnds

\* What RestOK needs of the two writers of runs and events.
LEMMA RunStatusType ==
    ASSUME RestOK, NEW r, NEW status \in OpenRun \cup ClosedRun, update_run_status(r, status)
    PROVE  runs' \in [Runs -> {"absent"} \cup OpenRun \cup ClosedRun]
BY DEF RestOK, update_run_status

LEMMA EmitType ==
    ASSUME RestOK, NEW r, NEW kind \in {"started", "succeeded", "failed"}, emit(kind, r)
    PROVE  events' \in [Runs -> SUBSET {"started", "succeeded", "failed"}]
BY DEF RestOK, emit

\* What a worker leaves behind is the execution of a run.
LEMMA LeftBehindType ==
    ASSUME TypeInv, NEW w \in Workers, At(w, "execute"), MayLeaveBehind(w)
    PROVE  orphans' \subseteq [run : Runs, pipeline : Pipelines \cup {Null}]
<1>1. worker[w].run \in Runs /\ worker[w].job \in Jobs
  BY DEF TypeInv, LocalsOK, At
<1>2. Execution(w) \in [run : Runs, pipeline : Pipelines \cup {Null}]
  BY <1>1 DEF Execution, TypeInv, QueueInv, QueueTypeOK, JobRow
<1>. QED  BY <1>2 DEF MayLeaveBehind, TypeInv, RestOK

\* The steps of run_once keep the types and the locals.
LEMMA RunOnceTypeInv ==
    ASSUME TypeInv, NEW w \in Workers, RunOnce(w)
    PROVE  RestOK' /\ LocalsOK'
<1>. USE DEF TypeInv
<1>. w \in Workers /\ worker[w] \in WorkerState
  BY DEF RestOK
<1>1. CASE Claim(w)
  <2>1. PICK j \in Jobs : worker' = [worker EXCEPT ![w].pc = "create_run", ![w].job = j]
    BY <1>1 DEF Claim
  <2>2. /\ worker' \in [Workers -> WorkerState]
        /\ worker'[w].pc = "create_run" /\ worker'[w].job = j
        /\ \A v \in Workers : v # w => worker'[v] = worker[v]
    BY <2>1 DEF RestOK, WorkerState, PC
  <2>3. LocalsOK'
    BY <2>2 DEF LocalsOK
  <2>. QED  BY <1>1, <2>2, <2>3 DEF Claim, RestOK
<1>2. CASE CreateRun(w)
  <2>1. PICK r \in Runs : /\ update_run_status(r, "queued")
                          /\ worker' = [worker EXCEPT ![w].pc = "transition", ![w].run = r]
    BY <1>2 DEF CreateRun
  <2>2. /\ worker' \in [Workers -> WorkerState]
        /\ worker'[w].pc = "transition" /\ worker'[w].run = r
        /\ worker'[w].job = worker[w].job
        /\ \A v \in Workers : v # w => worker'[v] = worker[v]
    BY <2>1 DEF RestOK, WorkerState, PC
  <2>3. runs' \in [Runs -> {"absent"} \cup OpenRun \cup ClosedRun]
    BY <2>1, RunStatusType DEF OpenRun
  <2>4. LocalsOK'
    BY <1>2, <2>2 DEF LocalsOK, CreateRun, At
  <2>. QED  BY <1>2, <2>2, <2>3, <2>4 DEF CreateRun, RestOK
<1>3. CASE Transition(w)
  <2>1. PICK label \in {"mark_running", "release", "cancel_run"} : Goto(w, label)
    BY <1>3 DEF Transition
  <2>2. LocalsOK' /\ worker' \in [Workers -> WorkerState]
    BY <1>3, <2>1, GotoType DEF LocalsOK, Transition, At, PC
  <2>. QED  BY <1>3, <2>2 DEF Transition, RestOK
<1>4. CASE ReleaseClaim(w)
  <2>1. PICK label \in {"cancel_run", "fail_run"} : Goto(w, label)
    BY <1>4 DEF ReleaseClaim
  <2>2. LocalsOK' /\ worker' \in [Workers -> WorkerState]
    BY <1>4, <2>1, GotoType DEF LocalsOK, ReleaseClaim, At, PC
  <2>. QED  BY <1>4, <2>2 DEF ReleaseClaim, RestOK
<1>5. CASE CancelRun(w)
  <2>1. LocalsOK' /\ worker' \in [Workers -> WorkerState]
    BY <1>5, PollAgainType DEF LocalsOK, CancelRun, At
  <2>2. runs' \in [Runs -> {"absent"} \cup OpenRun \cup ClosedRun]
    BY <1>5, RunStatusType DEF CancelRun, ClosedRun
  <2>. QED  BY <1>5, <2>1, <2>2 DEF CancelRun, RestOK
<1>6. CASE MarkRunning(w)
  <2>1. LocalsOK' /\ worker' \in [Workers -> WorkerState]
    BY <1>6, GotoType DEF LocalsOK, MarkRunning, At, PC
  <2>2. runs' \in [Runs -> {"absent"} \cup OpenRun \cup ClosedRun]
    BY <1>6, RunStatusType DEF MarkRunning, OpenRun
  <2>. QED  BY <1>6, <2>1, <2>2 DEF MarkRunning, RestOK
<1>7. CASE Announce(w)
  <2>1. LocalsOK' /\ worker' \in [Workers -> WorkerState]
    BY <1>7, GotoType DEF LocalsOK, Announce, At, PC
  <2>2. events' \in [Runs -> SUBSET {"started", "succeeded", "failed"}]
    BY <1>7, EmitType DEF Announce
  <2>. QED  BY <1>7, <2>1, <2>2 DEF Announce, RestOK
<1>8. CASE Execute(w)
  <2>0. orphans' \subseteq [run : Runs, pipeline : Pipelines \cup {Null}]
    BY <1>8, LeftBehindType DEF Execute
  <2>1. CASE Goto(w, "fail_run")
    <3>1. LocalsOK' /\ worker' \in [Workers -> WorkerState]
      BY <1>8, <2>1, GotoType DEF LocalsOK, Execute, At, PC
    <3>. QED  BY <1>8, <2>0, <3>1 DEF Execute, RestOK
  <2>2. ASSUME NEW res \in Results,
               worker' = [worker EXCEPT ![w].pc = "finish_run", ![w].result = res]
        PROVE  RestOK' /\ LocalsOK'
    <3>1. /\ worker' \in [Workers -> WorkerState]
          /\ worker'[w].pc = "finish_run" /\ worker'[w].result = res
          /\ worker'[w].job = worker[w].job /\ worker'[w].run = worker[w].run
          /\ \A v \in Workers : v # w => worker'[v] = worker[v]
      BY <2>2 DEF RestOK, WorkerState, PC
    <3>2. LocalsOK'
      BY <1>8, <3>1 DEF LocalsOK, Execute, At
    <3>. QED  BY <1>8, <2>0, <3>1, <3>2 DEF Execute, RestOK
  <2>. QED  BY <1>8, <2>1, <2>2 DEF Execute
<1>9. CASE FinishRun(w)
  <2>1. LocalsOK' /\ worker' \in [Workers -> WorkerState]
    BY <1>9, GotoType DEF LocalsOK, FinishRun, At, PC
  <2>2. RunStatusByResult[worker[w].result] \in ClosedRun
    BY <1>9 DEF LocalsOK, FinishRun, At, RunStatusByResult, ClosedRun
  <2>3. runs' \in [Runs -> {"absent"} \cup OpenRun \cup ClosedRun]
    BY <1>9, <2>2, RunStatusType DEF FinishRun
  <2>. QED  BY <1>9, <2>1, <2>3 DEF FinishRun, RestOK
<1>10. CASE FinishJob(w)
  <2>1. LocalsOK' /\ worker' \in [Workers -> WorkerState]
    BY <1>10, GotoType DEF LocalsOK, FinishJob, At, PC
  <2>. QED  BY <1>10, <2>1 DEF FinishJob, RestOK
<1>11. CASE FinishEmit(w)
  <2>1. LocalsOK' /\ worker' \in [Workers -> WorkerState]
    BY <1>11, PollAgainType DEF LocalsOK, FinishEmit, At
  <2>2. events' \in [Runs -> SUBSET {"started", "succeeded", "failed"}]
    BY <1>11, EmitType DEF FinishEmit
  <2>. QED  BY <1>11, <2>1, <2>2 DEF FinishEmit, RestOK
<1>12. CASE FailRun(w)
  <2>1. LocalsOK' /\ worker' \in [Workers -> WorkerState]
    BY <1>12, GotoType DEF LocalsOK, FailRun, At, PC
  <2>2. runs' \in [Runs -> {"absent"} \cup OpenRun \cup ClosedRun]
    BY <1>12, RunStatusType DEF FailRun, ClosedRun
  <2>. QED  BY <1>12, <2>1, <2>2 DEF FailRun, RestOK
<1>13. CASE FailJob(w)
  <2>1. LocalsOK' /\ worker' \in [Workers -> WorkerState]
    BY <1>13, GotoType DEF LocalsOK, FailJob, At, PC
  <2>. QED  BY <1>13, <2>1 DEF FailJob, RestOK
<1>14. CASE FailEmit(w)
  <2>1. LocalsOK' /\ worker' \in [Workers -> WorkerState]
    BY <1>14, PollAgainType DEF LocalsOK, FailEmit, At
  <2>2. events' \in [Runs -> SUBSET {"started", "succeeded", "failed"}]
    BY <1>14, EmitType DEF FailEmit, RestOK
  <2>. QED  BY <1>14, <2>1, <2>2 DEF FailEmit, RestOK
<1>. QED
  BY <1>1, <1>2, <1>3, <1>4, <1>5, <1>6, <1>7, <1>8, <1>9, <1>10, <1>11, <1>12, <1>13, <1>14
  DEF RunOnce

\* So do faults, heartbeats, the reaper, the archiver and the producers.
LEMMA NextTypeInv == TypeInv /\ [Next]_vars => TypeInv'
<1>. SUFFICES ASSUME TypeInv, [Next]_vars PROVE TypeInv'
  OBVIOUS
<1>. USE DEF TypeInv
<1>0. QueueInv'
  BY StepIsQueueStep, QueueNextInv
<1>. SUFFICES RestOK' /\ LocalsOK'
  BY <1>0
<1>1. CASE UNCHANGED vars
  BY <1>1 DEF vars, RestOK, LocalsOK
<1>2. ASSUME NEW p \in Pipelines, EnqueueScheduled(p) \/ TriggerRun(p)
      PROVE  RestOK' /\ LocalsOK'
  BY <1>2 DEF EnqueueScheduled, TriggerRun, RestOK, LocalsOK
<1>3. ASSUME NEW w \in Workers, RunOnce(w)
      PROVE  RestOK' /\ LocalsOK'
  BY <1>3, RunOnceTypeInv
<1>4. ASSUME NEW w \in Workers, DbError(w)
      PROVE  RestOK' /\ LocalsOK'
  <2>1. faults' \in [crash : Nat, stall : Nat, db : Nat]
    BY <1>4 DEF DbError, RestOK
  <2>2. OnError[worker[w].pc] \in PC /\ worker[w].pc \in PC
    BY <1>4 DEF OnError, RestOK, PC, WorkerState
  <2>3. worker' \in [Workers -> WorkerState]
    BY <1>4, <2>2, GotoType, PollAgainType DEF DbError
  <2>4. LocalsOK'
    <3>1. CASE PollAgain(w)
      BY <1>4, <3>1, PollAgainType DEF LocalsOK
    <3>2. CASE OnError[worker[w].pc] # "idle" /\ Goto(w, OnError[worker[w].pc])
      BY <1>4, <2>2, <3>2, GotoType DEF LocalsOK, DbError, OnError, PC
    <3>. QED  BY <1>4, <3>1, <3>2 DEF DbError
  <2>. QED  BY <1>4, <2>1, <2>3, <2>4 DEF DbError, RestOK
<1>5. ASSUME NEW w \in Workers, Crash(w)
      PROVE  RestOK' /\ LocalsOK'
  <2>1. faults' \in [crash : Nat, stall : Nat, db : Nat]
    BY <1>5 DEF Crash, RestOK
  <2>2. /\ worker' \in [Workers -> WorkerState] /\ worker'[w].pc = "dead"
        /\ \A v \in Workers : v # w => worker'[v] = worker[v]
    BY <1>5 DEF Crash, RestOK, WorkerState, IdleWorker, PC
  <2>3. LocalsOK'
    BY <2>2 DEF LocalsOK
  <2>4. orphans' \subseteq [run : Runs, pipeline : Pipelines \cup {Null}]
    BY <1>5, LeftBehindType DEF Crash, RestOK
  <2>. QED  BY <1>5, <2>1, <2>2, <2>3, <2>4 DEF Crash, RestOK
<1>6. ASSUME NEW w \in Workers, BeatCheck(w)
      PROVE  RestOK' /\ LocalsOK'
  BY <1>6 DEF BeatCheck, At, RestOK, LocalsOK
<1>7. ASSUME NEW w \in Workers, NEW j \in Jobs, BeatWrite(w, j)
      PROVE  RestOK' /\ LocalsOK'
  BY <1>7 DEF BeatWrite, RestOK, LocalsOK
<1>8. ASSUME NEW j \in Jobs, HeartbeatExpires(j)
      PROVE  RestOK' /\ LocalsOK'
  <2>1. faults' \in [crash : Nat, stall : Nat, db : Nat]
    BY <1>8 DEF HeartbeatExpires, RestOK
  <2>. QED  BY <1>8, <2>1 DEF HeartbeatExpires, RestOK, LocalsOK
<1>9. CASE Reclaim
  <2>1. pending' \subseteq Runs
    BY <1>9 DEF Reclaim, StaleJobs, QueueInv, QueueTypeOK, JobRow
  <2>. QED  BY <1>9, <2>1 DEF Reclaim, RestOK, LocalsOK
<1>10. CASE ReaperError
  <2>1. faults' \in [crash : Nat, stall : Nat, db : Nat]
    BY <1>10 DEF ReaperError, RestOK
  <2>. QED  BY <1>10, <2>1 DEF ReaperError, RestOK, LocalsOK
<1>11. ASSUME NEW r \in Runs, FailReclaimed(r)
       PROVE  RestOK' /\ LocalsOK'
  <2>1. runs' \in [Runs -> {"absent"} \cup OpenRun \cup ClosedRun]
    BY <1>11, RunStatusType DEF FailReclaimed, ClosedRun
  <2>. QED  BY <1>11, <2>1 DEF FailReclaimed, RestOK, LocalsOK
<1>12. ASSUME NEW r \in Runs, ArchiveRun(r)
       PROVE  RestOK' /\ LocalsOK'
  BY <1>12 DEF ArchiveRun, RestOK, LocalsOK
<1>13. ASSUME NEW o \in orphans, OrphanEnds(o)
       PROVE  RestOK' /\ LocalsOK'
  BY <1>13 DEF OrphanEnds, RestOK, LocalsOK
<1>. QED
  BY <1>1, <1>2, <1>3, <1>4, <1>5, <1>6, <1>7, <1>8, <1>9, <1>10, <1>11, <1>12, <1>13 DEF Next

\* Every variable of the runtime keeps its type and every statement of
\* run_once finds the locals it reads.
THEOREM TypeCorrect == Spec => []TypeOK
<1>1. Spec => []TypeInv
  BY InitTypeInv, NextTypeInv, PTL DEF Spec
<1>. QED  BY <1>1, TypeInvTypeOK, PTL

-----------------------------------------------------------------------------
(* Ownership.  MutualExclusion is not inductive: that the worker between   *)
(* transition and finish still owns its job needs that the worker which    *)
(* backs off releases a job it still holds, and that the reaper sees no    *)
(* stale heartbeat on an attended job.                                     *)

Claiming(w) == worker[w].pc \in {"create_run", "transition", "release"}

HoldsJob(w) ==
    /\ Claiming(w) => /\ jobs[worker[w].job].status = "claimed"
                      /\ jobs[worker[w].job].claimedBy = w
    /\ Executing(w) => /\ jobs[worker[w].job].status = "running"
                       /\ jobs[worker[w].job].claimedBy = w
                       /\ jobs[worker[w].job].runId = worker[w].run
    /\ \A j \in Jobs : Attends(w, j) => jobs[j].heartbeat = "fresh"

OwnInv == NoStall => \A w \in Workers : HoldsJob(w)

\* A step of others, seen from worker v: each row is kept, or is not the one
\* v works on and does not become v's, or ages without v attending it.
RowKept(i) == /\ jobs'[i].status = jobs[i].status
              /\ jobs'[i].claimedBy = jobs[i].claimedBy
              /\ jobs'[i].runId = jobs[i].runId
NotTouched(v, i) ==
    \/ RowKept(i) /\ jobs'[i].heartbeat \in {jobs[i].heartbeat, "fresh"}
    \/ RowKept(i) /\ ~Attends(v, i)
    \/ jobs'[i].claimedBy # v /\ ~(i = worker[v].job /\ (Claiming(v) \/ Executing(v)))

\* The columns no statement but enqueue writes.
SameWork(i) == jobs'[i].pipeline = jobs[i].pipeline /\ jobs'[i].label = jobs[i].label

LEMMA OthersKeepHold ==
    ASSUME TypeInv, NEW v \in Workers, HoldsJob(v), worker'[v] = worker[v],
           \A i \in Jobs : NotTouched(v, i)
    PROVE  HoldsJob(v)'
<1>1. Claiming(v) \/ Executing(v) => worker[v].job \in Jobs
  BY DEF TypeInv, LocalsOK, Claiming, Executing
<1>2. ASSUME Claiming(v)' \/ Executing(v)'
      PROVE  RowKept(worker[v].job)
  <2>1. Claiming(v) \/ Executing(v)
    BY <1>2 DEF Claiming, Executing
  <2>. QED  BY <1>1, <2>1 DEF NotTouched
<1>3. (Claiming(v)')  => /\ jobs'[worker'[v].job].status = "claimed"
                      /\ jobs'[worker'[v].job].claimedBy = v
  BY <1>2 DEF Claiming, HoldsJob, RowKept
<1>4. (Executing(v)') => /\ jobs'[worker'[v].job].status = "running"
                       /\ jobs'[worker'[v].job].claimedBy = v
                       /\ jobs'[worker'[v].job].runId = worker'[v].run
  BY <1>2 DEF Executing, HoldsJob, RowKept
<1>5. ASSUME NEW j \in Jobs, Attends(v, j)'
      PROVE  jobs'[j].heartbeat = "fresh"
  BY <1>5 DEF Attends, NotTouched, RowKept, HoldsJob
<1>. QED  BY <1>3, <1>4, <1>5 DEF HoldsJob

\* A worker that only moves on, without gaining a hold.
LEMMA MoveKeepsHold ==
    ASSUME TypeInv, NEW w \in Workers, HoldsJob(w), UNCHANGED jobs,
           Claiming(w)' => Claiming(w) /\ worker'[w].job = worker[w].job,
           Executing(w)' => /\ Executing(w) /\ worker'[w].job = worker[w].job
                            /\ worker'[w].run = worker[w].run,
           worker'[w].pc \notin {"idle", "dead"}
               => worker[w].pc \notin {"idle", "dead"} /\ worker'[w].job = worker[w].job
    PROVE  HoldsJob(w)'
<1>1. ASSUME NEW j \in Jobs, Attends(w, j)'
      PROVE  jobs'[j].heartbeat = "fresh"
  BY <1>1 DEF Attends, HoldsJob
<1>. QED  BY <1>1 DEF HoldsJob
\* What a statement on row j does to the other rows and to row j.
LEMMA ClaimEffect ==
    ASSUME QueueInv, NEW w \in Workers, NEW j \in Jobs, claim_next(w, j)
    PROVE  /\ jobs[j].status = "queued" /\ jobs[j].claimedBy = Null
           /\ jobs[j].label \in {Null, LabelOf[w]}
           /\ jobs'[j].status = "claimed" /\ jobs'[j].claimedBy = w /\ jobs'[j].heartbeat = "fresh"
           /\ jobs'[j].runId = jobs[j].runId /\ SameWork(j)
           /\ \A i \in Jobs : i # j => jobs'[i] = jobs[i]
<1>1. jobs[j].status = "queued" /\ jobs[j].claimedBy = Null /\ jobs[j].label \in {Null, LabelOf[w]}
  BY DEF claim_next, Claimable, QueueInv, HeldIsReapable
<1>. QED  BY <1>1 DEF claim_next, QueueInv, QueueTypeOK, JobRow, SameWork

LEMMA TransitionEffect ==
    ASSUME QueueInv, NEW w \in Workers, NEW j \in Jobs, NEW r, transition_to_running(w, j, r)
    PROVE  /\ jobs[j].claimedBy = w /\ jobs[j].status = "claimed"
           /\ jobs'[j].status = "running" /\ jobs'[j].claimedBy = w /\ jobs'[j].runId = r
           /\ jobs'[j].heartbeat = jobs[j].heartbeat /\ SameWork(j)
           /\ \A i \in Jobs : i # j => jobs'[i] = jobs[i]
BY DEF transition_to_running, CanStart, QueueInv, QueueTypeOK, JobRow, SameWork

LEMMA FinishEffect ==
    ASSUME QueueInv, NEW w \in Workers, NEW j \in Jobs, NEW s, mark_finished(w, j, s)
    PROVE  /\ jobs[j].claimedBy = w /\ jobs[j].status \in Held
           /\ jobs'[j].status = s /\ jobs'[j].claimedBy = w
           /\ jobs'[j].runId = jobs[j].runId /\ SameWork(j)
           /\ \A i \in Jobs : i # j => jobs'[i] = jobs[i]
BY DEF mark_finished, CanFinish, QueueInv, QueueTypeOK, JobRow, SameWork

LEMMA ReleaseEffect ==
    ASSUME QueueInv, NEW j \in Jobs, release_claim(j)
    PROVE  /\ jobs[j].status # "absent"
           /\ jobs'[j].status = "queued" /\ jobs'[j].claimedBy = Null
           /\ jobs'[j].runId = jobs[j].runId /\ SameWork(j)
           /\ \A i \in Jobs : i # j => jobs'[i] = jobs[i]
BY DEF release_claim, QueueInv, QueueTypeOK, JobRow, SameWork

LEMMA HeartbeatEffect ==
    ASSUME QueueInv, NEW j \in Jobs, HeartbeatWrite(j) \/ Expire(j)
    PROVE  /\ RowKept(j) /\ SameWork(j)
           /\ HeartbeatWrite(j) => jobs'[j].heartbeat = "fresh"
           /\ \A i \in Jobs : i # j => jobs'[i] = jobs[i]
BY DEF HeartbeatWrite, Expire, RowKept, SameWork, QueueInv, QueueTypeOK, JobRow

LEMMA EnqueueEffect ==
    ASSUME QueueInv, NEW p, NEW l, enqueue_scheduled(p, l) \/ enqueue_manual(p, l)
    PROVE  \A i \in Jobs : \/ RowKept(i) /\ jobs'[i].heartbeat = jobs[i].heartbeat
                           \/ /\ jobs[i].status = "absent" /\ jobs'[i].status = "queued"
                              /\ jobs'[i].claimedBy = Null /\ jobs'[i].runId = Null
<1>1. ASSUME NEW j \in Jobs, NextId(j), NEW t, jobs' = [jobs EXCEPT ![j] = Inserted(p, t, l)]
      PROVE  \A i \in Jobs : \/ RowKept(i) /\ jobs'[i].heartbeat = jobs[i].heartbeat
                             \/ /\ jobs[i].status = "absent" /\ jobs'[i].status = "queued"
                                /\ jobs'[i].claimedBy = Null /\ jobs'[i].runId = Null
  <2>1. jobs'[j] = Inserted(p, t, l) /\ jobs[j].status = "absent"
    BY <1>1 DEF NextId, QueueInv, QueueTypeOK
  <2>2. jobs'[j].claimedBy = Null /\ jobs'[j].status = "queued" /\ jobs'[j].runId = Null
    BY <2>1 DEF Inserted, NoJob
  <2>. QED  BY <1>1, <2>1, <2>2 DEF RowKept, QueueInv, QueueTypeOK
<1>2. ASSUME NEW j \in QueuedFor(p), jobs' = [jobs EXCEPT ![j].trigger = "api", ![j].label = l]
      PROVE  \A i \in Jobs : RowKept(i) /\ jobs'[i].heartbeat = jobs[i].heartbeat
  BY <1>2 DEF RowKept, QueuedFor, QueueInv, QueueTypeOK, JobRow
<1>. QED  BY <1>1, <1>2 DEF enqueue_scheduled, enqueue_manual

LEMMA ReclaimEffect ==
    ASSUME QueueInv, reclaim_stale
    PROVE  /\ \A i \in StaleJobs : /\ jobs[i].status \in Held /\ jobs[i].heartbeat = "stale"
                                   /\ jobs'[i].claimedBy = Null /\ jobs'[i].status = "queued"
                                   /\ jobs'[i].runId = jobs[i].runId /\ SameWork(i)
           /\ \A i \in Jobs \ StaleJobs : jobs'[i] = jobs[i]
<1>1. \A i \in Jobs : jobs[i] \in JobRow
  BY DEF QueueInv, QueueTypeOK
<1>. QED  BY <1>1, ReclaimedRow DEF reclaim_stale, StaleJobs, SameWork

\* The one row an enqueue adds or relabels.
LEMMA EnqueuePlaces ==
    ASSUME QueueInv, NEW p, NEW l, enqueue_scheduled(p, l) \/ enqueue_manual(p, l)
    PROVE  \E j \in Jobs :
              /\ jobs'[j].status = "queued" /\ jobs'[j].claimedBy = Null
              /\ jobs[j].status \in {"absent", "queued"}
              /\ \A i \in Jobs : i # j => jobs'[i] = jobs[i]
<1>1. ASSUME NEW j \in Jobs, NextId(j), NEW t, jobs' = [jobs EXCEPT ![j] = Inserted(p, t, l)]
      PROVE  /\ jobs[j].status = "absent" /\ jobs'[j].status = "queued"
             /\ jobs'[j].claimedBy = Null
             /\ \A i \in Jobs : i # j => jobs'[i] = jobs[i]
  <2>1. /\ jobs'[j] = Inserted(p, t, l) /\ jobs[j].status = "absent"
        /\ \A i \in Jobs : i # j => jobs'[i] = jobs[i]
    BY <1>1 DEF NextId, QueueInv, QueueTypeOK
  <2>. QED  BY <2>1 DEF Inserted, NoJob
<1>2. ASSUME NEW j \in QueuedFor(p), jobs' = [jobs EXCEPT ![j].trigger = "api", ![j].label = l]
      PROVE  /\ j \in Jobs /\ jobs[j].status = "queued" /\ jobs'[j].status = "queued"
             /\ jobs'[j].claimedBy = Null
             /\ \A i \in Jobs : i # j => jobs'[i] = jobs[i]
  BY <1>2 DEF QueuedFor, QueueInv, QueueTypeOK, JobRow, HeldIsReapable
<1>. QED  BY <1>1, <1>2 DEF enqueue_scheduled, enqueue_manual

\* Without stalls every step keeps every hold.
LEMMA RunOnceKeepsHold ==
    ASSUME TypeInv, NEW w \in Workers, RunOnce(w), \A v \in Workers : HoldsJob(v)
    PROVE  \A v \in Workers : HoldsJob(v)'
<1>. USE DEF TypeInv
<1>0. /\ worker \in [Workers -> WorkerState]
      /\ Null \notin Workers
  BY NullFacts DEF RestOK
<1>1. CASE Claim(w)
  <2>1. PICK j \in Jobs : /\ claim_next(w, j)
                          /\ worker' = [worker EXCEPT ![w].pc = "create_run", ![w].job = j]
    BY <1>1 DEF Claim
  <2>2. /\ worker'[w].pc = "create_run" /\ worker'[w].job = j
        /\ \A v \in Workers : v # w => worker'[v] = worker[v]
    BY <1>0, <2>1 DEF WorkerState
  <2>3. HoldsJob(w)'
    <3>1. jobs'[j].status = "claimed" /\ jobs'[j].claimedBy = w /\ jobs'[j].heartbeat = "fresh"
      BY <2>1, ClaimEffect
    <3>2. ~Executing(w)'
      BY <2>2 DEF Executing
    <3>3. \A i \in Jobs : Attends(w, i)' => i = j
      BY <2>2 DEF Attends
    <3>. QED  BY <2>2, <3>1, <3>2, <3>3 DEF HoldsJob
  <2>4. ASSUME NEW v \in Workers, v # w
        PROVE  HoldsJob(v)'
    <3>1. \A i \in Jobs : NotTouched(v, i)
      BY <1>0, <2>1, <2>4, ClaimEffect DEF NotTouched, RowKept, HoldsJob
    <3>. QED  BY <2>2, <2>4, <3>1, OthersKeepHold
  <2>. QED  BY <2>3, <2>4
<1>2. CASE CreateRun(w)
  <2>1. /\ UNCHANGED jobs /\ worker[w].pc = "create_run" /\ worker'[w].pc = "transition"
        /\ worker'[w].job = worker[w].job
        /\ \A v \in Workers : v # w => worker'[v] = worker[v]
    <3>1. PICK r \in Runs : worker' = [worker EXCEPT ![w].pc = "transition", ![w].run = r]
      BY <1>2 DEF CreateRun
    <3>. QED  BY <1>0, <1>2, <3>1 DEF CreateRun, At, WorkerState
  <2>2. HoldsJob(w)'
    BY <2>1, MoveKeepsHold DEF Claiming, Executing
  <2>3. \A v \in Workers : v # w => HoldsJob(v)'
    BY <2>1, OthersKeepHold DEF NotTouched, RowKept
  <2>. QED  BY <2>2, <2>3
<1>3. CASE Transition(w)
  <2>. DEFINE j == worker[w].job
  <2>1. j \in Jobs /\ worker[w].pc = "transition"
    BY <1>3 DEF LocalsOK, Transition, At
  <2>2. CASE transition_to_running(w, j, worker[w].run) /\ Goto(w, "mark_running")
    <3>1. /\ worker'[w].pc = "mark_running" /\ worker'[w].job = j /\ worker'[w].run = worker[w].run
          /\ \A v \in Workers : v # w => worker'[v] = worker[v]
      BY <2>2, GotoType DEF PC
    <3>2. /\ jobs[j].claimedBy = w /\ jobs[j].status = "claimed"
          /\ jobs'[j].status = "running" /\ jobs'[j].claimedBy = w
          /\ jobs'[j].runId = worker[w].run /\ jobs'[j].heartbeat = jobs[j].heartbeat
          /\ \A i \in Jobs : i # j => jobs'[i] = jobs[i]
      BY <2>1, <2>2, TransitionEffect
    <3>3. HoldsJob(w)'
      BY <2>1, <3>1, <3>2 DEF HoldsJob, Claiming, Executing, Attends, Held
    <3>4. ASSUME NEW v \in Workers, v # w
          PROVE  HoldsJob(v)'
      <4>1. \A i \in Jobs : NotTouched(v, i)
        BY <3>2, <3>4 DEF NotTouched, RowKept, HoldsJob
      <4>. QED  BY <3>1, <3>4, <4>1, OthersKeepHold
    <3>. QED  BY <3>3, <3>4
  <2>3. CASE UNCHANGED jobs /\ \E label \in {"release", "cancel_run"} : Goto(w, label)
    <3>1. /\ worker'[w].pc \in {"release", "cancel_run"} /\ worker'[w].job = j
          /\ \A v \in Workers : v # w => worker'[v] = worker[v]
      BY <2>3, GotoType DEF PC
    <3>2. HoldsJob(w)'
      BY <2>1, <2>3, <3>1, MoveKeepsHold DEF Claiming, Executing
    <3>3. \A v \in Workers : v # w => HoldsJob(v)'
      BY <2>3, <3>1, OthersKeepHold DEF NotTouched, RowKept
    <3>. QED  BY <3>2, <3>3
  <2>. QED  BY <1>3, <2>2, <2>3 DEF Transition
<1>4. CASE ReleaseClaim(w)
  <2>. DEFINE j == worker[w].job
  <2>1. j \in Jobs /\ worker[w].pc = "release" /\ jobs[j].claimedBy = w
    BY <1>4 DEF LocalsOK, ReleaseClaim, At, HoldsJob, Claiming
  <2>2. CASE release_claim(j) /\ Goto(w, "cancel_run")
    <3>1. /\ worker'[w].pc = "cancel_run" /\ worker'[w].job = j
          /\ \A v \in Workers : v # w => worker'[v] = worker[v]
      BY <2>2, GotoType DEF PC
    <3>2. /\ jobs'[j].status = "queued" /\ jobs'[j].claimedBy = Null
          /\ \A i \in Jobs : i # j => jobs'[i] = jobs[i]
      BY <2>1, <2>2, ReleaseEffect
    <3>3. HoldsJob(w)'
      BY <1>0, <2>1, <3>1, <3>2 DEF HoldsJob, Claiming, Executing, Attends
    <3>4. ASSUME NEW v \in Workers, v # w
          PROVE  HoldsJob(v)'
      <4>1. \A i \in Jobs : NotTouched(v, i)
        BY <1>0, <2>1, <3>2, <3>4 DEF NotTouched, RowKept, HoldsJob
      <4>. QED  BY <3>1, <3>4, <4>1, OthersKeepHold
    <3>. QED  BY <3>3, <3>4
  <2>3. CASE UNCHANGED jobs /\ Goto(w, "fail_run")
    <3>1. /\ worker'[w].pc = "fail_run" /\ worker'[w].job = j
          /\ \A v \in Workers : v # w => worker'[v] = worker[v]
      BY <2>3, GotoType DEF PC
    <3>2. HoldsJob(w)'
      BY <2>1, <2>3, <3>1, MoveKeepsHold DEF Claiming, Executing
    <3>3. \A v \in Workers : v # w => HoldsJob(v)'
      BY <2>3, <3>1, OthersKeepHold DEF NotTouched, RowKept
    <3>. QED  BY <3>2, <3>3
  <2>. QED  BY <1>4, <2>2, <2>3 DEF ReleaseClaim
<1>5. CASE FinishJob(w) \/ FailJob(w)
  <2>. DEFINE j == worker[w].job
  <2>1. j \in Jobs /\ worker[w].pc \in {"finish_job", "fail_job"}
    BY <1>5 DEF LocalsOK, FinishJob, FailJob, At
  <2>2. /\ worker'[w].pc \in {"finish_emit", "fail_emit"} /\ worker'[w].job = j
        /\ \A v \in Workers : v # w => worker'[v] = worker[v]
    BY <1>5, GotoType DEF FinishJob, FailJob, PC
  <2>3. PICK s \in Finished : FinishOrSkip(w, j, s)
    <3>1. CASE FinishJob(w)
      BY <3>1 DEF FinishJob, LocalsOK, At, JobStatusByResult, Results, Finished
    <3>2. CASE FailJob(w)
      BY <3>2 DEF FailJob, Finished
    <3>. QED  BY <1>5, <3>1, <3>2
  <2>4. CASE UNCHANGED jobs
    <3>1. HoldsJob(w)'
      BY <2>1, <2>2, <2>4, MoveKeepsHold DEF Claiming, Executing
    <3>2. \A v \in Workers : v # w => HoldsJob(v)'
      BY <2>2, <2>4, OthersKeepHold DEF NotTouched, RowKept
    <3>. QED  BY <3>1, <3>2
  <2>5. CASE mark_finished(w, j, s)
    <3>1. /\ jobs[j].claimedBy = w /\ jobs'[j].status = s /\ jobs'[j].claimedBy = w
          /\ \A i \in Jobs : i # j => jobs'[i] = jobs[i]
      BY <2>1, <2>5, FinishEffect
    <3>2. HoldsJob(w)'
      BY <2>1, <2>2, <3>1 DEF HoldsJob, Claiming, Executing, Attends, Held, Finished
    <3>3. ASSUME NEW v \in Workers, v # w
          PROVE  HoldsJob(v)'
      <4>1. \A i \in Jobs : NotTouched(v, i)
        BY <3>1, <3>3 DEF NotTouched, RowKept, HoldsJob
      <4>. QED  BY <2>2, <3>3, <4>1, OthersKeepHold
    <3>. QED  BY <3>2, <3>3
  <2>. QED  BY <2>3, <2>4, <2>5 DEF FinishOrSkip
<1>6. CASE \/ CancelRun(w) \/ MarkRunning(w) \/ Announce(w) \/ Execute(w) \/ FinishRun(w)
           \/ FinishEmit(w) \/ FailRun(w) \/ FailEmit(w)
  <2>1. UNCHANGED jobs /\ worker[w].pc \notin {"idle", "dead"}
    BY <1>6 DEF CancelRun, MarkRunning, Announce, Execute, FinishRun, FinishEmit, FailRun,
       FailEmit, At
  <2>2. /\ \/ worker'[w].pc = "idle"
           \/ /\ worker'[w].job = worker[w].job /\ worker'[w].run = worker[w].run
              /\ ~Claiming(w)'
              /\ Executing(w)' => Executing(w)
        /\ \A v \in Workers : v # w => worker'[v] = worker[v]
    <3>1. CASE CancelRun(w) \/ FinishEmit(w) \/ FailEmit(w)
      BY <3>1, PollAgainType DEF CancelRun, FinishEmit, FailEmit
    <3>2. CASE MarkRunning(w) \/ Announce(w) \/ FinishRun(w) \/ FailRun(w)
      BY <3>2, GotoType DEF MarkRunning, Announce, FinishRun, FailRun, At, PC, Claiming,
         Executing
    <3>3. CASE Execute(w)
      BY <1>0, <3>3 DEF Execute, Goto, At, Claiming, Executing, WorkerState
    <3>. QED  BY <1>6, <3>1, <3>2, <3>3
  <2>3. HoldsJob(w)'
    BY <2>1, <2>2, MoveKeepsHold DEF Claiming, Executing
  <2>4. \A v \in Workers : v # w => HoldsJob(v)'
    BY <2>1, <2>2, OthersKeepHold DEF NotTouched, RowKept
  <2>. QED  BY <2>3, <2>4
<1>. QED  BY <1>1, <1>2, <1>3, <1>4, <1>5, <1>6 DEF RunOnce
LEMMA NextOwnInv == TypeInv /\ OwnInv /\ [Next]_vars => OwnInv'
<1>. SUFFICES ASSUME TypeInv, OwnInv, [Next]_vars, NoStall'
              PROVE  \A v \in Workers : HoldsJob(v)'
  BY DEF OwnInv
<1>. USE DEF TypeInv
<1>0. NoStall /\ (\A v \in Workers : HoldsJob(v)) /\ UNCHANGED faults.stall /\ Null \notin Workers
  <2>1. faults.stall \in Nat /\ (faults'.stall = faults.stall \/ faults'.stall = faults.stall + 1)
    BY DEF RestOK, Next, vars, EnqueueScheduled, TriggerRun, RunOnce, Claim, CreateRun, Transition,
       ReleaseClaim, CancelRun, MarkRunning, Announce, Execute, FinishRun, FinishJob, FinishEmit,
       FailRun, FailJob, FailEmit, DbError, Crash, BeatCheck, BeatWrite, HeartbeatExpires, Reclaim,
       ReaperError, FailReclaimed, ArchiveRun, OrphanEnds
  <2>. QED  BY <2>1, NullFacts DEF NoStall, OwnInv
<1>1. CASE UNCHANGED <<jobs, worker>>
  BY <1>0, <1>1, OthersKeepHold DEF NotTouched, RowKept
<1>2. ASSUME NEW p \in Pipelines, EnqueueScheduled(p) \/ TriggerRun(p)
      PROVE  \A v \in Workers : HoldsJob(v)'
  <2>1. UNCHANGED worker /\ \A i \in Jobs :
            \/ RowKept(i) /\ jobs'[i].heartbeat = jobs[i].heartbeat
            \/ jobs[i].status = "absent" /\ jobs'[i].claimedBy = Null
    BY <1>2, EnqueueEffect DEF EnqueueScheduled, TriggerRun
  <2>2. \A v \in Workers, i \in Jobs : NotTouched(v, i)
    BY <1>0, <2>1 DEF NotTouched, HoldsJob
  <2>. QED  BY <1>0, <2>1, <2>2, OthersKeepHold
<1>3. ASSUME NEW w \in Workers, RunOnce(w)
      PROVE  \A v \in Workers : HoldsJob(v)'
  BY <1>0, <1>3, RunOnceKeepsHold
<1>4. ASSUME NEW w \in Workers, DbError(w) \/ Crash(w)
      PROVE  \A v \in Workers : HoldsJob(v)'
  <2>1. UNCHANGED jobs
    BY <1>4 DEF DbError, Crash
  <2>2. /\ \/ worker'[w].pc \in {"idle", "dead"}
           \/ /\ worker'[w].job = worker[w].job /\ worker'[w].run = worker[w].run
              /\ worker[w].pc \notin {"idle", "dead"}
              /\ ~Claiming(w)'
              /\ Executing(w)' => Executing(w)
        /\ \A v \in Workers : v # w => worker'[v] = worker[v]
    <3>1. CASE Crash(w)
      BY <3>1 DEF Crash, RestOK, WorkerState, IdleWorker
    <3>2. CASE PollAgain(w)
      BY <3>2, PollAgainType
    <3>3. CASE DbError(w) /\ Goto(w, OnError[worker[w].pc])
      <4>1. worker[w].pc \in PC /\ OnError[worker[w].pc] \in PC
        BY DEF RestOK, WorkerState, OnError, PC
      <4>2. OnError[worker[w].pc] \notin {"create_run", "transition", "release"}
        BY <4>1 DEF OnError, PC
      <4>3. OnError[worker[w].pc] \in {"mark_running", "announce", "execute", "finish_run", "finish_job"}
               => Executing(w)
        BY <4>1 DEF OnError, PC, Executing
      <4>. QED  BY <3>3, <4>1, <4>2, <4>3, GotoType DEF DbError, Claiming, Executing
    <3>. QED  BY <1>4, <3>1, <3>2, <3>3 DEF DbError
  <2>3. HoldsJob(w)'
    BY <1>0, <2>1, <2>2, MoveKeepsHold DEF Claiming, Executing
  <2>4. \A v \in Workers : v # w => HoldsJob(v)'
    BY <1>0, <2>1, <2>2, OthersKeepHold DEF NotTouched, RowKept
  <2>. QED  BY <2>3, <2>4
<1>5. ASSUME NEW w \in Workers, NEW j \in Jobs, BeatWrite(w, j)
      PROVE  \A v \in Workers : HoldsJob(v)'
  <2>1. \A v \in Workers, i \in Jobs : NotTouched(v, i)
    BY <1>5, HeartbeatEffect DEF BeatWrite, NotTouched, RowKept
  <2>. QED  BY <1>0, <1>5, <2>1, OthersKeepHold DEF BeatWrite
<1>6. ASSUME NEW j \in Jobs, HeartbeatExpires(j)
      PROVE  \A v \in Workers : HoldsJob(v)'
  <2>1. \A v \in Workers : ~Attends(v, j)
    BY <1>0, <1>6 DEF HeartbeatExpires, RestOK
  <2>2. \A v \in Workers, i \in Jobs : NotTouched(v, i)
    BY <1>6, <2>1, HeartbeatEffect DEF HeartbeatExpires, NotTouched, RowKept
  <2>. QED  BY <1>0, <1>6, <2>2, OthersKeepHold DEF HeartbeatExpires
<1>7. CASE Reclaim
  <2>1. /\ \A i \in StaleJobs : /\ jobs[i].status \in Held /\ jobs[i].heartbeat = "stale"
                                /\ jobs'[i].claimedBy = Null
        /\ \A i \in Jobs \ StaleJobs : jobs'[i] = jobs[i]
    BY <1>7, ReclaimEffect DEF Reclaim
  <2>2. ASSUME NEW v \in Workers, NEW i \in StaleJobs
        PROVE  ~(i = worker[v].job /\ (Claiming(v) \/ Executing(v)))
    BY <1>0, <2>1 DEF HoldsJob, Attends, Claiming, Executing, StaleJobs, Held
  <2>3. \A v \in Workers, i \in Jobs : NotTouched(v, i)
    BY <1>0, <2>1, <2>2 DEF NotTouched, RowKept
  <2>. QED  BY <1>0, <1>7, <2>3, OthersKeepHold DEF Reclaim
<1>. QED
  BY <1>1, <1>2, <1>3, <1>4, <1>5, <1>6, <1>7
  DEF Next, vars, BeatCheck, ReaperError, FailReclaimed, ArchiveRun, OrphanEnds

LEMMA InitOwnInv == Init => OwnInv
<1>. SUFFICES ASSUME Init, NEW w \in Workers PROVE HoldsJob(w)
  BY DEF OwnInv
<1>1. worker[w].pc = "idle"
  BY DEF Init, IdleWorker
<1>. QED  BY <1>1 DEF HoldsJob, Claiming, Executing, Attends

LEMMA OwnInvariant == Spec => [](TypeInv /\ OwnInv)
<1>1. Init => TypeInv /\ OwnInv
  BY InitTypeInv, InitOwnInv
<1>2. TypeInv /\ OwnInv /\ [Next]_vars => TypeInv' /\ OwnInv'
  BY NextTypeInv, NextOwnInv
<1>. QED  BY <1>1, <1>2, PTL DEF Spec

\* Without stalls a worker between transition_to_running and its terminal
\* write owns the running job bound to its run, for any number of crashes,
\* raising statements and concurrent workers.
THEOREM ExecutorOwns == Spec => []ExecutorOwnsJob
<1>1. TypeInv /\ OwnInv => ExecutorOwnsJob
  BY DEF OwnInv, HoldsJob, ExecutorOwnsJob
<1>. QED  BY <1>1, OwnInvariant, PTL

\* Without stalls no two workers drive executions of one pipeline: whatever
\* runs beside a driven execution was left behind by its worker.
THEOREM OneExecution == Spec => []MutualExclusion
<1>1. TypeInv /\ OwnInv => MutualExclusion
  <2>. SUFFICES ASSUME TypeInv, OwnInv, NoStall, NEW d \in Executions, NEW e \in Executions,
                       d # e, d.of.pipeline = e.of.pipeline, Null \notin {d.by, e.by}
                PROVE  FALSE
    BY DEF MutualExclusion
  <2>1. PICK v \in Workers : Executing(v) /\ d = [of |-> Execution(v), by |-> v]
    BY DEF Executions
  <2>2. PICK w \in Workers : Executing(w) /\ e = [of |-> Execution(w), by |-> w]
    BY DEF Executions
  <2>3. v # w /\ jobs[worker[v].job].pipeline = jobs[worker[w].job].pipeline
    BY <2>1, <2>2 DEF Execution
  <2>4. worker[v].job \in Jobs /\ worker[w].job \in Jobs
    BY <2>1, <2>2 DEF TypeInv, LocalsOK, Executing
  <2>5. /\ jobs[worker[v].job].status = "running" /\ jobs[worker[v].job].claimedBy = v
        /\ jobs[worker[w].job].status = "running" /\ jobs[worker[w].job].claimedBy = w
    BY <2>1, <2>2 DEF OwnInv, HoldsJob
  <2>. QED  BY <2>3, <2>4, <2>5 DEF TypeInv, QueueInv, OnePerPipeline, SamePipeline
<1>. QED  BY <1>1, OwnInvariant, PTL

\* Without stalls no step touches the status or the binding of a finished job.
LEMMA FinishedRowKept ==
    ASSUME TypeInv, OwnInv, Next, NoStall', NEW i \in Jobs, jobs[i].status \in Finished
    PROVE  jobs'[i].status = jobs[i].status /\ jobs'[i].runId = jobs[i].runId
<1>. DEFINE Kept == jobs'[i].status = jobs[i].status /\ jobs'[i].runId = jobs[i].runId
<1>. USE DEF TypeInv
<1>0. jobs[i].status \notin Held \cup {"queued", "absent"}
  BY DEF Held, Finished
<1>1. ASSUME NEW p \in Pipelines, EnqueueScheduled(p) \/ TriggerRun(p)
      PROVE  Kept
  BY <1>0, <1>1, EnqueueEffect DEF EnqueueScheduled, TriggerRun, RowKept
<1>2. ASSUME NEW w \in Workers, Claim(w)
      PROVE  Kept
  BY <1>0, <1>2, ClaimEffect DEF Claim
<1>3. ASSUME NEW w \in Workers, Transition(w)
      PROVE  Kept
  <2>1. worker[w].job \in Jobs
    BY <1>3 DEF LocalsOK, Transition, At
  <2>. QED  BY <1>0, <1>3, <2>1, TransitionEffect DEF Transition, Held
<1>4. ASSUME NEW w \in Workers, ReleaseClaim(w)
      PROVE  Kept
  <2>1. worker[w].job \in Jobs /\ Claiming(w)
    BY <1>4 DEF LocalsOK, ReleaseClaim, At, Claiming
  <2>2. NoStall
    BY <1>4 DEF ReleaseClaim, NoStall
  <2>3. jobs[worker[w].job].status = "claimed"
    BY <2>1, <2>2 DEF OwnInv, HoldsJob
  <2>. QED  BY <1>0, <1>4, <2>1, <2>3, ReleaseEffect DEF ReleaseClaim, Held
<1>5. ASSUME NEW w \in Workers, FinishJob(w) \/ FailJob(w)
      PROVE  Kept
  <2>1. worker[w].job \in Jobs
    BY <1>5 DEF LocalsOK, FinishJob, FailJob, At
  <2>. QED  BY <1>0, <1>5, <2>1, FinishEffect DEF FinishJob, FailJob, FinishOrSkip
<1>6. ASSUME NEW w \in Workers, NEW j \in Jobs, BeatWrite(w, j)
      PROVE  Kept
  BY <1>6, HeartbeatEffect DEF BeatWrite, RowKept
<1>7. ASSUME NEW j \in Jobs, HeartbeatExpires(j)
      PROVE  Kept
  BY <1>7, HeartbeatEffect DEF HeartbeatExpires, RowKept
<1>8. CASE Reclaim
  BY <1>0, <1>8, ReclaimEffect DEF Reclaim
<1>. QED
  BY <1>1, <1>2, <1>3, <1>4, <1>5, <1>6, <1>7, <1>8
  DEF Next, RunOnce, CreateRun, CancelRun, MarkRunning, Announce, Execute, FinishRun,
      FinishEmit, FailRun, FailEmit, DbError, Crash, BeatCheck, ReaperError, FailReclaimed,
      ArchiveRun, OrphanEnds

\* Without stalls a finished job stays finished: release_claim, the one
\* statement without an owner guard, is only ever issued by a worker that
\* still holds the claim.
THEOREM FinishedJobsStay == Spec => FinishedStays
<1>1. ASSUME TypeInv, OwnInv, [Next]_vars
      PROVE  [\A j \in Jobs : faults'.stall = 0 /\ jobs[j].status \in Finished
                 => jobs'[j].status = jobs[j].status]_vars
  BY <1>1, FinishedRowKept DEF NoStall
<1>. QED  BY <1>1, OwnInvariant, PTL DEF Spec, FinishedStays

-----------------------------------------------------------------------------
(* The runs behind the jobs.  SucceededRunBehindJob is not inductive: a    *)
(* late writer of a succeeded run has to be excluded, which takes that a   *)
(* run is created for one worker and bound to one job, that a worker which *)
(* can still finish its job finishes it for its own run, and that the      *)
(* reaper's pass fails no run that a running or succeeded job is bound to. *)

RunsExist ==
    /\ \A w \in Workers : worker[w].run \in Runs => runs[worker[w].run] # "absent"
    /\ \A j \in Jobs : jobs[j].runId \in Runs => runs[jobs[j].runId] # "absent"
    /\ \A r \in pending : runs[r] # "absent"

RunsUnshared ==
    /\ \A v, w \in Workers : v # w /\ worker[v].run \in Runs => worker[v].run # worker[w].run
    /\ \A i, j \in Jobs : i # j /\ jobs[i].runId \in Runs => jobs[i].runId # jobs[j].runId
    /\ \A w \in Workers : worker[w].pc = "transition" =>
          worker[w].run \notin pending /\ \A j \in Jobs : jobs[j].runId # worker[w].run

FinishesOwnRun ==
    \A w \in Workers : Executing(w) /\ CanFinish(w, worker[w].job) =>
        /\ jobs[worker[w].job].status = "running"
        /\ jobs[worker[w].job].runId = worker[w].run
        /\ At(w, "finish_job") /\ worker[w].result = "succeeded"
               => runs[worker[w].run] = "success"

PendingIsDown ==
    \A r \in pending, j \in Jobs :
        jobs[j].runId = r => jobs[j].status \notin {"running", "succeeded"}

SucceededIsSettled ==
    \A j \in Jobs : jobs[j].status = "succeeded" =>
        /\ jobs[j].runId \in Runs /\ runs[jobs[j].runId] = "success"
        /\ \A w \in Workers : worker[w].run = jobs[j].runId => At(w, "finish_emit")

\* The worker that holds a run has not announced its end.
EndNotAnnounced ==
    /\ \A r \in Runs : runs[r] = "absent" => events[r] = {}
    /\ \A w \in Workers : worker[w].run \in Runs => events[worker[w].run] \subseteq {"started"}

BookInv == /\ RunsExist /\ RunsUnshared /\ FinishesOwnRun /\ PendingIsDown
           /\ SucceededIsSettled /\ EndNotAnnounced

\* A step of worker w that leaves the jobs table alone: w goes back to poll
\* or moves on with the job and the run it has, and writes to no other run.
OwnStep(w) ==
    /\ UNCHANGED <<jobs, pending>>
    /\ \A v \in Workers : v # w => worker'[v] = worker[v]
    /\ \/ worker'[w].pc \in {"idle", "dead"} /\ worker'[w].run = Null
       \/ /\ worker[w].pc \notin {"idle", "dead", "finish_emit"}
          /\ worker'[w].pc # "transition"
          /\ Executing(w)' => Executing(w)
          /\ worker'[w].job = worker[w].job /\ worker'[w].run = worker[w].run
          /\ At(w, "finish_job")' /\ worker'[w].result = "succeeded"
                 => runs'[worker[w].run] = "success"
          /\ worker[w].run \in Runs => events'[worker[w].run] \subseteq {"started"}
    /\ worker[w].pc = "finish_emit" => UNCHANGED runs
    /\ \A r \in Runs : runs'[r] = "absent" <=> runs[r] = "absent"
    /\ \A r \in Runs : r # worker[w].run => runs'[r] = runs[r] /\ events'[r] = events[r]

LEMMA OwnStepKeepsBook ==
    ASSUME TypeInv, BookInv, NEW w \in Workers, OwnStep(w)
    PROVE  BookInv'
<1>. USE DEF TypeInv, BookInv
<1>0. /\ Null \notin Runs /\ pending \subseteq Runs
      /\ \A j \in Jobs : jobs[j].runId \in Runs \cup {Null}
      /\ \A v \in Workers : worker[v].run \in Runs \cup {Null}
      /\ \A v \in Workers : Executing(v) => worker[v].job \in Jobs /\ worker[v].run \in Runs
  BY NullFacts DEF RestOK, WorkerState, QueueInv, QueueTypeOK, JobRow, LocalsOK, Executing
<1>1. RunsExist'
  BY <1>0 DEF OwnStep, RunsExist
<1>2. RunsUnshared'
  BY <1>0 DEF OwnStep, RunsUnshared
<1>3. FinishesOwnRun'
  <2>. SUFFICES ASSUME NEW v \in Workers, Executing(v)', CanFinish(v, worker[v].job)'
                PROVE  /\ jobs'[worker'[v].job].status = "running"
                       /\ jobs'[worker'[v].job].runId = worker'[v].run
                       /\ At(v, "finish_job")' /\ worker'[v].result = "succeeded"
                              => runs'[worker'[v].run] = "success"
    BY DEF FinishesOwnRun
  <2>1. /\ Executing(v) /\ worker'[v].job = worker[v].job /\ worker'[v].run = worker[v].run
        /\ v = w \/ worker'[v] = worker[v]
    BY DEF OwnStep, Executing
  <2>2. CanFinish(v, worker[v].job)
    BY <2>1 DEF OwnStep, CanFinish
  <2>3. CASE v = w
    BY <1>0, <2>1, <2>2, <2>3 DEF OwnStep, FinishesOwnRun, At, Executing
  <2>4. CASE v # w
    <3>1. worker[v].run # worker[w].run /\ worker[v].run \in Runs
      BY <1>0, <2>1, <2>4 DEF RunsUnshared
    <3>. QED  BY <1>0, <2>1, <2>2, <2>4, <3>1 DEF OwnStep, FinishesOwnRun, At
  <2>. QED  BY <2>3, <2>4
<1>4. PendingIsDown'
  BY DEF OwnStep, PendingIsDown
<1>5. SucceededIsSettled'
  <2>. SUFFICES ASSUME NEW j \in Jobs, jobs[j].status = "succeeded"
                PROVE  /\ jobs[j].runId \in Runs /\ runs'[jobs[j].runId] = "success"
                       /\ \A v \in Workers : worker'[v].run = jobs[j].runId => At(v, "finish_emit")'
    BY DEF OwnStep, SucceededIsSettled
  <2>1. /\ jobs[j].runId \in Runs /\ runs[jobs[j].runId] = "success"
        /\ \A v \in Workers : worker[v].run = jobs[j].runId => worker[v].pc = "finish_emit"
    BY DEF SucceededIsSettled, At
  <2>2. runs'[jobs[j].runId] = "success"
    BY <2>1 DEF OwnStep
  <2>3. \A v \in Workers : worker'[v].run = jobs[j].runId => worker'[v].pc = "finish_emit"
    BY <1>0, <2>1 DEF OwnStep
  <2>. QED  BY <2>1, <2>2, <2>3 DEF At
<1>6. EndNotAnnounced'
  <2>1. \A r \in Runs : runs'[r] = "absent" => events'[r] = {}
    BY DEF OwnStep, EndNotAnnounced, RunsExist
  <2>2. ASSUME NEW v \in Workers, worker'[v].run \in Runs
        PROVE  events'[worker'[v].run] \subseteq {"started"}
    BY <1>0, <2>2 DEF OwnStep, EndNotAnnounced, RunsUnshared
  <2>. QED  BY <2>1, <2>2 DEF EndNotAnnounced
<1>. QED  BY <1>1, <1>2, <1>3, <1>4, <1>5, <1>6

\* Statements on jobs that leave the workers and the runs alone and change
\* no row's binding, moving rows at most to queued.
LEMMA TableStepKeepsBook ==
    ASSUME TypeInv, BookInv, UNCHANGED <<runs, events, worker, pending>>,
           \A i \in Jobs :
              \/ RowKept(i)
              \/ /\ jobs'[i].runId \in {jobs[i].runId, Null}
                 /\ jobs'[i].status = "queued"
    PROVE  BookInv'
<1>. USE DEF TypeInv, BookInv
<1>0. /\ Null \notin Runs
      /\ \A j \in Jobs : jobs[j].runId \in Runs \cup {Null}
      /\ \A v \in Workers : Executing(v) => worker[v].job \in Jobs
  BY NullFacts DEF QueueInv, QueueTypeOK, JobRow, LocalsOK, Executing
<1>1. RunsExist'
  BY <1>0 DEF RunsExist, RowKept
<1>2. RunsUnshared'
  BY <1>0, NullFacts DEF RunsUnshared, RowKept, LocalsOK
<1>3. FinishesOwnRun'
  BY <1>0 DEF FinishesOwnRun, RowKept, CanFinish, Held, At, Executing
<1>4. PendingIsDown'
  BY <1>0, NullFacts DEF PendingIsDown, RowKept, RestOK
<1>5. SucceededIsSettled'
  BY DEF SucceededIsSettled, RowKept, At
<1>6. EndNotAnnounced'
  BY DEF EndNotAnnounced
<1>. QED  BY <1>1, <1>2, <1>3, <1>4, <1>5, <1>6

\* The moves of run_once.
LEMMA MoveIsOwnStep ==
    ASSUME TypeInv, BookInv, NEW w \in Workers,
           \/ CancelRun(w) \/ MarkRunning(w) \/ Announce(w) \/ Execute(w) \/ FinishRun(w)
           \/ FinishEmit(w) \/ FailRun(w) \/ FailEmit(w) \/ DbError(w) \/ Crash(w)
    PROVE  OwnStep(w)
<1>. USE DEF TypeInv
<1>0. /\ worker \in [Workers -> WorkerState] /\ worker[w].pc \in PC
      /\ runs \in [Runs -> {"absent"} \cup OpenRun \cup ClosedRun]
      /\ events \in [Runs -> SUBSET {"started", "succeeded", "failed"}]
      /\ worker[w].run \in Runs => runs[worker[w].run] # "absent"
      /\ worker[w].run \in Runs => events[worker[w].run] \subseteq {"started"}
  BY DEF RestOK, WorkerState, BookInv, RunsExist, EndNotAnnounced
<1>1. CASE CancelRun(w)
  <2>1. /\ worker'[w].pc = "idle" /\ worker'[w].run = Null
        /\ \A v \in Workers : v # w => worker'[v] = worker[v]
    BY <1>1, PollAgainType DEF CancelRun, IdleWorker
  <2>. QED  BY <1>0, <1>1, <2>1 DEF CancelRun, OwnStep, At, update_run_status, OpenRun, ClosedRun
<1>2. CASE MarkRunning(w)
  <2>1. /\ worker'[w].pc = "announce" /\ worker'[w].run = worker[w].run
        /\ worker'[w].job = worker[w].job
        /\ \A v \in Workers : v # w => worker'[v] = worker[v]
    BY <1>2, GotoType DEF MarkRunning, PC
  <2>. QED  BY <1>0, <1>2, <2>1 DEF MarkRunning, OwnStep, At, update_run_status, Executing
<1>3. CASE Announce(w)
  <2>1. /\ worker'[w].pc = "execute" /\ worker'[w].run = worker[w].run
        /\ worker'[w].job = worker[w].job
        /\ \A v \in Workers : v # w => worker'[v] = worker[v]
    BY <1>3, GotoType DEF Announce, PC
  <2>. QED  BY <1>0, <1>3, <2>1 DEF Announce, OwnStep, At, emit, Executing
<1>4. CASE Execute(w)
  <2>1. /\ worker'[w].pc \in {"finish_run", "fail_run"} /\ worker'[w].run = worker[w].run
        /\ worker'[w].job = worker[w].job
        /\ \A v \in Workers : v # w => worker'[v] = worker[v]
    BY <1>0, <1>4 DEF Execute, Goto, WorkerState
  <2>. QED  BY <1>0, <1>4, <2>1 DEF Execute, OwnStep, At, Executing
<1>5. CASE FinishRun(w)
  <2>1. /\ worker'[w].pc = "finish_job" /\ worker'[w].run = worker[w].run
        /\ worker'[w].job = worker[w].job /\ worker'[w].result = worker[w].result
        /\ \A v \in Workers : v # w => worker'[v] = worker[v]
    BY <1>5, GotoType DEF FinishRun, PC
  <2>2. /\ worker[w].run \in Runs /\ worker[w].result \in Results
        /\ RunStatusByResult[worker[w].result] # "absent"
        /\ worker[w].result = "succeeded" => RunStatusByResult[worker[w].result] = "success"
    BY <1>5 DEF FinishRun, At, LocalsOK, RunStatusByResult, Results
  <2>. QED  BY <1>0, <1>5, <2>1, <2>2 DEF FinishRun, OwnStep, At, update_run_status, Executing
<1>6. CASE FinishEmit(w)
  <2>1. /\ worker'[w].pc = "idle" /\ worker'[w].run = Null
        /\ \A v \in Workers : v # w => worker'[v] = worker[v]
    BY <1>6, PollAgainType DEF FinishEmit, IdleWorker
  <2>. QED  BY <1>0, <1>6, <2>1 DEF FinishEmit, OwnStep, At, emit
<1>7. CASE FailRun(w)
  <2>1. /\ worker'[w].pc = "fail_job" /\ worker'[w].run = worker[w].run
        /\ worker'[w].job = worker[w].job
        /\ \A v \in Workers : v # w => worker'[v] = worker[v]
    BY <1>7, GotoType DEF FailRun, PC
  <2>. QED  BY <1>0, <1>7, <2>1 DEF FailRun, OwnStep, At, update_run_status, Executing
<1>8. CASE FailEmit(w)
  <2>1. /\ worker'[w].pc = "idle" /\ worker'[w].run = Null
        /\ \A v \in Workers : v # w => worker'[v] = worker[v]
    BY <1>8, PollAgainType DEF FailEmit, IdleWorker
  <2>. QED  BY <1>0, <1>8, <2>1 DEF FailEmit, OwnStep, At, emit
<1>9. CASE DbError(w)
  <2>1. CASE PollAgain(w)
    <3>1. /\ worker'[w].pc = "idle" /\ worker'[w].run = Null
          /\ \A v \in Workers : v # w => worker'[v] = worker[v]
      BY <2>1, PollAgainType DEF IdleWorker
    <3>. QED  BY <1>9, <3>1 DEF DbError, OwnStep
  <2>2. CASE OnError[worker[w].pc] # "idle" /\ Goto(w, OnError[worker[w].pc])
    <3>1. /\ OnError[worker[w].pc] \in PC \ {"transition", "finish_job"}
          /\ OnError["finish_emit"] = "idle" /\ OnError["finish_job"] = "idle"
          /\ OnError[worker[w].pc] \in {"mark_running", "announce", "execute", "finish_run", "finish_job"}
               => Executing(w)
      BY <1>0 DEF OnError, PC, Executing
    <3>2. /\ worker'[w].pc = OnError[worker[w].pc] /\ worker'[w].run = worker[w].run
          /\ worker'[w].job = worker[w].job
          /\ \A v \in Workers : v # w => worker'[v] = worker[v]
      BY <2>2, <3>1, GotoType
    <3>. QED  BY <1>0, <1>9, <2>2, <3>1, <3>2 DEF DbError, OwnStep, Executing, At
  <2>. QED  BY <1>9, <2>1, <2>2 DEF DbError
<1>10. CASE Crash(w)
  <2>1. /\ worker'[w].pc = "dead" /\ worker'[w].run = Null
        /\ \A v \in Workers : v # w => worker'[v] = worker[v]
    BY <1>0, <1>10 DEF Crash, IdleWorker, WorkerState
  <2>. QED  BY <1>10, <2>1 DEF Crash, OwnStep
<1>. QED  BY <1>1, <1>2, <1>3, <1>4, <1>5, <1>6, <1>7, <1>8, <1>9, <1>10

\* Claiming, creating the run, binding it and finishing.
LEMMA ClaimKeepsBook ==
    ASSUME TypeInv, BookInv, NEW w \in Workers, Claim(w)
    PROVE  BookInv'
<1>. USE DEF TypeInv, BookInv
<1>1. PICK j \in Jobs : /\ claim_next(w, j)
                        /\ worker' = [worker EXCEPT ![w].pc = "create_run", ![w].job = j]
  BY DEF Claim
<1>2. /\ worker[w].pc = "idle" /\ worker'[w].pc = "create_run" /\ worker'[w].run = worker[w].run
      /\ \A v \in Workers : v # w => worker'[v] = worker[v]
      /\ UNCHANGED <<runs, events, pending>>
  BY <1>1 DEF Claim, At, RestOK, WorkerState
<1>3. /\ jobs[j].status = "queued" /\ jobs'[j].status = "claimed" /\ jobs'[j].claimedBy = w
      /\ \A i \in Jobs : jobs'[i].runId = jobs[i].runId
      /\ \A i \in Jobs : i # j => jobs'[i] = jobs[i]
  BY <1>1, ClaimEffect
<1>4. \A v \in Workers : Executing(v) => worker[v].job \in Jobs
  BY DEF LocalsOK, Executing
<1>5. RunsExist' /\ RunsUnshared' /\ PendingIsDown' /\ EndNotAnnounced'
  BY <1>2, <1>3 DEF RunsExist, RunsUnshared, PendingIsDown, EndNotAnnounced
<1>6. FinishesOwnRun'
  BY <1>2, <1>3, <1>4 DEF FinishesOwnRun, CanFinish, Executing, At
<1>7. SucceededIsSettled'
  BY <1>2, <1>3 DEF SucceededIsSettled, At
<1>. QED  BY <1>5, <1>6, <1>7

LEMMA CreateKeepsBook ==
    ASSUME TypeInv, BookInv, NEW w \in Workers, CreateRun(w)
    PROVE  BookInv'
<1>. USE DEF TypeInv, BookInv
<1>1. PICK r \in Runs : /\ NextRun(r)
                        /\ update_run_status(r, "queued")
                        /\ worker' = [worker EXCEPT ![w].pc = "transition", ![w].run = r]
  BY DEF CreateRun
<1>2. /\ worker'[w].pc = "transition" /\ worker'[w].run = r
      /\ \A v \in Workers : v # w => worker'[v] = worker[v]
      /\ runs[r] = "absent" /\ runs'[r] = "queued"
      /\ \A q \in Runs : q # r => runs'[q] = runs[q]
      /\ UNCHANGED <<jobs, events, pending>>
  BY <1>1 DEF CreateRun, NextRun, update_run_status, RestOK, WorkerState
<1>3. /\ \A v \in Workers : worker[v].run # r
      /\ \A j \in Jobs : jobs[j].runId # r
      /\ r \notin pending /\ events[r] = {}
  BY <1>1, <1>2 DEF RunsExist, EndNotAnnounced
<1>4. /\ pending \subseteq Runs
      /\ \A v \in Workers : Executing(v) => worker[v].run \in Runs
  BY DEF RestOK, LocalsOK, Executing
<1>5. RunsExist' /\ RunsUnshared' /\ PendingIsDown' /\ EndNotAnnounced'
  BY <1>2, <1>3, <1>4 DEF RunsExist, RunsUnshared, PendingIsDown, EndNotAnnounced
<1>6. FinishesOwnRun'
  BY <1>2, <1>3, <1>4 DEF FinishesOwnRun, CanFinish, Executing, At
<1>7. SucceededIsSettled'
  BY <1>2, <1>3 DEF SucceededIsSettled, At
<1>. QED  BY <1>5, <1>6, <1>7

LEMMA TransitionKeepsBook ==
    ASSUME TypeInv, BookInv, NEW w \in Workers, Transition(w)
    PROVE  BookInv'
<1>. USE DEF TypeInv, BookInv
<1>. DEFINE j == worker[w].job  r == worker[w].run
<1>0. /\ j \in Jobs /\ r \in Runs /\ worker[w].pc = "transition"
      /\ UNCHANGED <<runs, events, pending>>
  BY DEF Transition, At, LocalsOK
<1>1. CASE transition_to_running(w, j, r) /\ Goto(w, "mark_running")
  <2>1. /\ worker'[w].pc = "mark_running" /\ worker'[w].job = j /\ worker'[w].run = r
        /\ \A v \in Workers : v # w => worker'[v] = worker[v]
    BY <1>1, GotoType DEF PC
  <2>2. /\ jobs[j].status = "claimed" /\ jobs[j].claimedBy = w
        /\ jobs'[j].status = "running" /\ jobs'[j].claimedBy = w /\ jobs'[j].runId = r
        /\ \A i \in Jobs : i # j => jobs'[i] = jobs[i]
    BY <1>0, <1>1, TransitionEffect
  <2>3. r \notin pending /\ (\A i \in Jobs : jobs[i].runId # r) /\ runs[r] # "absent"
    BY <1>0 DEF RunsUnshared, RunsExist
  <2>4. /\ Null \notin Runs
        /\ \A v \in Workers : worker[v].run = r => v = w
        /\ \A v \in Workers : Executing(v) => worker[v].job \in Jobs
    BY <1>0, NullFacts DEF RunsUnshared, LocalsOK, Executing
  <2>5. RunsExist' /\ EndNotAnnounced'
    BY <1>0, <2>1, <2>2, <2>3 DEF RunsExist, EndNotAnnounced
  <2>6. RunsUnshared'
    BY <1>0, <2>1, <2>2, <2>3, <2>4 DEF RunsUnshared
  <2>7. FinishesOwnRun'
    BY <1>0, <2>1, <2>2, <2>4 DEF FinishesOwnRun, CanFinish, Executing, At, Held
  <2>8. PendingIsDown'
    BY <1>0, <2>2, <2>3 DEF PendingIsDown
  <2>9. SucceededIsSettled'
    BY <1>0, <2>1, <2>2, <2>3 DEF SucceededIsSettled, At
  <2>. QED  BY <2>5, <2>6, <2>7, <2>8, <2>9
<1>2. CASE UNCHANGED jobs /\ \E label \in {"release", "cancel_run"} : Goto(w, label)
  <2>1. /\ worker'[w].pc \in {"release", "cancel_run"} /\ worker'[w].job = j /\ worker'[w].run = r
        /\ \A v \in Workers : v # w => worker'[v] = worker[v]
    BY <1>2, GotoType DEF PC
  <2>2. OwnStep(w)
    BY <1>0, <1>2, <2>1 DEF OwnStep, Executing, At, EndNotAnnounced
  <2>. QED  BY <2>2, OwnStepKeepsBook
<1>. QED  BY <1>1, <1>2 DEF Transition

LEMMA ReleaseKeepsBook ==
    ASSUME TypeInv, BookInv, NEW w \in Workers, ReleaseClaim(w)
    PROVE  BookInv'
<1>. USE DEF TypeInv, BookInv
<1>. DEFINE j == worker[w].job  r == worker[w].run
<1>0. /\ j \in Jobs /\ r \in Runs /\ worker[w].pc = "release"
      /\ UNCHANGED <<runs, events, pending>>
  BY DEF ReleaseClaim, At, LocalsOK
<1>1. CASE release_claim(j) /\ Goto(w, "cancel_run")
  <2>1. /\ worker'[w].pc = "cancel_run" /\ worker'[w].run = r
        /\ \A v \in Workers : v # w => worker'[v] = worker[v]
    BY <1>1, GotoType DEF PC
  <2>2. /\ jobs'[j].status = "queued" /\ jobs'[j].runId = jobs[j].runId
        /\ \A i \in Jobs : i # j => jobs'[i] = jobs[i]
    BY <1>0, <1>1, ReleaseEffect
  <2>3. \A v \in Workers : Executing(v) => worker[v].job \in Jobs
    BY DEF LocalsOK, Executing
  <2>4. RunsExist' /\ RunsUnshared' /\ PendingIsDown' /\ EndNotAnnounced'
    BY <1>0, <2>1, <2>2 DEF RunsExist, RunsUnshared, PendingIsDown, EndNotAnnounced
  <2>5. FinishesOwnRun'
    BY <1>0, <2>1, <2>2, <2>3 DEF FinishesOwnRun, CanFinish, Executing, At, Held
  <2>6. SucceededIsSettled'
    BY <1>0, <2>1, <2>2 DEF SucceededIsSettled, At
  <2>. QED  BY <2>4, <2>5, <2>6
<1>2. CASE UNCHANGED jobs /\ Goto(w, "fail_run")
  <2>1. /\ worker'[w].pc = "fail_run" /\ worker'[w].job = j /\ worker'[w].run = r
        /\ \A v \in Workers : v # w => worker'[v] = worker[v]
    BY <1>2, GotoType DEF PC
  <2>2. OwnStep(w)
    BY <1>0, <1>2, <2>1 DEF OwnStep, Executing, At, EndNotAnnounced
  <2>. QED  BY <2>2, OwnStepKeepsBook
<1>. QED  BY <1>1, <1>2 DEF ReleaseClaim

LEMMA FinishKeepsBook ==
    ASSUME TypeInv, BookInv, NEW w \in Workers, FinishJob(w) \/ FailJob(w)
    PROVE  BookInv'
<1>. USE DEF TypeInv, BookInv
<1>. DEFINE j == worker[w].job  r == worker[w].run
<1>0. /\ j \in Jobs /\ worker[w].pc \in {"finish_job", "fail_job"}
      /\ UNCHANGED <<runs, events, pending>>
  BY DEF FinishJob, FailJob, At, LocalsOK
<1>1. /\ worker'[w].pc = IF worker[w].pc = "finish_job" THEN "finish_emit" ELSE "fail_emit"
      /\ worker'[w].job = j /\ worker'[w].run = r
      /\ \A v \in Workers : v # w => worker'[v] = worker[v]
  BY GotoType DEF FinishJob, FailJob, At, PC
<1>2. PICK s \in Finished : /\ FinishOrSkip(w, j, s)
                            /\ s = "succeeded" => /\ worker[w].pc = "finish_job"
                                                  /\ worker[w].result = "succeeded"
  <2>1. CASE FinishJob(w)
    BY <2>1 DEF FinishJob, LocalsOK, At, JobStatusByResult, Results, Finished
  <2>2. CASE FailJob(w)
    BY <2>2 DEF FailJob, Finished
  <2>. QED  BY <2>1, <2>2
<1>3. CASE mark_finished(w, j, s)
  <2>1. /\ CanFinish(w, j) /\ jobs[j].claimedBy = w
        /\ jobs'[j].status = s /\ jobs'[j].runId = jobs[j].runId
        /\ \A i \in Jobs : i # j => jobs'[i] = jobs[i]
    BY <1>0, <1>3, FinishEffect DEF CanFinish
  <2>2. /\ \A v \in Workers : Executing(v) => worker[v].job \in Jobs
        /\ s \notin {"queued", "running", "claimed"}
    BY DEF LocalsOK, Executing, Finished
  <2>3. RunsExist' /\ RunsUnshared' /\ EndNotAnnounced'
    BY <1>0, <1>1, <2>1 DEF RunsExist, RunsUnshared, EndNotAnnounced
  <2>4. FinishesOwnRun'
    BY <1>0, <1>1, <2>1, <2>2 DEF FinishesOwnRun, CanFinish, Executing, At, Held
  <2>5. ASSUME s = "succeeded"
        PROVE  /\ r \in Runs /\ jobs[j].runId = r /\ runs[r] = "success"
               /\ jobs[j].status = "running"
    BY <1>2, <2>1, <2>5 DEF FinishesOwnRun, Executing, At, LocalsOK
  <2>6. PendingIsDown'
    BY <1>0, <2>1, <2>2, <2>5 DEF PendingIsDown
  <2>7. ASSUME NEW i \in Jobs, jobs'[i].status = "succeeded"
        PROVE  /\ jobs'[i].runId \in Runs /\ runs'[jobs'[i].runId] = "success"
               /\ \A v \in Workers : worker'[v].run = jobs'[i].runId => At(v, "finish_emit")'
    <3>1. CASE i = j
      <4>1. /\ jobs'[i].runId = r /\ r \in Runs /\ runs'[r] = "success"
            /\ worker'[w].pc = "finish_emit"
        BY <1>0, <1>1, <1>2, <2>1, <2>5, <2>7, <3>1
      <4>2. \A v \in Workers : worker'[v].run = r => v = w
        BY <1>1, <4>1 DEF RunsUnshared
      <4>. QED  BY <4>1, <4>2 DEF At
    <3>2. CASE i # j
      <4>1. /\ jobs[i].runId \in Runs /\ runs[jobs[i].runId] = "success"
            /\ \A v \in Workers : worker[v].run = jobs[i].runId => worker[v].pc = "finish_emit"
        BY <2>1, <2>7, <3>2 DEF SucceededIsSettled, At
      <4>. QED  BY <1>0, <1>1, <2>1, <3>2, <4>1 DEF At
    <3>. QED  BY <3>1, <3>2
  <2>8. SucceededIsSettled'
    BY <2>7 DEF SucceededIsSettled
  <2>. QED  BY <2>3, <2>4, <2>6, <2>8
<1>4. CASE UNCHANGED jobs
  <2>1. OwnStep(w)
    BY <1>0, <1>1, <1>4 DEF OwnStep, Executing, At, EndNotAnnounced
  <2>. QED  BY <2>1, OwnStepKeepsBook
<1>. QED  BY <1>2, <1>3, <1>4 DEF FinishOrSkip

\* The reaper and the archiver.
LEMMA ReclaimKeepsBook ==
    ASSUME TypeInv, BookInv, Reclaim
    PROVE  BookInv'
<1>. USE DEF TypeInv, BookInv
<1>1. /\ \A i \in StaleJobs : jobs'[i].status = "queued" /\ jobs'[i].runId = jobs[i].runId
      /\ \A i \in Jobs \ StaleJobs : jobs'[i] = jobs[i]
      /\ StaleJobs \subseteq Jobs
  BY ReclaimEffect DEF Reclaim, StaleJobs
<1>2. /\ UNCHANGED <<runs, events, worker>>
      /\ pending' = {jobs[i].runId : i \in StaleJobs} \ {Null}
      /\ Null \notin Runs
      /\ \A i \in Jobs : jobs[i].runId \in Runs \cup {Null}
      /\ \A v \in Workers : Executing(v) => worker[v].job \in Jobs
  BY NullFacts DEF Reclaim, QueueInv, QueueTypeOK, JobRow, LocalsOK, Executing
<1>3. \A q \in pending' : \E i \in StaleJobs : q = jobs[i].runId /\ q \in Runs
  BY <1>1, <1>2
<1>4. RunsExist'
  BY <1>1, <1>2, <1>3 DEF RunsExist
<1>5. RunsUnshared'
  BY <1>1, <1>2, <1>3 DEF RunsUnshared
<1>6. FinishesOwnRun'
  BY <1>1, <1>2 DEF FinishesOwnRun, CanFinish, Executing, At, Held
<1>7. PendingIsDown'
  BY <1>1, <1>2, <1>3 DEF PendingIsDown, RunsUnshared
<1>8. SucceededIsSettled' /\ EndNotAnnounced'
  BY <1>1, <1>2 DEF SucceededIsSettled, EndNotAnnounced, At
<1>. QED  BY <1>4, <1>5, <1>6, <1>7, <1>8

LEMMA ReaperKeepsBook ==
    ASSUME TypeInv, BookInv, NEW r \in Runs, FailReclaimed(r)
    PROVE  BookInv'
<1>. USE DEF TypeInv, BookInv
<1>1. /\ r \in pending /\ pending' = pending \ {r} /\ UNCHANGED <<jobs, events, worker>>
      /\ runs'[r] = "failed" /\ runs[r] # "absent"
      /\ \A q \in Runs : q # r => runs'[q] = runs[q]
  BY DEF FailReclaimed, update_run_status, RestOK, RunsExist
<1>2. /\ pending \subseteq Runs
      /\ \A v \in Workers : Executing(v) => worker[v].job \in Jobs /\ worker[v].run \in Runs
  BY DEF RestOK, LocalsOK, Executing
<1>3. RunsExist' /\ RunsUnshared' /\ PendingIsDown' /\ EndNotAnnounced'
  BY <1>1, <1>2 DEF RunsExist, RunsUnshared, PendingIsDown, EndNotAnnounced
<1>4. FinishesOwnRun'
  BY <1>1, <1>2 DEF FinishesOwnRun, PendingIsDown, CanFinish, Executing, At
<1>5. SucceededIsSettled'
  BY <1>1 DEF SucceededIsSettled, PendingIsDown, At
<1>. QED  BY <1>3, <1>4, <1>5

LEMMA ArchiveKeepsBook ==
    ASSUME TypeInv, BookInv, NEW r \in Runs, ArchiveRun(r)
    PROVE  BookInv'
<1>. USE DEF TypeInv, BookInv
<1>1. /\ \A j \in Jobs : jobs[j].runId # r
      /\ \A w \in Workers : worker[w].run # r
      /\ r \notin pending /\ pending \subseteq Runs
      /\ UNCHANGED <<jobs, worker, pending>>
      /\ events'[r] = {}
      /\ \A q \in Runs : q # r => runs'[q] = runs[q] /\ events'[q] = events[q]
      /\ \A v \in Workers : Executing(v) => worker[v].job \in Jobs /\ worker[v].run \in Runs
  BY DEF ArchiveRun, RestOK, LocalsOK, Executing
<1>2. RunsExist' /\ RunsUnshared' /\ PendingIsDown' /\ EndNotAnnounced'
  BY <1>1 DEF RunsExist, RunsUnshared, PendingIsDown, EndNotAnnounced
<1>3. FinishesOwnRun'
  BY <1>1 DEF FinishesOwnRun, CanFinish, Executing, At
<1>4. SucceededIsSettled'
  BY <1>1 DEF SucceededIsSettled, At
<1>. QED  BY <1>2, <1>3, <1>4

LEMMA NextBookInv == TypeInv /\ BookInv /\ [Next]_vars => BookInv'
<1>. SUFFICES ASSUME TypeInv, BookInv, [Next]_vars PROVE BookInv'
  OBVIOUS
<1>0. QueueInv
  BY DEF TypeInv
<1>1. CASE UNCHANGED vars
  BY <1>1, TableStepKeepsBook DEF vars, RowKept
<1>2. ASSUME NEW p \in Pipelines, EnqueueScheduled(p) \/ TriggerRun(p)
      PROVE  BookInv'
  <2>1. \A i \in Jobs : \/ RowKept(i)
                        \/ jobs'[i].runId \in {jobs[i].runId, Null} /\ jobs'[i].status = "queued"
    BY <1>0, <1>2, EnqueueEffect DEF EnqueueScheduled, TriggerRun
  <2>. QED  BY <1>2, <2>1, TableStepKeepsBook DEF EnqueueScheduled, TriggerRun
<1>3. ASSUME NEW w \in Workers, RunOnce(w)
      PROVE  BookInv'
  BY <1>3, ClaimKeepsBook, CreateKeepsBook, TransitionKeepsBook, ReleaseKeepsBook,
     FinishKeepsBook, MoveIsOwnStep, OwnStepKeepsBook DEF RunOnce
<1>4. ASSUME NEW w \in Workers, DbError(w) \/ Crash(w)
      PROVE  BookInv'
  BY <1>4, MoveIsOwnStep, OwnStepKeepsBook
<1>5. ASSUME NEW w \in Workers, BeatCheck(w)
      PROVE  BookInv'
  BY <1>5, TableStepKeepsBook DEF BeatCheck, RowKept
<1>6. ASSUME NEW w \in Workers, NEW j \in Jobs, BeatWrite(w, j)
      PROVE  BookInv'
  <2>1. \A i \in Jobs : RowKept(i)
    BY <1>0, <1>6, HeartbeatEffect DEF BeatWrite, RowKept
  <2>. QED  BY <1>6, <2>1, TableStepKeepsBook DEF BeatWrite
<1>7. CASE Reclaim
  BY <1>7, ReclaimKeepsBook
<1>8. CASE ReaperError
  BY <1>8 DEF ReaperError, BookInv, RunsExist, RunsUnshared, FinishesOwnRun, PendingIsDown,
     SucceededIsSettled, EndNotAnnounced, CanFinish, Executing, At
<1>9. ASSUME NEW r \in Runs, FailReclaimed(r) \/ ArchiveRun(r)
      PROVE  BookInv'
  BY <1>9, ReaperKeepsBook, ArchiveKeepsBook
<1>10. ASSUME NEW j \in Jobs, HeartbeatExpires(j)
       PROVE  BookInv'
  <2>1. \A i \in Jobs : RowKept(i)
    BY <1>0, <1>10, HeartbeatEffect DEF HeartbeatExpires, RowKept
  <2>. QED  BY <1>10, <2>1, TableStepKeepsBook DEF HeartbeatExpires
<1>11. ASSUME NEW o \in orphans, OrphanEnds(o)
       PROVE  BookInv'
  BY <1>11, TableStepKeepsBook DEF OrphanEnds, RowKept
<1>. QED  BY <1>1, <1>2, <1>3, <1>4, <1>5, <1>6, <1>7, <1>8, <1>9, <1>10, <1>11 DEF Next

LEMMA BookInvariant == Spec => [](TypeInv /\ BookInv)
<1>1. Init => TypeInv /\ BookInv
  <2>. SUFFICES ASSUME Init PROVE BookInv
    BY InitTypeInv
  <2>1. /\ \A j \in Jobs : jobs[j].status = "absent" /\ jobs[j].runId = Null
        /\ \A w \in Workers : worker[w].pc = "idle" /\ worker[w].run = Null
        /\ \A r \in Runs : events[r] = {}
        /\ pending = {} /\ Null \notin Runs
    BY NullFacts DEF Init, QueueInit, NoJob, IdleWorker
  <2>. QED  BY <2>1 DEF BookInv, RunsExist, RunsUnshared, FinishesOwnRun, PendingIsDown,
               SucceededIsSettled, EndNotAnnounced, Executing
<1>2. TypeInv /\ BookInv /\ [Next]_vars => TypeInv' /\ BookInv'
  BY NextTypeInv, NextBookInv
<1>. QED  BY <1>1, <1>2, PTL DEF Spec
-----------------------------------------------------------------------------
(* Placement.                                                              *)

\* A statement makes a row held only by the claim of a worker it fits; the
\* label of a held row is written by none.
LEMMA QueueStepPlaces == QueueInv /\ LabelPlacement /\ [QueueNext]_jobs => LabelPlacement'
<1>. SUFFICES ASSUME QueueInv, LabelPlacement, [QueueNext]_jobs PROVE LabelPlacement'
  OBVIOUS
\* Any step after which the held rows are held by whom they were held.
<1>0. ASSUME \A i \in Jobs : \/ jobs'[i] = jobs[i] \/ jobs'[i].status \notin Held
                             \/ /\ jobs[i].status \in Held /\ SameWork(i)
                                /\ jobs'[i].claimedBy = jobs[i].claimedBy
      PROVE  LabelPlacement'
  BY <1>0 DEF LabelPlacement, SameWork
<1>1. CASE UNCHANGED jobs
  BY <1>0, <1>1
<1>2. ASSUME NEW p, NEW l, enqueue_scheduled(p, l) \/ enqueue_manual(p, l)
      PROVE  LabelPlacement'
  <2>1. \A i \in Jobs : jobs'[i] = jobs[i] \/ jobs'[i].status = "queued"
    BY <1>2, EnqueuePlaces
  <2>. QED  BY <1>0, <2>1 DEF Held
<1>3. ASSUME NEW w \in Workers, NEW j \in Jobs, claim_next(w, j)
      PROVE  LabelPlacement'
  <2>1. /\ jobs[j].label \in {Null, LabelOf[w]} /\ jobs'[j].claimedBy = w /\ SameWork(j)
        /\ \A i \in Jobs : i # j => jobs'[i] = jobs[i]
    BY <1>3, ClaimEffect DEF QueueInv
  <2>. QED  BY <2>1 DEF LabelPlacement, SameWork
<1>4. ASSUME NEW w \in Workers, NEW j \in Jobs, NEW r \in Runs, transition_to_running(w, j, r)
      PROVE  LabelPlacement'
  BY <1>0, <1>4, TransitionEffect DEF Held
<1>5. ASSUME NEW w \in Workers, NEW j \in Jobs, NEW s \in Finished, mark_finished(w, j, s)
      PROVE  LabelPlacement'
  BY <1>0, <1>5, FinishEffect DEF Held, Finished
<1>6. ASSUME NEW j \in Jobs, release_claim(j)
      PROVE  LabelPlacement'
  BY <1>0, <1>6, ReleaseEffect DEF Held
<1>7. ASSUME NEW j \in Jobs, HeartbeatWrite(j) \/ Expire(j)
      PROVE  LabelPlacement'
  BY <1>0, <1>7, HeartbeatEffect DEF RowKept
<1>8. CASE reclaim_stale
  BY <1>0, <1>8, ReclaimEffect DEF Held
<1>. QED  BY <1>1, <1>2, <1>3, <1>4, <1>5, <1>6, <1>7, <1>8 DEF QueueNext

\* A held job has an owner and a heartbeat the reaper can see and fits that
\* owner, and a succeeded one has a successful run, for any number of stalled
\* workers, crashes and raising statements.
THEOREM JobRowsTrue == Spec => []JobRowIsTrue
<1>1. Init => LabelPlacement
  BY DEF Init, QueueInit, NoJob, LabelPlacement, Held
<1>2. TypeInv /\ LabelPlacement /\ [Next]_vars => LabelPlacement'
  BY StepIsQueueStep, QueueStepPlaces DEF TypeInv
<1>3. TypeInv /\ BookInv /\ LabelPlacement => JobRowIsTrue
  <2>. SUFFICES ASSUME TypeInv, BookInv, LabelPlacement PROVE JobRowIsTrue
    OBVIOUS
  <2>1. HeldIsReapable
    BY DEF TypeInv, QueueInv
  <2>2. SucceededRunBehindJob
    BY NullFacts DEF BookInv, SucceededIsSettled, SucceededRunBehindJob
  <2>. QED  BY <2>1, <2>2 DEF JobRowIsTrue
<1>. QED  BY <1>1, <1>2, <1>3, BookInvariant, PTL DEF Spec
-----------------------------------------------------------------------------
(* The success event.  Without stalls the worker about to emit it has just *)
(* finished the job for its own run, and nothing reopens that job.         *)

EventInv ==
    NoStall =>
        /\ \A w \in Workers : At(w, "finish_emit") /\ worker[w].result = "succeeded" =>
              /\ worker[w].job \in Jobs
              /\ jobs[worker[w].job].status = "succeeded"
              /\ jobs[worker[w].job].runId = worker[w].run
        /\ \A r \in Runs : "succeeded" \in events[r] =>
              /\ "failed" \notin events[r]
              /\ \E j \in Jobs : jobs[j].runId = r /\ jobs[j].status = "succeeded"

\* Who adds what to the events of a run.
LEMMA EventsStep ==
    ASSUME TypeInv, BookInv, Next, NEW r \in Runs
    PROVE  \/ events'[r] \in {events[r], {}, events[r] \cup {"started"}}
           \/ /\ events[r] \subseteq {"started"}
              /\ events'[r] = events[r] \cup {"failed"}
           \/ /\ events[r] \subseteq {"started"}
              /\ events'[r] = events[r] \cup {"succeeded"}
              /\ \E w \in Workers : At(w, "finish_emit") /\ worker[w].result = "succeeded"
                                    /\ worker[w].run = r
<1>. USE DEF TypeInv
<1>0. events \in [Runs -> SUBSET {"started", "succeeded", "failed"}]
  BY DEF RestOK
<1>1. ASSUME NEW w \in Workers, NEW kind, emit(kind, worker[w].run)
      PROVE  \/ events'[r] = events[r]
             \/ /\ worker[w].run = r /\ events[r] \subseteq {"started"}
                /\ events'[r] = events[r] \cup {kind}
  BY <1>0, <1>1 DEF emit, BookInv, EndNotAnnounced
<1>2. ASSUME NEW w \in Workers, Announce(w)
      PROVE  events'[r] \in {events[r], events[r] \cup {"started"}}
  BY <1>1, <1>2 DEF Announce
<1>3. ASSUME NEW w \in Workers, FinishEmit(w)
      PROVE  \/ events'[r] = events[r]
             \/ events[r] \subseteq {"started"} /\ events'[r] = events[r] \cup {"failed"}
             \/ /\ events[r] \subseteq {"started"} /\ events'[r] = events[r] \cup {"succeeded"}
                /\ At(w, "finish_emit") /\ worker[w].result = "succeeded" /\ worker[w].run = r
  BY <1>1, <1>3 DEF FinishEmit
<1>4. ASSUME NEW w \in Workers, FailEmit(w)
      PROVE  \/ events'[r] = events[r]
             \/ events[r] \subseteq {"started"} /\ events'[r] = events[r] \cup {"failed"}
  BY <1>1, <1>4 DEF FailEmit
<1>5. ASSUME NEW q \in Runs, ArchiveRun(q)
      PROVE  events'[r] \in {events[r], {}}
  BY <1>0, <1>5 DEF ArchiveRun
<1>. QED
  BY <1>2, <1>3, <1>4, <1>5
  DEF Next, RunOnce, EnqueueScheduled, TriggerRun, Claim, CreateRun, Transition, ReleaseClaim,
      CancelRun, MarkRunning, Execute, FinishRun, FinishJob, FailRun, FailJob, DbError, Crash,
      BeatCheck, BeatWrite, HeartbeatExpires, Reclaim, ReaperError, FailReclaimed, OrphanEnds

\* The only way to finish_emit is a terminal write that landed.
LEMMA EmitAfterFinish ==
    ASSUME TypeInv, OwnInv, NoStall, Next, NEW w \in Workers,
           At(w, "finish_emit")', worker'[w].result = "succeeded"
    PROVE  \/ worker'[w] = worker[w]
           \/ /\ worker'[w].job \in Jobs
              /\ jobs'[worker'[w].job].status = "succeeded"
              /\ jobs'[worker'[w].job].runId = worker'[w].run
<1>. USE DEF TypeInv
<1>1. CASE worker'[w] # worker[w] /\ FinishJob(w)
  <2>. DEFINE j == worker[w].job
  <2>1. /\ worker'[w].job = j /\ worker'[w].run = worker[w].run
        /\ worker'[w].result = worker[w].result
    BY <1>1, GotoType DEF FinishJob, PC
  <2>2. j \in Jobs /\ Executing(w) /\ worker[w].result = "succeeded"
    BY <1>1, <2>1 DEF FinishJob, At, LocalsOK, Executing
  <2>3. /\ jobs[j].status = "running" /\ jobs[j].claimedBy = w /\ jobs[j].runId = worker[w].run
        /\ JobStatusByResult[worker[w].result] = "succeeded"
    BY <2>2 DEF OwnInv, HoldsJob, JobStatusByResult, Results
  <2>4. mark_finished(w, j, "succeeded")
    BY <1>1, <2>3 DEF FinishJob, FinishOrSkip, CanFinish, Held
  <2>. QED  BY <2>1, <2>2, <2>3, <2>4, FinishEffect
<1>2. ASSUME NEW v \in Workers, ~FinishJob(w), RunOnce(v) \/ DbError(v) \/ Crash(v)
      PROVE  worker'[w] = worker[w]
  <2>0. /\ worker \in [Workers -> WorkerState] /\ worker[v].pc \in PC
        /\ worker'[w].pc = "finish_emit"
    BY DEF RestOK, WorkerState, At
  <2>1. CASE v # w
    BY <1>2, <2>0, <2>1 DEF RunOnce, Claim, CreateRun, Transition, ReleaseClaim, CancelRun,
       MarkRunning, Announce, Execute, FinishRun, FinishJob, FinishEmit, FailRun, FailJob, FailEmit,
       DbError, Crash, Goto, PollAgain
  <2>2. CASE v = w
    <3>1. OnError[worker[w].pc] # "finish_emit"
      BY <2>0, <2>2 DEF OnError, PC
    <3>. QED
      BY <1>2, <2>0, <2>2, <3>1 DEF RunOnce, Claim, CreateRun, Transition, ReleaseClaim, CancelRun,
         MarkRunning, Announce, Execute, FinishRun, FinishEmit, FailRun, FailJob, FailEmit,
         DbError, Crash, Goto, PollAgain, IdleWorker, WorkerState
  <2>. QED  BY <2>1, <2>2
<1>. QED
  BY <1>1, <1>2 DEF Next, EnqueueScheduled, TriggerRun, BeatCheck, BeatWrite, HeartbeatExpires,
     Reclaim, ReaperError, FailReclaimed, ArchiveRun, OrphanEnds

LEMMA NextEventInv == TypeInv /\ OwnInv /\ BookInv /\ EventInv /\ [Next]_vars => EventInv'
<1>. SUFFICES ASSUME TypeInv, OwnInv, BookInv, EventInv, Next, NoStall'
              PROVE  EventInv'
  BY DEF EventInv, NoStall, vars, At
<1>0. NoStall
  <2>1. faults.stall \in Nat /\ (faults'.stall = faults.stall \/ faults'.stall = faults.stall + 1)
    BY DEF TypeInv, RestOK, Next, EnqueueScheduled, TriggerRun, RunOnce, Claim, CreateRun,
       Transition, ReleaseClaim, CancelRun, MarkRunning, Announce, Execute, FinishRun, FinishJob,
       FinishEmit, FailRun, FailJob, FailEmit, DbError, Crash, BeatCheck, BeatWrite,
       HeartbeatExpires, Reclaim, ReaperError, FailReclaimed, ArchiveRun, OrphanEnds
  <2>. QED  BY <2>1 DEF NoStall
<1>1. \A j \in Jobs : jobs[j].status = "succeeded"
          => jobs'[j].status = "succeeded" /\ jobs'[j].runId = jobs[j].runId
  BY FinishedRowKept DEF Finished
<1>2. ASSUME NEW w \in Workers, At(w, "finish_emit")', worker'[w].result = "succeeded"
      PROVE  /\ worker'[w].job \in Jobs
             /\ jobs'[worker'[w].job].status = "succeeded"
             /\ jobs'[worker'[w].job].runId = worker'[w].run
  <2>1. CASE worker'[w] = worker[w]
    BY <1>0, <1>1, <1>2, <2>1 DEF EventInv, At
  <2>. QED  BY <1>0, <1>2, <2>1, EmitAfterFinish
<1>3. ASSUME NEW r \in Runs, "succeeded" \in events'[r]
      PROVE  /\ "failed" \notin events'[r]
             /\ \E j \in Jobs : jobs'[j].runId = r /\ jobs'[j].status = "succeeded"
  <2>1. CASE "succeeded" \in events[r]
    <3>1. "failed" \notin events[r]
          /\ \E j \in Jobs : jobs[j].runId = r /\ jobs[j].status = "succeeded"
      BY <1>0, <2>1 DEF EventInv
    <3>2. "failed" \notin events'[r]
      BY <2>1, <3>1, EventsStep
    <3>. QED  BY <1>1, <3>1, <3>2
  <2>2. CASE "succeeded" \notin events[r]
    <3>1. PICK w \in Workers : /\ At(w, "finish_emit") /\ worker[w].result = "succeeded"
                               /\ worker[w].run = r
                               /\ events[r] \subseteq {"started"}
                               /\ events'[r] = events[r] \cup {"succeeded"}
      BY <1>3, <2>2, EventsStep
    <3>2. /\ worker[w].job \in Jobs /\ jobs[worker[w].job].status = "succeeded"
          /\ jobs[worker[w].job].runId = r
      BY <1>0, <3>1 DEF EventInv
    <3>. QED  BY <1>1, <3>1, <3>2
  <2>. QED  BY <2>1, <2>2
<1>. QED  BY <1>2, <1>3 DEF EventInv

\* Without stalls run.succeeded is emitted only for a run that is a success,
\* that a succeeded job is bound to and of which no run.failed was told, and
\* all of that stays so whatever the workers, the reaper and the archiver do
\* later.
THEOREM SuccessEvents == Spec => []SuccessEventIsTrue
<1>1. Init => EventInv
  BY DEF Init, EventInv, IdleWorker, At
<1>2. Spec => [](TypeInv /\ OwnInv /\ BookInv)
  BY OwnInvariant, BookInvariant, PTL
<1>3. Spec => []EventInv
  BY <1>1, <1>2, NextEventInv, PTL DEF Spec
<1>4. TypeInv /\ BookInv /\ EventInv => SuccessEventIsTrue
  BY DEF EventInv, BookInv, SucceededIsSettled, SuccessEventIsTrue
<1>. QED  BY <1>2, <1>3, <1>4, PTL
-----------------------------------------------------------------------------
(* The life of a job.  Where no worker is ever silent past the threshold,  *)
(* every step of the runtime is one move of JobLifecycle or none of its    *)
(* business.  The driver of a job is the worker at work on a row it owns,  *)
(* so the step needs more than the row: that a worker which releases or    *)
(* finishes still drives, and that the reaper takes only undriven jobs.    *)

Stage(j) == StageOf[jobs[j].status]

\* What changes of a job beneath a step that is none of its business.
SameLife(i) == Stage(i)' = Stage(i) /\ DriverOf(i)' = DriverOf(i)

LEMMA DriverFacts ==
    ASSUME TypeInv, NEW j \in Jobs
    PROVE  /\ DriverOf(j) \in Workers \cup {Null}
           /\ \A w \in Workers : DriverOf(j) = w <=> Attends(w, j)
<1>1. jobs[j].claimedBy \in Workers \cup {Null} /\ Null \notin Workers
  BY NullFacts DEF TypeInv, QueueInv, QueueTypeOK, JobRow
<1>. QED  BY <1>1 DEF DriverOf, Attends

\* A row that keeps its status and owner, whose owner goes on with the job it
\* is at work on.
LEMMA KeptLife ==
    ASSUME TypeInv, TypeInv', NEW i \in Jobs,
           jobs'[i].status = jobs[i].status, jobs'[i].claimedBy = jobs[i].claimedBy,
           \A w \in Workers : Attends(w, i) <=> Attends(w, i)'
    PROVE  SameLife(i)
BY NullFacts DEF SameLife, Stage, DriverOf, TypeInv, QueueInv, QueueTypeOK, JobRow

\* The steps that leave every job where it is.
LEMMA QuietStep ==
    ASSUME TypeInv, TypeInv',
           \A i \in Jobs : jobs'[i].status = jobs[i].status /\ jobs'[i].claimedBy = jobs[i].claimedBy,
           \A w \in Workers : \/ worker'[w] = worker[w]
                              \/ /\ worker'[w].job = worker[w].job
                                 /\ {worker[w].pc, worker'[w].pc} \cap {"idle", "dead"} = {}
    PROVE  \A i \in Jobs : SameLife(i)
<1>1. \A w \in Workers, i \in Jobs : Attends(w, i) <=> Attends(w, i)'
  BY DEF Attends
<1>. QED  BY <1>1, KeptLife

\* A move of job j by worker w, or of nobody, which disturbs no other job.
LEMMA OthersKeepLife ==
    ASSUME TypeInv, TypeInv', NEW j \in Jobs, NEW w \in Workers,
           \A i \in Jobs : i # j => jobs'[i] = jobs[i] /\ ~Attends(w, i) /\ ~Attends(w, i)',
           \A v \in Workers : v # w => worker'[v] = worker[v]
    PROVE  \A i \in Jobs : i # j => SameLife(i)
<1>1. \A i \in Jobs, v \in Workers : i # j => (Attends(v, i) <=> Attends(v, i)')
  BY DEF Attends
<1>. QED  BY <1>1, KeptLife

\* One job moves: what makes that a move of JobLifecycle.
OneMoves(j, s, d) == /\ Stage(j)' = s /\ DriverOf(j)' = d
                     /\ \A i \in Jobs : i # j => SameLife(i)

LEMMA MovesByOne ==
    ASSUME NEW j \in Jobs, NEW s, NEW d, OneMoves(j, s, d)
    PROVE  Lifecycle!Moves(j, s, d)
BY DEF OneMoves, SameLife, Stage, Lifecycle!Moves, Lifecycle!Kept

LEMMA StutterByAll ==
    ASSUME \A i \in Jobs : SameLife(i)
    PROVE  UNCHANGED <<[j \in Jobs |-> StageOf[jobs[j].status]], [j \in Jobs |-> DriverOf(j)]>>
BY DEF SameLife, Stage

\* The moves of a worker's own job.
LEMMA ClaimTakes ==
    ASSUME TypeInv, TypeInv', NEW w \in Workers, Claim(w)
    PROVE  \E j \in Jobs : Lifecycle!Take(w, j)
<1>1. PICK j \in Jobs : /\ claim_next(w, j)
                        /\ worker' = [worker EXCEPT ![w].pc = "create_run", ![w].job = j]
  BY DEF Claim
<1>2. /\ worker[w].pc = "idle" /\ worker'[w].pc = "create_run" /\ worker'[w].job = j
      /\ \A v \in Workers : v # w => worker'[v] = worker[v]
  BY <1>1 DEF Claim, At, TypeInv, RestOK, WorkerState
<1>3. /\ jobs[j].status = "queued" /\ jobs'[j].status = "claimed" /\ jobs'[j].claimedBy = w
      /\ \A i \in Jobs : i # j => jobs'[i] = jobs[i]
  BY <1>1, ClaimEffect DEF TypeInv
<1>4. /\ \A i \in Jobs : ~Attends(w, i)
      /\ \A i \in Jobs : i # j => ~Attends(w, i)'
      /\ Attends(w, j)'
  BY <1>2, <1>3 DEF Attends, Held
<1>5. DriverOf(j)' = w
  BY <1>3, <1>4, NullFacts DEF DriverOf
<1>6. OneMoves(j, "taken", w)
  BY <1>2, <1>3, <1>4, <1>5, OthersKeepLife DEF OneMoves, Stage, StageOf
<1>7. Stage(j) = "waiting" /\ \A i \in Jobs : DriverOf(i) # w
  BY <1>3, <1>4, DriverFacts DEF Stage, StageOf
<1>. QED  BY <1>6, <1>7, MovesByOne DEF Lifecycle!Take, Stage

\* A worker at work on its own job, seen before and after a step on that row.
LEMMA DriverMoves ==
    ASSUME TypeInv, TypeInv', NEW w \in Workers, NEW j \in Jobs, NEW s, NEW d, Attends(w, j),
           \A i \in Jobs : i # j => jobs'[i] = jobs[i],
           worker'[w].job = j \/ worker'[w].pc \in {"idle", "dead"},
           \A v \in Workers : v # w => worker'[v] = worker[v],
           Stage(j)' = s, DriverOf(j)' = d
    PROVE  OneMoves(j, s, d)
<1>1. \A i \in Jobs : i # j => ~Attends(w, i) /\ ~Attends(w, i)'
  BY DEF Attends
<1>. QED  BY <1>1, OthersKeepLife DEF OneMoves

LEMMA TransitionStarts ==
    ASSUME TypeInv, TypeInv', NEW w \in Workers, HoldsJob(w), Transition(w)
    PROVE  \/ \E j \in Jobs : Lifecycle!Start(w, j)
           \/ \A i \in Jobs : SameLife(i)
<1>0. PICK j \in Jobs : worker[w].job = j
  BY DEF Transition, At, TypeInv, LocalsOK
<1>1. /\ worker[w].pc = "transition" /\ Attends(w, j)
      /\ jobs[j].status = "claimed" /\ jobs[j].claimedBy = w
  BY <1>0 DEF Transition, At, HoldsJob, Claiming, Attends, Held
<1>2. PICK label \in {"mark_running", "release", "cancel_run"} : Goto(w, label)
  BY DEF Transition
<1>3. /\ worker'[w].pc \in {"mark_running", "release", "cancel_run"} /\ worker'[w].job = j
      /\ \A v \in Workers : v # w => worker'[v] = worker[v]
  BY <1>0, <1>2, GotoType DEF PC
<1>4. CASE transition_to_running(w, j, worker[w].run)
  <2>1. /\ jobs'[j].status = "running" /\ jobs'[j].claimedBy = w
        /\ \A i \in Jobs : i # j => jobs'[i] = jobs[i]
    BY <1>0, <1>1, <1>4, TransitionEffect DEF TypeInv
  <2>2. Stage(j)' = "running" /\ DriverOf(j)' = w
    BY <1>1, <1>3, <2>1, NullFacts DEF Stage, StageOf, DriverOf, Attends, Held
  <2>3. OneMoves(j, "running", w)
    BY <1>1, <1>3, <2>1, <2>2, DriverMoves
  <2>4. Stage(j) = "taken" /\ DriverOf(j) = w
    BY <1>1, DriverFacts DEF Stage, StageOf
  <2>5. Lifecycle!Start(w, j)
    BY <1>1, <2>3, <2>4, MovesByOne DEF Lifecycle!Start, Stage
  <2>. QED  BY <1>1, <2>5
<1>5. CASE UNCHANGED jobs
  BY <1>0, <1>1, <1>3, <1>5, QuietStep
<1>. QED  BY <1>0, <1>4, <1>5 DEF Transition

LEMMA ReleaseGivesBack ==
    ASSUME TypeInv, TypeInv', NEW w \in Workers, HoldsJob(w), ReleaseClaim(w)
    PROVE  \/ \E j \in Jobs : Lifecycle!GiveBack(w, j)
           \/ \A i \in Jobs : SameLife(i)
<1>0. PICK j \in Jobs : worker[w].job = j
  BY DEF ReleaseClaim, At, TypeInv, LocalsOK
<1>1. /\ worker[w].pc = "release" /\ Attends(w, j)
      /\ jobs[j].status = "claimed" /\ jobs[j].claimedBy = w
  BY <1>0 DEF ReleaseClaim, At, HoldsJob, Claiming, Attends, Held
<1>2. PICK label \in {"cancel_run", "fail_run"} : Goto(w, label)
  BY DEF ReleaseClaim
<1>3. /\ worker'[w].pc \in {"cancel_run", "fail_run"} /\ worker'[w].job = j
      /\ \A v \in Workers : v # w => worker'[v] = worker[v]
  BY <1>0, <1>2, GotoType DEF PC
<1>4. CASE release_claim(j)
  <2>1. /\ jobs'[j].status = "queued" /\ jobs'[j].claimedBy = Null
        /\ \A i \in Jobs : i # j => jobs'[i] = jobs[i]
    BY <1>1, <1>4, ReleaseEffect DEF TypeInv
  <2>2. Stage(j)' = "waiting" /\ DriverOf(j)' = Null
    BY <2>1 DEF Stage, StageOf, DriverOf
  <2>3. OneMoves(j, "waiting", Null)
    BY <1>1, <1>3, <2>1, <2>2, DriverMoves
  <2>4. Stage(j) = "taken" /\ DriverOf(j) = w
    BY <1>1, DriverFacts DEF Stage, StageOf
  <2>5. Lifecycle!GiveBack(w, j)
    BY <1>1, <2>3, <2>4, MovesByOne DEF Lifecycle!GiveBack, Stage
  <2>. QED  BY <1>1, <2>5
<1>5. CASE UNCHANGED jobs
  BY <1>0, <1>1, <1>3, <1>5, QuietStep
<1>. QED  BY <1>0, <1>4, <1>5 DEF ReleaseClaim

LEMMA FinishFinishes ==
    ASSUME TypeInv, TypeInv', NEW w \in Workers, FinishJob(w) \/ FailJob(w)
    PROVE  \/ \E j \in Jobs : Lifecycle!Finish(w, j)
           \/ \A i \in Jobs : SameLife(i)
<1>0. PICK j \in Jobs : worker[w].job = j
  BY DEF FinishJob, FailJob, At, TypeInv, LocalsOK
<1>1. worker[w].pc \in {"finish_job", "fail_job"}
  BY DEF FinishJob, FailJob, At
<1>2. /\ worker'[w].pc \in {"finish_emit", "fail_emit"} /\ worker'[w].job = j
      /\ \A v \in Workers : v # w => worker'[v] = worker[v]
  BY <1>0, GotoType DEF FinishJob, FailJob, PC
<1>3. PICK s \in Finished : FinishOrSkip(w, j, s)
  <2>1. CASE FinishJob(w)
    BY <1>0, <2>1 DEF FinishJob, TypeInv, LocalsOK, At, JobStatusByResult, Results, Finished
  <2>2. CASE FailJob(w)
    BY <1>0, <2>2 DEF FailJob, Finished
  <2>. QED  BY <2>1, <2>2
<1>4. CASE mark_finished(w, j, s)
  <2>1. /\ jobs[j].status \in Held /\ jobs[j].claimedBy = w /\ jobs'[j].status = s
        /\ \A i \in Jobs : i # j => jobs'[i] = jobs[i]
    BY <1>1, <1>4, FinishEffect DEF TypeInv
  <2>2. Attends(w, j)
    BY <1>0, <1>1, <2>1 DEF Attends
  <2>3. Stage(j)' = "done" /\ DriverOf(j)' = Null
    BY <2>1 DEF Stage, StageOf, DriverOf, Attends, Held, Finished
  <2>4. OneMoves(j, "done", Null)
    BY <1>1, <1>2, <2>1, <2>2, <2>3, DriverMoves
  <2>5. Stage(j) \in {"taken", "running"} /\ DriverOf(j) = w
    BY <1>1, <2>1, <2>2, DriverFacts DEF Stage, StageOf, Held
  <2>6. Lifecycle!Finish(w, j)
    BY <1>1, <2>4, <2>5, MovesByOne DEF Lifecycle!Finish, Stage
  <2>. QED  BY <1>1, <2>6
<1>5. CASE UNCHANGED jobs
  BY <1>0, <1>1, <1>2, <1>5, QuietStep
<1>. QED  BY <1>3, <1>4, <1>5 DEF FinishOrSkip

\* A worker that stops working on its job while the row stands.
LEMMA LeavingLoses ==
    ASSUME TypeInv, TypeInv', NEW w \in Workers, UNCHANGED jobs,
           worker'[w].pc \in {"idle", "dead"},
           \A v \in Workers : v # w => worker'[v] = worker[v]
    PROVE  \/ \E j \in Jobs : Lifecycle!Lose(w, j)
           \/ \A i \in Jobs : SameLife(i)
<1>1. \A i \in Jobs : ~Attends(w, i)'
  BY DEF Attends
<1>2. CASE \E i \in Jobs : Attends(w, i)
  <2>0. PICK j \in Jobs : Attends(w, j)
    BY <1>2
  <2>1. Attends(w, j) /\ DriverOf(j) = w
    BY <2>0, DriverFacts
  <2>2. jobs[j].claimedBy = w
    BY <2>1 DEF Attends
  <2>3. Stage(j)' = Stage(j) /\ DriverOf(j)' = Null
    BY <1>1, <2>1, <2>2 DEF Stage, DriverOf
  <2>4. OneMoves(j, Stage(j), Null)
    BY <2>1, <2>3, DriverMoves
  <2>5. Lifecycle!Lose(w, j)
    BY <2>1, <2>4, MovesByOne DEF Lifecycle!Lose, Stage
  <2>. QED  BY <2>1, <2>5
<1>3. CASE \A i \in Jobs : ~Attends(w, i)
  <2>1. \A v \in Workers, i \in Jobs : Attends(v, i) <=> Attends(v, i)'
    BY <1>1, <1>3 DEF Attends
  <2>. QED  BY <2>1, KeptLife
<1>. QED  BY <1>2, <1>3

\* One pass of the reaper takes back the stale jobs, and nobody drives those.
LEMMA ReclaimRedoes ==
    ASSUME TypeInv, TypeInv', \A v \in Workers : HoldsJob(v), Reclaim
    PROVE  \E S \in SUBSET Lifecycle!Undriven : Lifecycle!Redo(S)
<1>0. PICK S : S = StaleJobs
  OBVIOUS
<1>1. /\ \A i \in StaleJobs : /\ jobs[i].status \in Held /\ jobs[i].heartbeat = "stale"
                             /\ jobs'[i].claimedBy = Null /\ jobs'[i].status = "queued"
      /\ \A i \in Jobs \ StaleJobs : jobs'[i] = jobs[i]
      /\ UNCHANGED worker /\ StaleJobs \subseteq Jobs
  BY ReclaimEffect DEF Reclaim, TypeInv, StaleJobs
<1>2. \A i \in StaleJobs : Stage(i) \in {"taken", "running"} /\ DriverOf(i) = Null
  <2>1. \A i \in StaleJobs, v \in Workers : ~Attends(v, i)
    BY <1>1 DEF HoldsJob
  <2>. QED  BY <1>1, <2>1, DriverFacts DEF Stage, StageOf, Held
<1>3. \A i \in StaleJobs : Stage(i)' = "waiting" /\ DriverOf(i)' = Null
  BY <1>1 DEF Stage, StageOf, DriverOf
<1>4. \A i \in Jobs \ StaleJobs : SameLife(i)
  BY <1>1, KeptLife DEF Attends
<1>5. Lifecycle!Redo(S)
  BY <1>0, <1>1, <1>3, <1>4 DEF Lifecycle!Redo, Lifecycle!Kept, SameLife, Stage
<1>6. S \subseteq Lifecycle!Undriven
  BY <1>0, <1>1, <1>2 DEF Lifecycle!Undriven, Stage
<1>. QED  BY <1>5, <1>6

LEMMA EnqueueAdds ==
    ASSUME TypeInv, TypeInv', UNCHANGED worker, NEW p, NEW l,
           enqueue_scheduled(p, l) \/ enqueue_manual(p, l)
    PROVE  \/ \E j \in Jobs : Lifecycle!Add(j)
           \/ \A i \in Jobs : SameLife(i)
<1>1. PICK j \in Jobs : /\ jobs'[j].status = "queued" /\ jobs'[j].claimedBy = Null
                        /\ jobs[j].status \in {"absent", "queued"}
                        /\ \A i \in Jobs : i # j => jobs'[i] = jobs[i]
  BY EnqueuePlaces DEF TypeInv
<1>2. \A i \in Jobs : i # j => SameLife(i)
  BY <1>1, KeptLife DEF Attends
<1>3. Stage(j)' = "waiting" /\ DriverOf(j)' = Null
  BY <1>1 DEF Stage, StageOf, DriverOf
<1>4. CASE jobs[j].status = "absent"
  <2>1. Stage(j) = "none"
    BY <1>4 DEF Stage, StageOf
  <2>2. OneMoves(j, "waiting", Null)
    BY <1>2, <1>3 DEF OneMoves
  <2>3. Lifecycle!Add(j)
    BY <2>1, <2>2, MovesByOne DEF Lifecycle!Add, Stage
  <2>. QED  BY <2>3
<1>5. CASE jobs[j].status = "queued"
  <2>1. jobs[j].claimedBy = Null
    BY <1>5 DEF TypeInv, QueueInv, HeldIsReapable
  <2>2. SameLife(j)
    BY <1>1, <1>5, <2>1, <1>3 DEF SameLife, Stage, StageOf, DriverOf
  <2>. QED  BY <1>2, <2>2
<1>. QED  BY <1>1, <1>4, <1>5

\* A step of the runtime is a move of JobLifecycle or leaves every job be.
LEMMA StepIsMove ==
    ASSUME TypeInv, TypeInv', \A v \in Workers : HoldsJob(v), Next
    PROVE  Lifecycle!Next \/ \A i \in Jobs : SameLife(i)
<1>1. CASE UNCHANGED <<jobs, worker>>
  BY <1>1, QuietStep
<1>2. ASSUME NEW p \in Pipelines, EnqueueScheduled(p) \/ TriggerRun(p)
      PROVE  (\E j \in Jobs : Lifecycle!Add(j)) \/ \A i \in Jobs : SameLife(i)
  BY <1>2, EnqueueAdds DEF EnqueueScheduled, TriggerRun
<1>3. ASSUME NEW w \in Workers, Claim(w)
      PROVE  \E j \in Jobs : Lifecycle!Take(w, j)
  BY <1>3, ClaimTakes
<1>4. ASSUME NEW w \in Workers, Transition(w)
      PROVE  (\E j \in Jobs : Lifecycle!Start(w, j)) \/ \A i \in Jobs : SameLife(i)
  BY <1>4, TransitionStarts
<1>5. ASSUME NEW w \in Workers, ReleaseClaim(w)
      PROVE  (\E j \in Jobs : Lifecycle!GiveBack(w, j)) \/ \A i \in Jobs : SameLife(i)
  BY <1>5, ReleaseGivesBack
<1>6. ASSUME NEW w \in Workers, FinishJob(w) \/ FailJob(w)
      PROVE  (\E j \in Jobs : Lifecycle!Finish(w, j)) \/ \A i \in Jobs : SameLife(i)
  BY <1>6, FinishFinishes
<1>7. ASSUME NEW w \in Workers, CreateRun(w) \/ MarkRunning(w) \/ Announce(w) \/ Execute(w)
                                \/ FinishRun(w) \/ FailRun(w)
      PROVE  \A i \in Jobs : SameLife(i)
  <2>1. worker \in [Workers -> WorkerState]
    BY DEF TypeInv, RestOK
  <2>2. /\ worker'[w].job = worker[w].job /\ UNCHANGED jobs
        /\ {worker[w].pc, worker'[w].pc} \cap {"idle", "dead"} = {}
        /\ \A v \in Workers : v # w => worker'[v] = worker[v]
    BY <1>7, <2>1 DEF CreateRun, MarkRunning, Announce, Execute, FinishRun, FailRun, At, Goto,
       WorkerState
  <2>. QED  BY <2>2, QuietStep
<1>8. ASSUME NEW w \in Workers, CancelRun(w) \/ FinishEmit(w) \/ FailEmit(w) \/ Crash(w)
                                \/ (DbError(w) /\ PollAgain(w))
      PROVE  (\E j \in Jobs : Lifecycle!Lose(w, j)) \/ \A i \in Jobs : SameLife(i)
  <2>1. worker \in [Workers -> WorkerState]
    BY DEF TypeInv, RestOK
  <2>2. /\ worker'[w].pc \in {"idle", "dead"} /\ UNCHANGED jobs
        /\ \A v \in Workers : v # w => worker'[v] = worker[v]
    BY <1>8, <2>1 DEF CancelRun, FinishEmit, FailEmit, Crash, DbError, PollAgain, IdleWorker,
       WorkerState
  <2>. QED  BY <2>2, LeavingLoses
<1>9. ASSUME NEW w \in Workers, DbError(w), OnError[worker[w].pc] # "idle",
             Goto(w, OnError[worker[w].pc])
      PROVE  \A i \in Jobs : SameLife(i)
  <2>1. worker[w].pc \in PC
    BY DEF TypeInv, RestOK, WorkerState
  <2>2. OnError[worker[w].pc] \in PC \ {"idle", "dead"} /\ worker[w].pc \notin {"idle", "dead"}
    BY <1>9, <2>1 DEF OnError, PC, DbError
  <2>3. /\ worker'[w].job = worker[w].job /\ UNCHANGED jobs
        /\ worker'[w].pc = OnError[worker[w].pc]
        /\ \A v \in Workers : v # w => worker'[v] = worker[v]
    BY <1>9, <2>2, GotoType DEF DbError
  <2>. QED  BY <2>2, <2>3, QuietStep
<1>10. ASSUME NEW w \in Workers, NEW j \in Jobs, BeatWrite(w, j) \/ HeartbeatExpires(j)
       PROVE  \A i \in Jobs : SameLife(i)
  <2>1. (\A i \in Jobs : RowKept(i)) /\ UNCHANGED worker
    BY <1>10, HeartbeatEffect DEF BeatWrite, HeartbeatExpires, RowKept, TypeInv
  <2>. QED  BY <2>1, QuietStep DEF RowKept
<1>11. CASE Reclaim
  BY <1>11, ReclaimRedoes DEF Lifecycle!Next
<1>. QED
  <2>1. \/ UNCHANGED <<jobs, worker>>
        \/ \E p \in Pipelines : EnqueueScheduled(p) \/ TriggerRun(p)
        \/ \E w \in Workers : RunOnce(w) \/ DbError(w) \/ Crash(w)
        \/ \E w \in Workers, j \in Jobs : BeatWrite(w, j)
        \/ \E j \in Jobs : HeartbeatExpires(j)
        \/ Reclaim
    BY DEF Next, BeatCheck, ReaperError, FailReclaimed, ArchiveRun, OrphanEnds
  <2>2. \A w \in Workers : DbError(w) => \/ PollAgain(w)
                                        \/ /\ OnError[worker[w].pc] # "idle"
                                           /\ Goto(w, OnError[worker[w].pc])
    BY DEF DbError
  <2>3. ASSUME NEW w \in Workers, RunOnce(w)
        PROVE  Lifecycle!Next \/ \A i \in Jobs : SameLife(i)
    BY <1>3, <1>4, <1>5, <1>6, <1>7, <1>8, <2>3 DEF RunOnce, Lifecycle!Next
  <2>4. ASSUME NEW w \in Workers, DbError(w) \/ Crash(w)
        PROVE  Lifecycle!Next \/ \A i \in Jobs : SameLife(i)
    BY <1>8, <1>9, <2>2, <2>4 DEF Lifecycle!Next
  <2>5. ASSUME NEW p \in Pipelines, EnqueueScheduled(p) \/ TriggerRun(p)
        PROVE  Lifecycle!Next \/ \A i \in Jobs : SameLife(i)
    BY <1>2, <2>5 DEF Lifecycle!Next
  <2>6. ASSUME NEW j \in Jobs, HeartbeatExpires(j)
        PROVE  \A i \in Jobs : SameLife(i)
    <3>1. (\A i \in Jobs : RowKept(i)) /\ UNCHANGED worker
      BY <2>6, HeartbeatEffect DEF HeartbeatExpires, RowKept, TypeInv
    <3>. QED  BY <3>1, QuietStep DEF RowKept
  <2>. QED  BY <1>1, <1>10, <1>11, <2>1, <2>3, <2>4, <2>5, <2>6

\* Where no worker is ever silent past the threshold, the runtime implements
\* the life of a job: only its driver starts, gives back or finishes a job,
\* and only an undriven job is done again, for any number of workers, crashes,
\* raising statements and executions left behind.
THEOREM RuntimeFollowsLifecycle ==
    ASSUME MaxStalls = 0 PROVE Spec => FollowsLifecycle
<1>1. Init => Lifecycle!Init
  BY DEF Init, QueueInit, NoJob, Lifecycle!Init, StageOf, DriverOf
<1>2. Init => NoStall
  BY DEF Init, NoStall
<1>3. TypeInv /\ NoStall /\ [Next]_vars => NoStall'
  <2>. SUFFICES ASSUME TypeInv, NoStall, [Next]_vars PROVE faults'.stall = 0
    BY DEF NoStall
  <2>1. faults \in [crash : Nat, stall : Nat, db : Nat] /\ faults.stall = 0
    BY DEF TypeInv, RestOK, NoStall
  <2>2. \A j \in Jobs : HeartbeatExpires(j) => UNCHANGED faults
    BY <2>1 DEF HeartbeatExpires
  <2>. QED
    BY <2>1, <2>2
    DEF Next, vars, EnqueueScheduled, TriggerRun, RunOnce, Claim, CreateRun, Transition,
        ReleaseClaim, CancelRun, MarkRunning, Announce, Execute, FinishRun, FinishJob, FinishEmit,
        FailRun, FailJob, FailEmit, DbError, Crash, BeatCheck, BeatWrite, Reclaim, ReaperError,
        FailReclaimed, ArchiveRun, OrphanEnds
<1>4. TypeInv /\ TypeInv' /\ OwnInv /\ NoStall /\ [Next]_vars =>
          [Lifecycle!Next]_<<[j \in Jobs |-> StageOf[jobs[j].status]], [j \in Jobs |-> DriverOf(j)]>>
  <2>. SUFFICES ASSUME TypeInv, TypeInv', OwnInv, NoStall, [Next]_vars
                PROVE  \/ Lifecycle!Next
                       \/ UNCHANGED <<[j \in Jobs |-> StageOf[jobs[j].status]],
                                      [j \in Jobs |-> DriverOf(j)]>>
    OBVIOUS
  <2>1. \A v \in Workers : HoldsJob(v)
    BY DEF OwnInv
  <2>2. CASE Next
    BY <2>1, <2>2, StepIsMove, StutterByAll
  <2>3. CASE UNCHANGED vars
    <3>1. \A i \in Jobs : SameLife(i)
      BY <2>3, QuietStep DEF vars
    <3>. QED  BY <3>1, StutterByAll
  <2>. QED  BY <2>2, <2>3
<1>. QED  BY <1>1, <1>2, <1>3, <1>4, OwnInvariant, PTL DEF Spec, FollowsLifecycle, Lifecycle!Spec
=============================================================================
