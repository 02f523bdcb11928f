------------------------------ MODULE JobQueue ------------------------------
(***************************************************************************)
(* The jobs table (core/state/models.py) and the statements that           *)
(* core/state/job_queue.py issues on it.  An operator is one committed     *)
(* statement, a predicate on jobs and jobs'; a companion predicate says    *)
(* when PostgreSQL answers with an IntegrityError instead.                 *)
(*                                                                         *)
(* Time: heartbeat_at is compared with now - 60 s only, so a heartbeat is  *)
(* Null, "fresh" or "stale", and Expire is the passing of the threshold.   *)
(* Job ids are issued in increasing order, so they order created_at.       *)
(***************************************************************************)
EXTENDS Naturals

CONSTANTS
    Workers,    \* worker ids, one per worker start: an id is never reused
    Pipelines,  \* pipeline names of one tenant
    Labels,     \* worker-placement labels
    LabelOf,    \* the label a worker advertises, or Null
    MaxJobs,    \* bound on the number of rows ever inserted in jobs
    MaxRuns,    \* bound on the number of rows of runs
    Null        \* SQL NULL

ASSUME NullAssumption == Null \notin Workers \cup Pipelines \cup Labels \cup {"fresh", "stale"}
ASSUME BoundsAssumption == MaxJobs \in Nat /\ MaxRuns \in Nat /\ Null \notin Nat
ASSUME LabelOfAssumption == LabelOf \in [Workers -> Labels \cup {Null}]

VARIABLE jobs

Jobs == 1..MaxJobs
Runs == 1..MaxRuns

Held == {"claimed", "running"}
Finished == {"succeeded", "failed"}
JobStatus == {"absent", "queued"} \cup Held \cup Finished

\* A row of jobs; "absent" is an id not yet inserted.  trigger = "scheduled"
\* is scheduled_for IS NOT NULL, and such a row is always due.
JobRow == [status    : JobStatus,
           pipeline  : Pipelines \cup {Null},
           trigger   : {"scheduled", "api", Null},
           label     : Labels \cup {Null},
           claimedBy : Workers \cup {Null},
           heartbeat : {"fresh", "stale", Null},
           runId     : Runs \cup {Null}]

NoJob == [status |-> "absent", pipeline |-> Null, trigger |-> Null, label |-> Null,
          claimedBy |-> Null, heartbeat |-> Null, runId |-> Null]

\* The two partial unique indexes of jobs, as the row pairs they exclude.
SamePipeline(i, j) == i # j /\ jobs[i].pipeline = jobs[j].pipeline
OtherQueued(j) == \E i \in Jobs : SamePipeline(i, j) /\ jobs[i].status = "queued"
\* Mutant: the one-running index is missing from the migration.
OtherRunning_no_index(j) == FALSE
OtherRunning(j) == \E i \in Jobs : SamePipeline(i, j) /\ jobs[i].status = "running"
QueuedFor(p) == {j \in Jobs : jobs[j].status = "queued" /\ jobs[j].pipeline = p}

NextId(j) == jobs[j].status = "absent" /\ \A i \in Jobs : i < j => jobs[i].status # "absent"

Inserted(p, t, l) == [NoJob EXCEPT !.status = "queued", !.pipeline = p,
                                   !.trigger = t, !.label = l]

-----------------------------------------------------------------------------
(* The statements.                                                         *)

QueueInit == jobs = [j \in Jobs |-> NoJob]

\* INSERT ... ON CONFLICT DO NOTHING; no row inserted is QueuedJobAlreadyExists.
enqueue_scheduled(p, l) ==
    /\ QueuedFor(p) = {}
    /\ \E j \in Jobs : /\ NextId(j)
                       /\ jobs' = [jobs EXCEPT ![j] = Inserted(p, "scheduled", l)]

\* INSERT ... ON CONFLICT DO UPDATE: coalesces onto the queued row.
enqueue_manual(p, l) ==
    \/ /\ QueuedFor(p) = {}
       /\ \E j \in Jobs : /\ NextId(j)
                          /\ jobs' = [jobs EXCEPT ![j] = Inserted(p, "api", l)]
    \/ \E j \in QueuedFor(p) :
          jobs' = [jobs EXCEPT ![j].trigger = "api", ![j].label = l]

\* Mutant: without FOR UPDATE SKIP LOCKED two workers take the same row.
Claimable_unlocked(w) == {j \in Jobs : /\ jobs[j].status \in {"queued", "claimed"}
                                       /\ jobs[j].label \in {Null, LabelOf[w]}}
Claimable(w) == {j \in Jobs : /\ jobs[j].status = "queued"
                              /\ jobs[j].label \in {Null, LabelOf[w]}}

\* ORDER BY scheduled_for ASC NULLS LAST, created_at: the scheduled rows first
\* (in an order that depends on their ticks), then the others, oldest first.
ClaimOrder(j, S) == \/ jobs[j].trigger = "scheduled"
                    \/ \A i \in S : jobs[i].trigger # "scheduled" /\ j <= i

claim_next(w, j) ==
    /\ j \in Claimable(w)
    /\ ClaimOrder(j, Claimable(w))
    /\ jobs' = [jobs EXCEPT ![j].status = "claimed",
                            ![j].claimedBy = w,
                            ![j].heartbeat = "fresh"]

\* UPDATE ... WHERE id AND claimed_by AND status = 'claimed'
CanStart(w, j) == jobs[j].status = "claimed" /\ jobs[j].claimedBy = w
PipelineAlreadyRunning(w, j) == CanStart(w, j) /\ OtherRunning(j)

transition_to_running(w, j, r) ==
    /\ CanStart(w, j)
    /\ ~OtherRunning(j)
    /\ jobs' = [jobs EXCEPT ![j].status = "running", ![j].runId = r]

\* UPDATE ... WHERE id AND claimed_by AND status IN ('claimed', 'running')
\* Mutant: the terminal write drops the claimed_by condition.
CanFinish_any_owner(w, j) == jobs[j].status \in Held
CanFinish(w, j) == jobs[j].status \in Held /\ jobs[j].claimedBy = w

mark_finished(w, j, s) ==
    /\ CanFinish(w, j)
    /\ jobs' = [jobs EXCEPT ![j].status = s]

\* Not guarded by the owner: whatever the row's state, back to queued.
release_claim(j) ==
    /\ jobs[j].status # "absent"
    /\ ~OtherQueued(j)
    /\ jobs' = [jobs EXCEPT ![j].status = "queued", ![j].claimedBy = Null]

\* The owner check of update_heartbeat, and the write that follows it in the
\* same session but, under READ COMMITTED, not in the same atomic step.
HeartbeatCheck(w, j) == jobs[j].claimedBy = w
\* Mutant: the session writes back the whole row it read before the check.
HeartbeatWrite_whole_row(j) ==
    jobs' = [jobs EXCEPT ![j].heartbeat = "fresh", ![j].status = "running"]
HeartbeatWrite(j) == /\ jobs[j].status # "absent"
                     /\ jobs' = [jobs EXCEPT ![j].heartbeat = "fresh"]

\* Time: the heartbeat of a held job falls behind now - stale_threshold_s (of
\* other rows no statement reads it).
Expire(j) == /\ jobs[j].status \in Held
             /\ jobs[j].heartbeat = "fresh"
             /\ jobs' = [jobs EXCEPT ![j].heartbeat = "stale"]

\* Mutants: the cutoff comparison is dropped; only running rows are reclaimed.
StaleJobs_any_heartbeat == {j \in Jobs : jobs[j].status \in Held}
StaleJobs_running_only ==
    {j \in Jobs : jobs[j].status = "running" /\ jobs[j].heartbeat = "stale"}
StaleJobs == {j \in Jobs : jobs[j].status \in Held /\ jobs[j].heartbeat = "stale"}

\* One row of the batch collides with the one-queued index: the whole UPDATE
\* is rolled back.
ReclaimConflict == \E i \in StaleJobs, j \in Jobs :
                      /\ SamePipeline(i, j)
                      /\ j \in StaleJobs \/ jobs[j].status = "queued"

Reclaimed(row) == [row EXCEPT !.status = "queued", !.claimedBy = Null, !.heartbeat = Null]

reclaim_stale ==
    /\ StaleJobs # {}
    /\ ~ReclaimConflict
    /\ jobs' = [j \in Jobs |-> IF j \in StaleJobs THEN Reclaimed(jobs[j]) ELSE jobs[j]]

-----------------------------------------------------------------------------
(* The queue under any callers: any process may issue any statement.       *)

QueueNext ==
    \/ \E p \in Pipelines, l \in Labels \cup {Null} :
          enqueue_scheduled(p, l) \/ enqueue_manual(p, l)
    \/ \E w \in Workers, j \in Jobs :
          \/ claim_next(w, j)
          \/ \E r \in Runs : transition_to_running(w, j, r)
          \/ \E s \in Finished : mark_finished(w, j, s)
    \/ \E j \in Jobs : release_claim(j) \/ HeartbeatWrite(j) \/ Expire(j)
    \/ reclaim_stale

QueueSpec == QueueInit /\ [][QueueNext]_jobs

-----------------------------------------------------------------------------
(* What the table promises to every caller.                                *)

\* Every row is well typed.
QueueTypeOK == jobs \in [Jobs -> JobRow]

\* ix_jobs_one_queued_per_pipeline and ix_jobs_one_running_per_pipeline hold
\* although seven different statements move rows into and out of the two
\* statuses they range over.
OnePerPipeline ==
    \A i, j \in Jobs :
        SamePipeline(i, j) /\ jobs[i].status \in {"queued", "running"}
            => jobs[j].status # jobs[i].status

\* A held job has an owner and a heartbeat the reaper can see go stale
\* (heartbeat_at < cutoff is never true of NULL); a queued one has no owner
\* that a guarded write could still match.
HeldIsReapable ==
    \A j \in Jobs :
        /\ jobs[j].status \in Held => jobs[j].claimedBy # Null /\ jobs[j].heartbeat # Null
        /\ jobs[j].status = "queued" => jobs[j].claimedBy = Null
=============================================================================
