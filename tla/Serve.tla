------------------------------- MODULE Serve --------------------------------
(***************************************************************************)
(* carve serve as one process (cli/commands/serve.py): its loops, the API  *)
(* server and the worker pool (runtime/worker_pool.py) run as asyncio      *)
(* tasks under one shutdown event, which the first signal sets; a second   *)
(* one sets force.  What a worker does for a job it does in a thread of    *)
(* the executor, and cancelling the worker's task leaves the thread alone. *)
(* carve worker (cli/commands/worker.py) is the pool by itself.            *)
(***************************************************************************)
EXTENDS Integers, FiniteSets

CONSTANTS
    PoolWorkers,  \* the tasks of the pool
    Loops,        \* scheduler, reaper, archiver, webhook publisher, key collection
    MaxJobs       \* bound on the jobs that are there to be claimed

VARIABLES
    signals,      \* SIGINT and SIGTERM received: 1 is shutdown, 2 is force
    pool,         \* where run_worker_pool is
    grace,        \* the grace period
    task,         \* where the worker_loop of each task is
    thread,       \* what runs for it in the executor
    backlog,      \* queued jobs
    interrupted,  \* workers cancelled with a job in flight
    lateClaims,   \* jobs claimed after the first signal
    loops,        \* loops still running
    api,          \* the API server
    streams,      \* whether a client follows an unfinished run
    process

serveVars == <<signals, pool, grace, task, thread, backlog, interrupted, lateClaims,
               loops, api, streams, process>>

ServeInit ==
    /\ signals = 0
    /\ pool = "serving"
    /\ grace = "none"
    /\ task = [w \in PoolWorkers |-> "register"]
    /\ thread = [w \in PoolWorkers |-> "none"]
    /\ backlog = MaxJobs
    /\ interrupted = {}
    /\ lateClaims = [w \in PoolWorkers |-> 0]
    /\ loops = Loops
    /\ api = "up"
    /\ streams = FALSE
    /\ process = "up"

Shutdown == signals >= 1
Forced == signals >= 2
Over(w) == task[w] \in {"done", "crashed"}

_on_signal ==
    /\ process = "up"
    /\ signals < 2
    /\ signals' = signals + 1
    /\ UNCHANGED <<pool, grace, task, thread, backlog, interrupted, lateClaims,
                   loops, api, streams, process>>

-----------------------------------------------------------------------------
(* worker_loop.                                                            *)

WorkerVars(w, pc, run) == /\ task' = [task EXCEPT ![w] = pc]
                          /\ thread' = [thread EXCEPT ![w] = run]

\* register_worker and unregister_worker are outside every handler: when one
\* raises, the task is lost and the others go on.
register_worker(w) ==
    /\ task[w] = "register"
    /\ \/ WorkerVars(w, "poll", "none") \/ WorkerVars(w, "crashed", "none")
    /\ UNCHANGED <<signals, pool, grace, backlog, interrupted, lateClaims,
                   loops, api, streams, process>>

unregister_worker(w) ==
    /\ task[w] = "unregister"
    /\ \/ WorkerVars(w, "done", thread[w]) \/ WorkerVars(w, "crashed", thread[w])
    /\ UNCHANGED <<signals, pool, grace, backlog, interrupted, lateClaims,
                   loops, api, streams, process>>

\* The event is looked at before every poll, and never during one.
\* Mutant: it is looked at when there was nothing to claim.
PollOrStop_when_idle(w) ==
    /\ task[w] = "poll"
    /\ IF Shutdown /\ backlog = 0 THEN WorkerVars(w, "unregister", "none")
       ELSE WorkerVars(w, "claiming", "claim")
    /\ UNCHANGED <<signals, pool, grace, backlog, interrupted, lateClaims,
                   loops, api, streams, process>>
PollOrStop(w) ==
    /\ task[w] = "poll"
    /\ IF Shutdown THEN WorkerVars(w, "unregister", "none")
       ELSE WorkerVars(w, "claiming", "claim")
    /\ UNCHANGED <<signals, pool, grace, backlog, interrupted, lateClaims,
                   loops, api, streams, process>>

\* claim_next commits in its thread, whether or not the task still waits for it.
Claimed(w) ==
    /\ thread[w] = "claim"
    /\ IF backlog = 0 THEN WorkerVars(w, IF task[w] = "claiming" THEN "poll" ELSE task[w], "none")
       ELSE IF task[w] = "claiming" THEN WorkerVars(w, "busy", "job")
       ELSE WorkerVars(w, task[w], "none")
    /\ backlog' = IF backlog = 0 THEN 0 ELSE backlog - 1
    /\ lateClaims' = IF Shutdown /\ backlog > 0 THEN [lateClaims EXCEPT ![w] = @ + 1] ELSE lateClaims
    /\ UNCHANGED <<signals, pool, grace, interrupted, loops, api, streams, process>>

\* The job ends; nobody finalises the one whose task was cancelled.
JobEnds(w) ==
    /\ thread[w] = "job"
    /\ WorkerVars(w, IF task[w] = "busy" THEN "poll" ELSE task[w], "none")
    /\ UNCHANGED <<signals, pool, grace, backlog, interrupted, lateClaims,
                   loops, api, streams, process>>

-----------------------------------------------------------------------------
(* run_worker_pool.                                                        *)

run_worker_pool ==
    /\ pool = "serving" /\ Shutdown
    /\ pool' = "drain"
    /\ grace' = "running"
    /\ UNCHANGED <<signals, task, thread, backlog, interrupted, lateClaims,
                   loops, api, streams, process>>

GraceExpires ==
    /\ grace = "running"
    /\ grace' = "expired"
    /\ UNCHANGED <<signals, pool, task, thread, backlog, interrupted, lateClaims,
                   loops, api, streams, process>>

\* Mutant: the grace period is not passed on.
Drained_no_timeout == (\A w \in PoolWorkers : Over(w)) \/ Forced
Drained == (\A w \in PoolWorkers : Over(w)) \/ Forced \/ grace = "expired"

\* The finally of run_worker_pool: the stragglers are cancelled where they
\* wait, and each goes to its own finally.
Escalate ==
    /\ pool' = "join"
    /\ task' = [w \in PoolWorkers |-> CASE Over(w) -> task[w]
                                        [] task[w] = "register" -> "done"
                                        [] OTHER -> "unregister"]
    /\ interrupted' = {w \in PoolWorkers : task[w] = "busy"}
    /\ UNCHANGED <<signals, grace, thread, backlog, lateClaims, loops, api, streams, process>>

_drain == pool = "drain" /\ Drained /\ Escalate

\* The TaskGroup cancels the pool, wherever it waits, when a sibling has raised.
PoolCancelled == pool \in {"serving", "drain"} /\ api = "raised" /\ Escalate

_log_worker_crashes ==
    /\ pool = "join"
    /\ \A w \in PoolWorkers : Over(w)
    /\ pool' = "done"
    /\ UNCHANGED <<signals, grace, task, thread, backlog, interrupted, lateClaims,
                   loops, api, streams, process>>

-----------------------------------------------------------------------------
(* The rest of the TaskGroup.                                              *)

LoopStops(l) ==
    /\ Shutdown \/ api = "raised"
    /\ l \in loops
    /\ loops' = loops \ {l}
    /\ UNCHANGED <<signals, pool, grace, task, thread, backlog, interrupted, lateClaims,
                   api, streams, process>>

StreamOpens ==
    /\ api = "up" /\ ~streams
    /\ streams' = TRUE
    /\ UNCHANGED <<signals, pool, grace, task, thread, backlog, interrupted, lateClaims,
                   loops, api, process>>

\* The client leaves, the run ends, or MAX_STREAM_SECONDS are over.
StreamCloses ==
    /\ streams
    /\ streams' = FALSE
    /\ UNCHANGED <<signals, pool, grace, task, thread, backlog, interrupted, lateClaims,
                   loops, api, process>>

\* should_exit: no new connections, and the server returns with the last one.
\* It may also end by itself, and the rest goes on without it; but what it
\* raises (a taken port, a failing listener) leaves _run_api, and the TaskGroup
\* cancels the rest.
_run_api ==
    /\ \/ api = "up" /\ Shutdown /\ api' = "draining"
       \/ api = "draining" /\ ~streams /\ api' = "down"
       \/ api = "up" /\ ~streams /\ api' = "down"
       \/ api \in {"up", "draining"} /\ api' = "raised"
    /\ UNCHANGED <<signals, pool, grace, task, thread, backlog, interrupted, lateClaims,
                   loops, streams, process>>

\* asyncio.run returns once the executor's threads have.
_serve ==
    /\ process = "up"
    /\ pool = "done" /\ loops = {} /\ api \in {"down", "raised"}
    /\ \A w \in PoolWorkers : thread[w] = "none"
    /\ process' = "exited"
    /\ UNCHANGED <<signals, pool, grace, task, thread, backlog, interrupted, lateClaims,
                   loops, api, streams>>

WorkerTask(w) == register_worker(w) \/ unregister_worker(w) \/ PollOrStop(w)
PoolTask == run_worker_pool \/ _drain \/ PoolCancelled \/ _log_worker_crashes
ServeNext ==
    \/ _on_signal \/ GraceExpires \/ StreamOpens \/ StreamCloses \/ _run_api \/ _serve
    \/ PoolTask
    \/ \E w \in PoolWorkers : WorkerTask(w) \/ Claimed(w) \/ JobEnds(w)
    \/ \E l \in Loops : LoopStops(l)

\* The event loop runs every task that is ready, a claim returns and the grace
\* period passes; nothing makes a job end.
ServeFairness ==
    /\ WF_serveVars(PoolTask)
    /\ WF_serveVars(GraceExpires)
    /\ \A w \in PoolWorkers : WF_serveVars(WorkerTask(w)) /\ WF_serveVars(Claimed(w))
ServeSpec == ServeInit /\ [][ServeNext]_serveVars /\ ServeFairness

-----------------------------------------------------------------------------
\* A job in flight is cut off only by a second signal, after the grace period or
\* with an API server that raised, and not because another worker crashed or
\* finished; and once shutdown is set a worker takes no job but the one it may be
\* claiming.
DrainRespected ==
    /\ interrupted # {} => (Forced \/ grace = "expired" \/ api = "raised")
    /\ \A w \in PoolWorkers : lateClaims[w] <= 1

\* A pool that is signalled, or whose TaskGroup is cancelled, ends, even if a
\* job never does.
PoolStops == (Shutdown \/ api = "raised") ~> pool = "done"

\* worker_pool.py on its lifecycle: stragglers are cancelled "on grace-expiry or
\* force".
GraceIsGranted == interrupted # {} => (Forced \/ grace = "expired")

\* "Seconds to let in-flight jobs finish on shutdown before workers are cancelled
\* (a second Ctrl-C / SIGTERM skips the wait)": a signalled process exits.
ServeExits == Shutdown ~> process = "exited"
=============================================================================
