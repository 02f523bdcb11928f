# carve: a TLA+ verification project

carve turns a goal in plain English into a plan, builds the plan into pipeline files, and
runs the pipelines from a server, `carve serve`, that keeps its state in PostgreSQL. This
directory holds TLA+ models of the parts of carve whose correctness rests on what happens
between processes, tasks and transactions, the TLC instances that check them, and TLAPS
proofs of the results that matter most. `PROJECT.json` is the index: the definitions of each
module with the source lines they translate, the runs, the mutants that show each property
has teeth, the findings, the hazards and the theorems. Paths below are relative to
`src/src/carve/`.

To repeat everything: `tlc -config X.cfg M` for the module and cfg of each run, and
`tlapm M.tla` for the modules that end in `Proofs`.

## 1. Inventory

### The server: `carve serve`

| component | source | state it keeps | operations |
|---|---|---|---|
| job queue | `core/state/job_queue.py`, `models.py` (Job) | table `jobs`: status, pipeline, label, `claimed_by`, `heartbeat_at`, `run_id`, `scheduled_for`; two partial unique indexes | enqueue_scheduled, enqueue_manual, claim_next, transition_to_running, mark_finished, release_claim, update_heartbeat, reclaim_stale |
| runs | `core/state/repository.py` | table `runs` (status, completed_at), `logs`, `plans`, `pipelines` | create_run, update_run_status, append_log, upsert_pipeline... |
| worker | `runtime/worker.py`, `runtime/heartbeat.py` | the job and run of the iteration under way | worker_loop, run_once, _finalize, _fail_job; one heartbeat task per job |
| worker pool and serve | `runtime/worker_pool.py`, `cli/commands/serve.py` | a shutdown and a force event, N worker tasks, a TaskGroup | start, drain within a grace period, force, crash isolation |
| reaper | `runtime/reaper.py` | none | reap_stale_once: reclaim, then fail the runs of the reclaimed jobs |
| scheduler | `runtime/scheduler.py`, `runtime/cron.py`, `core/state/schedules.py` | tables `schedules`, `schedule_changes` | run_due_once; pause, resume, set_cron, seed, set_last_fired, list_due, list_changes |
| pipeline executor | `runtime/execute_pipeline.py`, `pipeline_dag.py`, `failure_modes.py`, `persisting_step_sink.py` | RunState, the `steps` namespace, table `step_runs` | execute_pipeline, the waves, retries, step_started, step_finished |
| step executors | `runtime/step_types/*`, `runtime/jinja_context.py` | none (the warehouse is outside) | run one dlt, dbt or sql step |
| archiver | `runtime/archiver.py` | the `*_archive` tables | archive_once, archive_table_safely |
| events | `runtime/events.py`, `core/state/events_read.py`, `api/streams.py` | table `events` | emit; backfill and tail a run's events over SSE |
| webhooks | `api/webhooks.py`, `core/state/webhooks.py` | tables `webhooks`, `webhook_deliveries`, a cursor | enqueue_for_new_events, attempt_delivery, retries |
| REST API | `api/*` | table `idempotency_keys`, `tokens` | routers, idempotent dispatch, authentication, pagination |

These parts share one event loop and one PostgreSQL. They never call each other: the
scheduler and `POST /runs` insert rows of `jobs`, workers claim them, heartbeats and the
reaper meet in `heartbeat_at`, the archiver removes what the others left behind, and
everything the server tells the outside (event streams, webhooks) is read from `events`.
What makes them hard is exactly this: every statement is a transaction of its own, so any
two of them may be separated by a statement of somebody else, by a raise or by `kill -9`,
and the only coordination is the conditions in the statements and two unique indexes.

### Authoring: plan, build, run, recover

| component | source | state | operations |
|---|---|---|---|
| planner, builder | `cli/orchestrator/planner.py`, `builder.py`, `goal_*.py`, `delegation_run.py` | `plans`, `builds`, `pipelines`, files of a pipeline | plan, build (agents or engineers write in place, reviewers gate, six transactions record) |
| runner | `cli/orchestrator/runner.py`, `core/runners/*` | virtual environments, runs | run a pipeline locally, retry, record |
| recovery | `core/agents/recovery/*`, `cli/orchestrator/recovery.py` | the attempts of one failure | classify, propose, apply, re-run, give up |
| agent loop | `core/agents/loop.py`, `delegation.py`, `steering.py`, `cancel.py`, `compaction.py`, `verification.py`, `review_fan_out.py` | a transcript, budgets, a tree of subagents | call the model, run tools, compact, steer, cancel, delegate, review |
| permissions and hooks | `core/agents/permissions/*`, `core/hooks/*` | the mode, rules | decide a tool call; run hooks around it |
| tools, skills, memory, MCP | `core/agents/tools/*`, `core/skills/*`, `core/memory/*`, `core/mcp/*`, `mcp/*` | files | read, edit, search, run; load packs |
| deploy | `cli/commands/el/deploy.py`, `core/deploy/*` | the DDL file, the destination, run rows | validate, pre-flight, confirm, apply, verify, recover |
| targets, connect, init | `core/targets/*`, `core/connect/*`, `init/*`, `core/config/*` | TOML and YAML files | resolve, validate, scaffold |
| integrations | `integrations/*`, `core/dbt_execution/*`, `core/sql/*`, `core/connectors/*` | caches of workspaces and manifests | locate components, run dbt and dlt, classify SQL |
| observability | `core/observability/*`, `core/state/telemetry.py`, `cli/commands/metrics` | `telemetry` rows | record, roll up |

### What each part must get right

* **Job queue and workers.** A pipeline runs once at a time; a job a live worker owns is not
  taken from it; a job whose worker died is run again; a finished job stays finished; what
  is reported of a run is what happened.
* **Scheduler.** Each cron window is answered once, by a job or by a skip, whatever pauses,
  edits, failures and downtime happen; the audit trail tells the story of the row.
* **Executor.** Each step has one fate, the status of a run follows from the fates, a step
  sees the results of what it depends on, the rows of `step_runs` agree, and nothing runs
  on after the run is over.
* **Archiver.** No row is lost or doubled; what is old enough leaves.
* **Events, webhooks, idempotency.** Every event reaches each reader, in order, and the
  stream ends; an event is delivered at least once; a repeated request has one effect.
* **Serve.** A signal stops every part within the grace period, and one part's crash
  does not stop the others.
* **Agents.** A turn budget bounds every loop, a denied tool call has no effect, a
  cancelled tree of subagents stops, a recovery ends.
* **Deploy and build.** A success is one that was verified, in the tables and in the warehouse;
  what a reviewer blocked or a user refused never happens; every early return settles its rows.
* **Files and engines.** Commands that write several files leave them in agreement, a cache
  never serves what was replaced, and only an engine that works is pinned.

The hazards of `PROJECT.json` list where each of these can go wrong, at the line.

## 2. Plan, and where it stands

The order was by how much of the system rests on a part: the queue and its workers, the
scheduler, the walk, the rest of the server, authoring, the agents, deploy, then the stores
and files around them. All of it is modelled now; section 6 says what is left out and why.

| part of the plan | modules | composed or run in |
|---|---|---|
| queue; workers, heartbeats, reaper, producers, with the abstract life of a job | `JobQueue`, `Runtime`, `JobLifecycle` | `MCRuntime` |
| schedules and the firing loop | `Scheduler` | `Scheduler` |
| pipeline files, graph algorithms, walk | `PipelineFile`, `PipelineDAG`, `PipelineRun` | `MCAlgorithms`, `PipelineRun` |
| events, streams, webhooks; the serving process | `EventLog`, `EventStream`, `Webhooks`, `Outbox`, `Serve` | `MCServing` |
| API writes and pages | `ApiWrites`, `Paging` | `MCStores`, `MCAlgorithms` |
| archive, components, targets, step executors, dbt engines | `Archiver`, `Components`, `Targets`, `StepTypes`, `Provision` | `MCStores` |
| plan and build, with the abstract ledger | `Authoring`, `BuildLedger` | `MCAgents` |
| agent loop, permissions, definitions and memory, verification, telemetry | `AgentLoop`, `Permissions`, `Library`, `Verification`, `Telemetry` | `MCAgents`, `MCAlgorithms` |
| local runs, recovery, deploy | `LocalVenv`, `ElRun`, `Deploy`, `ElCommands`, `Destinations` | `ElCommands`, `MCAlgorithms` |

Every invariant that a run checks is proved as well, those of the pure algorithms included. What
stays with TLC is liveness (the end of section 5 says which properties, and why).

## 3. Modules

### JobQueue; `RuntimeProofs`

`jobs` is a function from ids to rows; "absent" is an id not issued yet. Each operator is
one committed statement of `core/state/job_queue.py`, with its WHERE clause as guard; the
outcomes PostgreSQL reports as IntegrityError or as no row matched are predicates of their
own (`PipelineAlreadyRunning`, `OtherQueued`, `ReclaimConflict`, `~CanFinish`). A heartbeat
is only ever compared with `now - stale_threshold_s`, so it is fresh or stale and `Expire`
is the passing of the threshold. `QueueNext` lets any process issue any statement at any
time; it is the specification `QueueInvariant` is about, the table under arbitrary callers.

Properties: `HeldIsReapable` (a claimed or running row has an owner and a heartbeat the reaper
can see expire; a queued one has no owner). `OnePerPipeline`, that both indexes hold, is no
property of a run, since each statement is guarded by the index: it is a part of the
invariant the proofs need.

### Runtime, JobLifecycle, `MCRuntime`, `RuntimeProofs`

`worker[w]` is a program counter over `run_once` with its locals: one value per statement that
reaches the database. `OnError` says, for each, where an exception raised there goes (the handlers
of `run_once`, `_finalize`, `_fail_job`, `worker_loop`). `Crash` is `kill -9` or a cancelled task.
A worker that ends or dies while its pipeline executes may leave some of that execution behind
(`MayLeaveBehind`): the thread of a statement, a dbt subprocess, the siblings of a coroutine whose
sink raised. `orphans` holds these until they end by themselves; at most `MaxLeft` at a time.
`resolve_worker_label` answers the label or none, since any failure to load or resolve a pipeline
is swallowed. `beats` holds heartbeats between the ownership check and the write, which
`update_heartbeat` does not make atomic; a beat survives the end of its loop because it runs in a
thread. `pending` is the second half of a reaper pass. `HeartbeatExpires` takes a stall from a
budget when the owner is alive: with `MaxStalls = 0` the model assumes what the code assumes (a
live worker beats within 60 s), with `MaxStalls = 1` it shows what happens when that fails.
`ArchiveRun` is there only to let run ids be used again, so that liveness can be checked on a
bounded id set.

Safety: `ExecutorOwnsJob`, `MutualExclusion` (of two executions of a pipeline at a time, one was
left behind), `SuccessEventIsTrue`, `FinishedStays` (all under no stall), and with stalls too
`JobRowIsTrue` (`HeldIsReapable`, `SucceededRunBehindJob`, `LabelPlacement`: whoever holds a job
has the label of its row).

Refinement: `FollowsLifecycle`, under no stall. `JobLifecycle` is written apart from the queue and
knows no table, heartbeat or run: a job waits, one worker drives it, only its driver starts,
gives back or finishes it, a driver may be lost, and only what nobody drives and is not done
is done again. The mapping takes the status for the stage, and for the driver the row's owner
*while that worker's program counter is at the job* (`Attends`): what is written in `jobs` and
what a worker believes must agree at every statement for a step to be one of `JobLifecycle`.
A zombie breaks it, which is why it is not claimed with stalls (see `release_stomps`).
Liveness: `JobsFinish`.

### Scheduler, `SchedulerProofs`

Time is a bounded minute clock and a cron expression a period. A mutator is two steps
because it reads the clock before it locks the row; a pass of the loop is one step per
transaction, with what it read (`now`, the rows of list_due) kept in `pass`.
`set_last_fired` is a read and a write because it takes no lock. `Timely` states the
assumption "the loop keeps up with the clock" under which the once-per-window promise is
made, and is off in the runs that ask what downtime does.

Safety: `EveryWindowOnce` (`OncePerWindow` and `NoWindowMissed`, timely), `AuditReplays`,
`OneFireAfterPause` (untimely, with lost passes and overlapping mutators). Liveness: `CatchesUp`.

### PipelineFile, PipelineDAG, `MCAlgorithms`, PipelineRun; `PipelineProofs`, `AlgorithmsProofs`

`PipelineDAG` translates the depth-first cycle check, Kahn's algorithm with its sorted insertion,
`ready_steps` (by the places of the steps in the order) and `downstream_of`. `MCAlgorithms` checks
them on every graph of four steps against definitions that say what is wanted: some order exists;
the least order in declaration order; the least closed set. `PipelineRun` uses them:
`execute_pipeline` is `main`, each step's coroutine is `task[s]` with one value per await,
`gather` returns when all are done and raises as soon as one raised.

`PipelineFile` is `load_pipeline` with its own search for cycles: what it loads, the walk can run
(`DefinitionsSound`). A dbt step that omits its component stands for the one dbt project that is
detected, or for none, and is then refused. `visit` calls itself; here it is a function `V[n]` of
the calls made while at most `n` ids may still be open, so that a proof can follow it: `V[0]` is
never reached, since every call marks an id that was not seen, and `CallReturns` proves that.

Safety: `UpstreamVisible`, and `RecordIsTrue` (`OneFate`, `StatusMatchesOutcome`,
`RowsTellTheRun`).
Liveness: `RunEnds`.

### EventLog, EventStream, Webhooks, Outbox, `ServeProofs`

`EventLog` is one run's rows of `events`: an insert takes its id when it begins and is visible
when it commits, so the coroutines of a wave may commit against the order of their ids; a
failed emit leaves a hole. The one terminal event stands anywhere among the others: `_finalize`
emits it behind them, but `_fail_job` as soon as the walk raises, while siblings of the raising
coroutine run on and emit beside and after it. `EventStream` is `iter_run_events` of one client:
the backfill, which stops at the first terminal event, the tail, which sends its page whole,
and their page limits. `Webhooks` is the router, the fan-out and the attempts of one
publisher with one step per await: what a pass read (the events with their matching
subscribers, the due deliveries, the `retry_count` of the one in hand) is kept in `pub` and
used after other processes have moved. `next_retry_at` is only ever compared with the clock,
so a delivery is due or not. `Blocked` is the guard on addresses, which also refuses a name
that does not resolve. `Outbox` composes the three over one log.

Safety: `StreamComplete` (a stream that closed by itself has sent every event up to the terminal
one, but those that committed behind its cursor); `DeliveriesKept` (`FannedOut`, `FullSchedule`,
`OnePostAfterDisable`). Liveness: `StreamEnds` (unless the terminal event itself was overtaken),
`Settles`.

### Serve

The process of `carve serve`: the loops, the API server and the pool's tasks under one
shutdown event. `signals` counts SIGINT and SIGTERM; one is shutdown, two is force. `task[w]`
is the worker's coroutine and `thread[w]` what runs for it in the executor, which a cancelled
task leaves behind. A worker may crash at any of its steps; an open stream of an unfinished
run keeps the API server from stopping. The API server may also end on its own or raise, and
then the TaskGroup cancels the loops and the pool's tasks where they stand. `carve worker` is
the pool alone.

Safety: `DrainRespected` (a job in flight is cut off only by force, after the grace period or
because the API server raised, and nothing is claimed after shutdown but the job being claimed).
Liveness: `PoolStops`, after a signal and after such a raise.

### ApiWrites, Paging; `StoresProofs`, `AlgorithmsProofs`

`ApiWrites` is one `Idempotency-Key` under concurrent requests: authenticate, look up, run the
handler, store, answer, each a step; answers are lost and requests repeated; rows expire and
are collected; tokens are minted, rotated and revoked; the server dies, also between the
default token's commit and the file it is written to. `AnswersOnce`: a repeated request is
replayed and has no second effect, and only to whom it belongs (`RetryReplays`, `ReplayIsOwn`).
`Paging` is the cursor over rows that tie, come and go between pages (`Complete`, a part of
`AnswersExact`). `paginate` has the rows behind the cursor put in order and cut at the limit, as
the code cuts the ordered rows at the cursor; `id` decides between rows of the same time.

### Archiver; `StoresProofs`

One pass over the tables children first; a batch is a count, an insert and a delete at READ
COMMITTED, so that a late writer commits between them. `Referenced` are the foreign keys on
`runs`. `NoDataLoss`: a row is in its table or in its archive, never in both or neither, and
an archived run leaves no child behind.

### Components, Targets, Destinations; `StoresProofs`, `AlgorithmsProofs`

`Components`: where a name resolves, both graduations with their roll-back, the way back, and the
sync of a clone git command by git command, with people editing the clone. The back-fill goes file
by file: each step's file is filled, or cannot be read or parsed and is passed over without a word
(`passedOver`), or its write raises; the command may be interrupted between any two. `halfway`
keeps how a graduation of a component ended early, until it is graduated again.
`GraduationSettles`: between commands a component in a repository of its own has its clone, and
all dbt steps use the same code. An interrupted graduation harms its own component only, a
back-fill that raised only what that back-fill was to fill, and a step whose file was passed over
is left out while the component is graduated, and is in again when it is taken back: the
back-fills of earlier graduations, retries and reversals must leave all the others together.
`Targets`: init, create, rename and delete over three files, interrupted between any two writes;
where the configuration does not load, delete works on `dev` and on `carve/`. `TargetsAgree`:
every target has its block of `.env.example`, and a command that names no target finds one.
`Destinations` is pure: `destination.toml` as the build writes it and the script reads it, and the
columns that pre-flight and verification compare. Columns without a name are left out of a list
where they stand, and where two names differ only in case the later one counts, as in the code's
dict.

### StepTypes, Provision, Verification; `StoresProofs`, `AgentsProofs`

`StepTypes`: the steps of a wave with what they leave behind: load packages, `run_results.json`,
sessions, and a thread that outlives its statement's timeout. `ExecutorsHonest`: a success has
evidence of this attempt, and no session is leaked. `Provision` is `carve connect`: choose an
engine, install, validate, pin, with a failure or an interruption between any two.
`PinWasValidated`: only what answered `dbt --version` is pinned. `Verification` is the loop of
check and fix over dlt, dbt and pipeline checks. `PassedAsLeft`: what passed is the code as it
was left, within the iterations.

### Authoring, BuildLedger, Telemetry; `AgentsProofs`, `AlgorithmsProofs`

`Authoring`: several plan and build commands over one project, one step per transaction, per
agent and per reviewer; an agent answers anything, raises, or the command is killed. Files are
written in place long before a Build row exists. `BuildLedger` is the abstract specification of
the tables: Builds are only added, a pipeline's current Build is its own, a plan that is built
has a Build and stays built. `ImplementsLedger` is the refinement (`INSTANCE BuildLedger WITH`).
`BuildsSettle`: a successful run has its Build, a blocked review never ships, no run is left
running. `MetricsTrue` of `Telemetry`: although any write may fail, the rows of the engines are
what happened (`RowsTrue`), and so is what `carve metrics` adds up (`SumsTrue`).

### AgentLoop, Permissions, Library; `AgentsProofs`, `AlgorithmsProofs`

`AgentLoop`: a delegate's turns with retries, tool calls through gate and hooks, the
terminator, steering and cancellation from another thread. A message is its kind and length.
`ResultsPaired`: every request is one the API accepts, whatever was denied, unknown or raised.
`WritesAuthorised`: an agent and the hooks around its calls write within the authority of both
ends of the delegation. `Permissions` is pure; `AuthorityShrinks`, a part of
`AnswersExact`: narrowing the mode, the configuration or the grant never widens an answer.
`Library`: definitions, packs and memory read through caches keyed by modification time while
files are edited. `FreshLoads`: a pass never returns what was replaced before it looked, beyond
the resolution of the clock.

### LocalVenv, ElRun, Deploy, ElCommands; `ElProofs`

`LocalVenv` is a script in its own process group with the thread that copies its output and the
watchdog. A line that `append_log` fails on is lost (`unlogged`), and a run whose row cannot be
written is never finalised. `ElRun` is `carve el run`: run row, log tail, the recovery loop with
its budget, and the watch loop with its debounce timer. `watch.on` is whether the directory the
script runs from is observed: `el/<name>` is, if it exists when the command starts, and the
directory of the legacy layout never is. `Deploy` is `carve el deploy`: refusals, pre-flight,
consent, DDL statement by statement, verification, and recovery at three stages. `ElCommands` puts
both at one terminal. `RunsRecorded` (`RetryChain`; `OutputInLogs`: of a terminal run every line
is in the logs but those that `append_log` failed on), `NoEditMissed` (of an observed directory),
`SuccessIsVerified`, `SafeDdl` (`OnlySafeDdl`, `ConsentFirst`).

## 4. Runs, bounds and fairness

Modules that share no state are run as *scenes* of one model: the initial state picks a scene,
its actions are the only ones enabled, and the variables of the others stay as they began. A
property of a module is then checked in its scene and trivially true elsewhere.

Where the code tries conditions in order and more than one can hold, the model has IF and ELSE
in that order; a CASE has guards that exclude each other, since of two that are true TLA+ does
not say which wins.

* `runtime_crash`: two workers, two jobs, three runs, one death and one raising statement at
  every place: a job can be claimed, lost, reclaimed and run again by the other worker while
  the job that replaces it is queued. `FollowsLifecycle` needs that nothing stalls
  (`MaxStalls = 0`).
* `runtime_zombie`: a death and a stall, so that a worker returns to a job the reaper took from
  it, and one execution left behind, where two runs suffice for two executions to meet. One of
  the two workers advertises the label the pipeline requires, and the resolver may fail, so that
  rows carry the label or none and both workers claim. The promises of the table itself are
  checked here because a zombie issues every statement in an unexpected state. `JobRowIsTrue`
  conjoins `HeldIsReapable`, `SucceededRunBehindJob` and `LabelPlacement`.
* `runtime_live`: `JobsFinish` under `FairSpec`: the worker loops and the reaper loop poll
  until shutdown, a pipeline returns, a deserted heartbeat ages. Nothing is assumed of
  producers, faults or of heartbeats being on time. The premise `[]~ReclaimConflict` is
  needed: see `StaleIsReclaimed` below.
* `schedule_healthy`: two pipelines with periods 2 and 3 over seven minutes, so that windows
  of both coincide and alternate; the label resolver of one may raise; jobs may stay queued.
  `EveryWindowOnce` conjoins `OncePerWindow` and `NoWindowMissed`.
* `schedule_race`: two users, three mutators, one lost pass, two changes, three minutes.
  `CatchesUp` assumes weak fairness of the loop's steps (it polls until shutdown and
  swallows what a pass raises) and of the requests' steps.
* `algorithms`: 131 072 graphs of four steps (with and without an unknown id), files of three
  steps with repeated ids and every pair of type and component, every call of the gate, every
  table of four rows whose times tie with pages of up to two and a ceiling of three, designs
  and catalogs of two tables.
* `pipeline_walk`: every DAG of three steps, every assignment of four failure modes (`warn`
  and `continue` have the same effect here), two slots (so a wave can be cut), two attempts,
  one raising sink call, cancellation. `RunEnds` assumes weak fairness of the walk and of each
  coroutine: the event loop runs what is runnable, and an executor returns.
* `serving`: in scene "outbox" three events (so that one can overtake another at the seam of two
  pages), any one of them or none the terminal one, a backfill of one and a tail of two, one
  retry, batches of two, and one disturbance at any place; a stream or a subscriber, because they
  share only the log and neither reads what the other writes. `StreamEnds` and `Settles` assume
  weak fairness of the tail's and the publisher's steps (both poll until shutdown, and the
  publisher swallows what a pass raises) and that a retry becomes due. One publisher is assumed:
  two `carve serve` processes would post a delivery twice, which at-least-once delivery allows. In
  scene "serve" two workers, so that one can crash while the other has a job, two jobs, and an API
  server that stops, ends or raises. `PoolStops` assumes weak fairness of the pool's and the
  workers' tasks, of the timer of the grace period and of a claim statement; not of jobs, which
  may never end, nor of streams or signals.
* `stores`: six scenes. Two requests at a time while there is one token, one while there are two
  (`ApiBound`), one death or loss; two runs over four ticks of the clock with one late write, so
  that a run is old enough while a child is not; two components and two dbt steps, each in a file
  of its own that a back-fill may pass over, with one edit; two targets and up to three blocks of
  each; two steps of any types that share a directory, two attempts (symmetric, since they differ
  in their types alone); one dialect beside those fusion supports.
* `agents`: five scenes. Two build commands and one planner, two plans of one pipeline, two
  runs, one raise or death at any place; two turns of up to two calls with hooks before and
  after; two roots of definitions, two edits within two ticks (so that they can share a
  modification time), two writers of decisions; four iterations; two engines with two tool
  calls each, every write failing or not.
* `el_commands`: one run and its retry, one edit, one attempt of recovery, with `--auto-fix` and
  `--watch` or without either, over a directory that is observed or not, and then, or instead,
  one deploy of two statements whose recovery agent takes two steps. `MaxLive = 0` has no run
  left over as "running" when the next one starts.

Deadlock checking is off where the system may stop: all ids of a bounded table used up, the
clock at its bound, a run, a command or a process that is over. `algorithms`, whose states
stand still, checks it.

Every property of a passing run has a mutant: a definition changed the way a plausible bug
would change it, under which TLC finds the property violated.

### Findings

`release_stomps` is kept as a run: `release_claim` has no owner condition, so a stalled
worker's back-off returns a job another worker runs, or has finished, to the queue.

The others are stated in the modules as the sentence of the document they contradict, and
violated when TLC checks them in place of the properties of the cfg that runs the module
(`Runtime_live.cfg` for `StaleIsReclaimed`, `Runtime_zombie.cfg` for `NothingOverlaps` and
`PipelinePlacement`, `Scheduler_race.cfg` for `OncePerWindow`;
`VerifiedIsWritten` is an operator, false of a design in the source's default database and another target's defaults):

| property | module | what happens |
|---|---|---|
| `StaleIsReclaimed` | `Runtime` | one colliding row rolls back the reaper's batch on every pass, for all pipelines |
| `NothingOverlaps` | `Runtime` | what a raising sink or a cancelled task left behind executes beside the next job of its pipeline |
| `PipelinePlacement` | `Runtime` | a label that cannot be resolved counts as no label, and any worker runs the pipeline |
| `OncePerWindow` | `Scheduler` | missed windows are fired one per pass, all with the same `scheduled_for` |
| `NothingRunsOn` | `PipelineRun` | a raising sink call ends the walk while siblings run on |
| `EveryStreamEnds` | `EventStream` | a terminal event that commits behind the cursor of the tail is never sent, and the stream stays open |
| `NoDuplicateEffect` | `ApiWrites` | two requests under one key both look it up before either stores |
| `TokenFileUsable` | `ApiWrites` | a death between the default token's commit and its file leaves a token nobody knows |
| `RunsMove` | `Archiver` | a run that `pipelines.last_run_id` names keeps its whole batch from moving, on every pass |
| `ServeExits` | `Serve` | a job that never ends, or an open stream, keeps the signalled process alive |
| `GraceIsGranted` | `Serve` | an API server that raises cancels busy workers without a signal and without the grace period |
| `FailClosed` | `Authoring` | a database error after `create_build` fails a run whose Build is there |
| `FilesReported` | `AgentLoop` | a failing post_tool hook hides a file that was written |
| `DecisionsKept` | `Library` | of two overlapping appends to decisions.md one is lost |
| `OwnPackage` | `StepTypes` | a dlt step that loaded nothing succeeds on its neighbour's package |
| `ObservedLoad` | `Verification` | a second iteration that loads nothing passes on the package of the first |
| `FailureRollsBack`, `WorkKept` | `Components` | a dirty workspace leaves the block behind; `reset --hard` drops unpushed commits and later edits |
| `GraduationBackfills` | `Components` | a pipeline file that cannot be read or parsed is skipped, and its dbt steps stay on the repository's code |
| `DefaultProtected` | `Targets` | with a configuration that does not load, "dev" is taken for the default |
| `NoopIsUsable` | `Provision` | an engine without the dialect's adapter is reported as provisioned already |
| `EveryStatementRan` | `Deploy` | recovery's edits before the failing index are never applied; `retry_from_start` is never read |
| `TailComplete`, `SameErrorSameFailure` | `ElRun` | the last lines of a log may not be printed; a second defect with the first one's exit code counts as the same failure |
| `EveryEditRuns` | `ElRun` | a directory that is not there at the start, or of the legacy layout, is never observed |
| `VerifiedIsWritten` | `Destinations` | deploy verifies the table of the design, the script loads to that of the destination's defaults |

Smaller disagreements the models also exhibit:

* Runtime: `update_run_status` overwrites a terminal status, so a zombie can turn the run the
  reaper failed into a success; a back-off (`worker.py:182`) that meets a newer queued job
  raises and fails the job that never ran; a job reclaimed twice makes the reaper fail its
  previous run again and leave the new one queued; the heartbeat's check and write are not one
  statement, as `runtime.md` says they are.
* Scheduler: `resume` fires every window of the pause; `set_last_fired` overwrites a concurrent
  `set_cron`'s firing time, or consumes the window it chose; `changed_at` is read before the row
  lock, so `list_changes` may list the older of two overlapping changes first. Two serve
  processes would each advance a due row and lose a window; one scheduler is assumed.
* Walk: a step whose variables do not render fails without a `step_runs` row.
* Streams and webhooks: the tail by `id > last_id` misses an event that commits after a later id
  was sent, which is why `StreamComplete` excepts those; a delivery is abandoned after a seventh
  attempt where `models.py:794` says six; a webhook that ever had a delivery cannot be deleted;
  a name that fails to resolve for a moment abandons the delivery; an attempt that raises
  something other than `httpx.HTTPError` ends the pass, and is first in the next one.
* API: PATCH is not among the write methods of the idempotency middleware; an exception that a
  handler raises is answered outside the middleware and never cached.
* Builds: a no-op rebuild may vouch for files that a later failed build has overwritten
  (`NoopIsRedundant` fails with `MaxRuns = 3`); a fresh plan takes over an existing pipeline's name.
* Agents: the terminator ends the loop although its call failed; the steering queue, the
  cancellation token and compaction are constructed nowhere, so `GuidanceKept` and
  `CancelStopsSoon` are stated in `AgentLoop` and checked by no run; nothing loads the project's
  `[permissions]` table that `PermissionsConfig` documents; a delegation that raises is recorded
  with cost 0.
* Runs and deploys: Ctrl-C leaves the child process and a running row; a virtual environment
  left half made is used again (`local_venv.py:275`); a recovery child's row stays running if the
  agent raises (`ChildrenSettled` fails); a design without columns makes every column of an
  existing table drift; pre-flight is not run again after a recovery.
* Targets: `create` and `rename` use the directory `carve/` whatever `paths.config_dir` says
  (`CreatedIsKnown` fails); a rename onto a name that already has a block doubles it
  (`NoDoubleBlock` fails); `rename_target_section` rewrites the placeholders its docstring says
  it keeps.

## 5. Proofs

`tlapm` checks every proof to the last leaf. A theorem holds for every value of its module's
constants: any number of workers, pipelines, jobs, schedules, subscribers, commands, crashes
and raising statements. What it assumes of them is written in the modules, by name, and TLC
evaluates it in the runs of those modules:

* bounds are natural numbers (`BoundsAssumption`, `FaultBounds`, `BoundAssumption`,
  `MaxEventsAssumption`, `LimitsAssumption`, `BatchAssumption`, `HookBounds`,
  `SlotsAssumption`, `DeployAssumption`, `LocalVenvAssumption`, `ElRunAssumption`,
  `TelemetryAssumption`, `VerifyAssumption`, `NAssumption`), positive where the code clamps or
  validates them to be;
* markers are none of the values (`NullAssumption`, `StepNamesAssumption`), maps are maps
  (`LabelOfAssumption`, `LabelForAssumption`, `WindowAssumption`, `HooksAssumption`), and choices
  are among the code's (`CronsAssumption`, `OpsAssumption`, `ModesAssumption`);
* what the archiver counts is finite (`ArchiverAssumption`), and so are the commands of
  `Authoring`, whose sub-goals are not empty (`AuthoringAssumption`).

Some theorems have a hypothesis besides. `RuntimeFollowsLifecycle` is about `MaxStalls = 0`;
`PauseHolds` is about one scheduler, which is what `carve serve` starts; `WindowsOnce` is about a
schedule that is `Healthy` (one scheduler whose passes keep up and are not cut short, one user,
one change), the case the documentation's "exactly once per window" means; of another
`OncePerWindow` fails, as the findings say. Theorems about a pure algorithm say in their ASSUME
what its input is. The theorems are about the specification of one component; the scenes
(`stores`, `agents`, `el_commands`) run several of these side by side, with no variable in common.

The argument is always that of an inductive invariant: a strengthening that holds initially,
that each action preserves (one step of the proof per action), and that implies the property.
What had to be added to the property, and why, is the content of each proof:

### The server

* **`QueueInvariant`** (`RuntimeProofs`): `QueueSpec => [](QueueTypeOK /\ OnePerPipeline /\
  HeldIsReapable)`. The conjunction is inductive as it stands: `OnePerPipeline` alone is not
  provable without the types, and each statement is one case. The argument per statement is
  that it changes one row (two for none), and enters "queued" or "running" only under the
  negation of the collision predicate. `reclaim_stale` changes many rows at once and needs
  `ReclaimConflict` to exclude two stale rows of one pipeline.
* **`TypeCorrect`** (`RuntimeProofs`): `Spec => []TypeOK`. That a terminal write names a run
  needs the locals of a worker to agree with its program counter: `QueueInv /\ RestOK /\ LocalsOK`.
* **`RuntimeFollowsLifecycle`**: with no stalls, `Spec => FollowsLifecycle`, that is
  `JobLifecycle!Spec` under the mapping. Each action of the runtime is matched with a step of a job's
  life or with none: a heartbeat, an event, a run's status move nothing (`QuietStep`); a claim is
  `Take`, and the claimer drives nothing else because its program counter was at "idle"; a
  back-off or a finish is the driver's because `OwnInv` has the row of every worker's job still
  be its own; a death or a raise on the way is `Lose`; a pass of the reaper is `Redo` of jobs
  whose heartbeat is stale, hence of jobs that no living worker is at.
* **`ExecutorOwns`**, **`OneExecution`**, **`FinishedJobsStay`**: with no stall, an executing
  worker owns the running job bound to its run; hence, with `OnePerPipeline`, no two workers
  drive a pipeline at once, and what executes beside a driven execution was left behind by its
  worker; hence a finished job is never touched. `ExecutorOwnsJob` is not
  inductive: a worker that is still between its claim and its transition must hold its job
  too, and no two workers may hold one job, or the back-off of one could release the job of
  another. `OwnInv` adds this (`HoldsJob`).
* **`JobRowsTrue`**: a held job is reapable, a succeeded job has a succeeded run, and a job
  is held by a worker with the label of its row, stalls, crashes, coalesced triggers and failing
  resolvers included. `BookInv` is what a late writer of a
  succeeded run is excluded with: a run is created for one worker and bound to one job, a
  worker that can still finish its job finishes it for its own run, and the reaper's pass has
  no run in hand that a running or succeeded job is bound to. The label of a
  row changes only while it waits, and a claim compares it (`QueueStepPlaces`).
* **`SuccessEvents`**: with no stall, a run that announced success has a succeeded job and
  announced no failure. `EventInv` says so of the worker between its commit and its emit too.
* **`ScheduleTypes`**, **`AuditTrail`** (`SchedulerProofs`): for any number of users and
  schedulers. `AuditReplays` is not inductive: the unlocked write of `set_last_fired` must only
  meet a row that exists. `PassOK` says so of every row between `list_due` and the write, and
  `OpOK` that a request that sets a cron has one; a commit then extends the chain by one link
  whose `before` is the live row.
* **`PauseHolds`**: a schedule paused during a pass fires at most once more. `PauseInv`: the pass
  lists a pipeline once, and a listed one that is paused was not fired since.
* **`WindowsOnce`**: of a healthy schedule. `next_fire` is always on a tick and not behind the
  clock (`RowsOnTick`), what the pass holds is the row as it is, at the clock's time
  (`PassInStep`), and what was fired lies behind `next_fire` unless the pass has the row in hand
  (`FiredBehind`).
* **`ValidatedOrder`** (`PipelineProofs`): for any number of steps and any dependencies, if the
  cycle check accepts, the computed order has every step once, behind all it depends on
  (`Contract`). Kahn's loop keeps `KahnOK`, so the steps it leaves out each depend on another
  left out; the depth-first search rejects every such set (`SearchOK`). Both loops are
  recursive functions over a state, whose value at each index (`Recursion`) and invariants are
  proved from the least index at which they would fail (`WFMin` over the naturals).
* **`UpstreamIsVisible`**, **`WalkRecords`**: of the executor's walk over such an order.
  `WalkInv` relates the sets of the walk to the coroutines (`FatesOK`: what ran depends only on
  what has its outcome, and a skipped step takes its dependents along), the reason it returned
  to the failures (`OutcomeOK`), and the rows of a step to its attempts (`RowsOK`: all failed but
  possibly the last).
* **`StreamsAreComplete`** (`ServeProofs`): nothing is asked of where the terminal event stands
  (`LogOK` is the type of the log). What is committed up to the cursor was sent or came too late,
  and a closed stream has sent a terminal event (`CursorOK`); so its cursor is not below that
  event, and all that is committed before it is accounted for (`CursorSuffices`). A page is a
  prefix of what is committed behind the cursor (`IsPrefix`, `PageIsPrefix`), and to send a prefix
  keeps `CursorOK` (`SendKeeps`); `PageIsFirst` and `MaxIdIsMax` are the lemmas about a page.
* **`DeliveriesAreKept`**: of the publisher, for any subscribers and events. A pending delivery
  was posted once for each retry it counts, and once more while its answer is not recorded
  (`DeliveryOK`); a fan-out read every steady subscriber (`FanOutOK`); what the pass holds is
  pending and what it gives up belongs to a subscriber that was changed (`PassOK`).
* **`DrainIsRespected`**: `LateInv` says that a claim in flight at shutdown is the worker's first
  late one, `CutInv` that nothing is cut off while the pool serves, and that what was cut off was
  so by force, after the grace period or after the API server raised.

### The stores (`StoresProofs`)

* **`NothingLost`**: the archiver deletes only what it inserted. `BatchShrinks`: between the
  statements of a batch the rows its predicate matches can only become fewer, so equal counts
  are equal sets (a lemma about cardinalities); `RunRowsOK`: rows of a run are live or archived,
  never both.
* **`RepetitionsAnswered`**: `SettledIsCached`: what is settled has a fresh row, and so has every
  repetition of it that is still under way.
* **`GraduationAgrees`**: `BlockIsFirst` (the command under way wrote its block before anything
  else, and has its clone past the sync), `OthersSettled` (each other component has its clone
  unless its graduation was interrupted, `ClonesThere`; and each dbt step is filled, was passed
  over or is still ahead of the back-fill, unless that ended early, `StepsFilled`).
* **`FilesAgree`**: a rename moves the section, then the block, then the default; `RenameInStep`,
  `BlocksFollow` and `DefaultFollows` say how far it is at each point.
* **`ExecutorsAreHonest`**: a verdict rests on evidence (`VerdictsOK`), an attempt has one thread,
  which closes its session last (`ThreadsOK`), and packages are numbered in order
  (`PackagesOK`), so the newest is that of this attempt.
* **`BrokenIsNeverPinned`**: `ProvisionSpec => []PinWasValidated`, for any set of dialects. It
  needs `CommandInv`: a command is under way only for a backend that carve provisions, and at
  the pin its engine has answered.

### Authoring and agents (`AgentsProofs`)

* **`BuildsAlwaysSettle`**, **`AuthoringImplementsLedger`**: for any number of planners and
  builders. The invariant follows a command through its run: it holds a saved plan of its name
  (`HoldsPlan`), a run no other command holds and that is blocked by nobody else (`HoldsRun`,
  `RunsApart`), and past each write what it wrote (`HasWritten`). Under it every step of
  `Authoring` is a step of `BuildLedger` or a stutter.
* **`AnswersHaveResults`**, **`WritesWithinAuthority`**: of the agent loop, for any hooks. The
  policy is that of the clamped mode, an edit needs a mode that permits building, and a mode
  clamped by two permits what both do (`ClampedByBoth`); an answer with tool calls is followed by its
  results, unless it is the last message and they are still being made (`AnswersPaired`).
* **`PassesAreFresh`**: of the library's cache by modification time. `CacheOK`: what is cached
  under the time a file has is no older than the first edit of that time.
* **`PassIsOfTheCode`**: `VerifySpec => []PassedAsLeft`, for every budget of iterations. `InLoop`
  ties the iteration to the number of fixes and the code a finished check has seen to the code
  there is.

### Runs and deploys (`ElProofs`)

* **`SuccessesAreVerified`**, **`DdlIsSafe`**: `DepOK` follows one deploy: what is about to run is
  classified, what writes was agreed to, what succeeded has its table and its grant. The
  deploys of several commands touch different rows.
* **`RetriesAreRecorded`**: `JobOK` (every line written is in the pipe, in the logs or lost by
  `append_log`, and the streamer finalises when nobody holds the pipe any more), `Chained` (a run
  has at most one retry, and only one that ended without success), `CmdOK` (what a command goes on
  to retry is such a run).
* **`EditsAreRun`**: `WatchOK`: an edit of an observed directory that no run has looked at is held
  by the timer or the trigger, or a run is about to start.

### The algorithms, for every input (`AlgorithmsProofs`)

* **`AuthorityOnlyShrinks`**, **`DeniedIsDenied`**, **`ClampingBounds`**: of the gate, for any
  configuration, grant, mode and approver, not only those the run enumerates (the commands are
  the model's classes). A narrower input makes a narrower policy (`PoliciesNarrow`), and the gate
  is monotone in its policy (`GateIsMonotone`).
* **`TelemetryIsTrue`**: `TelemetrySpec => []RowsTrue`. `OpenRow`: the engine at work has the last
  row; `NothingMissing`: where no write failed, the engines before it are settled at what they
  spent.
* **`MetricsAreTrue`**: `TelemetrySpec => []MetricsTrue`. The sums are folds over sets, and a fold
  takes off an element at a time, no matter which: `FoldExists` gives each fold its values on all
  subsets at once (by the least size at which there would be none), and `SumsAgree` that two
  sums over the same set are equal if they are so element by element. `AgentCost` and `AllCosts`
  then compare the rows of an engine with what it spent, under the invariant of
  `TelemetryIsTrue`.
* **`DagIsExact`**: for any number of steps and any dependencies. A graph that is refused has no
  order (`OrderedIsFree`: an order leaves no set whose members all depend on one another) and one
  that is accepted has the computed one (`ValidatedOrder`). It is the first of all orders because
  Kahn's loop takes the least step that is ready, and another order that agrees so far can only
  take one of the ready steps (`ComputedOrder`). `downstream_of` grows only by dependents, so it
  lies within every closed set (`DownstreamIsLeast`), and a step is not in its own, which would be
  a cycle.
* **`LoadedIsRunnable`**: of files of any length. The depth-first search of the loader is followed by
  the colours of its ids: what is done has only done ids behind it (`Settled`), what may be called
  (`MayCall`) returns (`Returns`) with the colours of the stack as they were, all it reached done, or
  with a raise and then a set in which every id depends on another (`Stuck`). So it refuses
  exactly the graphs that have such a set (`SearchIsExact`), and these are the ones the
  constructor of `PipelineDAG` refuses. The order in which Python iterates `depends_on` is a fold
  over a set, whose choice the proof leaves open.
* **`PagesAreComplete`**: of any collection of at most `MaxPages` rows that come and go, and any
  size of a page asked for. A row's place among the candidates is the number of newer ones
  (`RanksDiffer`, `OrderedRows`), so a page is the rows behind the cursor in that order (`PageIs`).
  `WalkOK`: what was read is in order and in front of the cursor, everything that stays is either
  read or behind the cursor, and each page that has another after it adds a row, which is why
  the walk ends.
* **`DestinationIsKept`**, **`DriftIsJudgedExactly`**, **`RedeployAlwaysPasses`**: of any design,
  target section, catalog and lists of columns with distinct names. `TypesByName`: what a dict
  made of the normalised columns holds under a name is the type of the one column of that name.
* **`DefinitionsAreSound`**, **`AnswersAreExact`**: the invariants of the run, from the theorems
  above. Their hypotheses are what the inputs of the run need: `N >= 3`, since its files have
  three steps, and `MaxPages >= 4`, since its tables have four rows.

### Only model-checked

* Liveness (`JobsFinish`, `CatchesUp`, `RunEnds`, `StreamEnds`, `Settles`, `PoolStops`): it needs
  fairness and ENABLED, which the prover does not have.

## 6. What is not modelled

* `integrations/dbt` and `integrations/dlt` parsing and code emission, templates of `init`,
  prompts and their assembly in planner, builder and recovery, and the SQL classifier: text to
  text, in one process, with no state that another actor's step could disturb. Their tests
  compare texts, which is the right tool.
* MCP, the CLI's argument parsing and listings, the read-only routers and schemas: plumbing over
  the modelled operations.
* `core/config/schema.py` beyond pipelines, targets and components: fields validated one by one.
* What language models answer, what executors do in a warehouse, croniter with its time zones,
  git, pip, uvicorn: external, and nondeterministic choices where the code depends on them.

In the modules themselves: the text of events and logs, durations, tenants (every statement
filters by one), and costs beyond what `Telemetry` adds up.
