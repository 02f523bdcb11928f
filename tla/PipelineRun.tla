---------------------------- MODULE PipelineRun -----------------------------
(***************************************************************************)
(* execute_pipeline: the walk of one run over its step DAG, in waves of at *)
(* most Slots coroutines (runtime/execute_pipeline.py), the failure modes  *)
(* (runtime/failure_modes.py) and the step_runs rows the persisting sink   *)
(* writes (runtime/persisting_step_sink.py).                               *)
(*                                                                         *)
(* A coroutine is one step per await.  What an executor returns or raises  *)
(* is succeeded or failed; a raise of the sink (the store is down) leaves  *)
(* the coroutine and, through asyncio.gather, the walk.                    *)
(***************************************************************************)
EXTENDS PipelineDAG, FiniteSets

CONSTANTS
    Slots,          \* available_slots
    FailureModes,   \* the failure modes in use
    MaxAttempts,    \* max_attempts of a retry step
    MaxSinkErrors,  \* bound on the number of sink calls that raise
    CanCancel       \* TRUE: the worker may be cancelled (a forced drain)

AllModes == {"fail", "warn", "continue", "retry", "skip_downstream"}
ASSUME SlotsAssumption == Slots \in Nat \ {0} /\ MaxAttempts \in Nat /\ MaxSinkErrors \in Nat
ASSUME ModesAssumption == FailureModes \subseteq AllModes /\ CanCancel \in BOOLEAN

VARIABLES
    deps, mode, order,                     \* the loaded pipeline and its DAG
    main,                                  \* where execute_pipeline is
    wave,                                  \* the steps of the current wave
    task,                                  \* the coroutine of each step
    completed, failed, skipped,            \* RunState
    halted, tolerated,
    namespace,                             \* the keys of step_results
    rows,                                  \* step_runs, per step
    sinkErrors

pipeline == <<deps, mode, order>>
state == <<completed, failed, skipped, halted, tolerated>>
vars == <<pipeline, main, wave, task, state, namespace, rows, sinkErrors>>

Live == {"render", "starting", "executing", "finishing", "backoff"}
NoTask == [pc |-> "none", attempt |-> 0, result |-> "none"]
Task == [pc : Live \cup {"none", "done", "raised", "cancelled"},
         attempt : Nat, result : {"none", "succeeded", "failed"}]
StepRow == [attempt : Nat, status : {"running", "succeeded", "failed"}]

Init == /\ deps \in {d \in [Steps -> SUBSET Steps] : _validate_no_cycles(d)}
        /\ mode \in [Steps -> FailureModes]
        /\ order = _compute_topological_order(deps)
        /\ main = "loop"
        /\ wave = {}
        /\ task = [s \in Steps |-> NoTask]
        /\ completed = {} /\ failed = {} /\ skipped = {}
        /\ halted = FALSE /\ tolerated = {}
        /\ namespace = {}
        /\ rows = [s \in Steps |-> << >>]
        /\ sinkErrors = 0

-----------------------------------------------------------------------------
(* The wave loop.                                                          *)

Ready == ready_steps(order, deps, completed, failed, skipped)
FirstSlots(P) == {order[i] : i \in {j \in P : Cardinality({k \in P : k < j}) < Slots}}

LaunchWave ==
    /\ main = "loop"
    /\ ~halted
    /\ Ready # {}
    /\ main' = "gather"
    /\ wave' = FirstSlots(Ready)
    /\ task' = [s \in Steps |-> IF s \in wave'
                                THEN [pc |-> "render", attempt |-> 1, result |-> "none"]
                                ELSE task[s]]
    /\ UNCHANGED <<pipeline, state, namespace, rows, sinkErrors>>

\* apply_failure_mode for each result of the wave.  A step of the wave depends
\* on no other, so the order in which they are applied does not matter.
Bad == {s \in wave : task[s].result = "failed"}
Tolerates == {"warn", "continue", "skip_downstream"}
Skips == {s \in Bad : mode[s] = "skip_downstream"}

\* Mutant: a failed retry step is tolerated.
apply_failure_mode_retry_tolerated ==
    /\ completed' = completed \cup (wave \ Bad)
    /\ failed' = failed \cup Bad
    /\ halted' = (halted \/ \E s \in Bad : mode[s] = "fail")
    /\ tolerated' = tolerated \cup {s \in Bad : mode[s] # "fail"}
    /\ skipped' = skipped \cup UNION {downstream_of(deps, s) : s \in Skips}
apply_failure_mode ==
    /\ completed' = completed \cup (wave \ Bad)
    /\ failed' = failed \cup Bad
    /\ halted' = (halted \/ \E s \in Bad : mode[s] \notin Tolerates)
    /\ tolerated' = tolerated \cup {s \in Bad : mode[s] \in Tolerates}
    /\ skipped' = skipped \cup UNION {downstream_of(deps, s) : s \in Skips}

\* Mutant: only what succeeded is put in the steps namespace.
Recorded_succeeded == namespace' = namespace \cup completed'
\* step_results holds every step that ran and every step newly skipped.
Recorded == namespace' = namespace \cup wave \cup skipped'

GatherReturns ==
    /\ main = "gather"
    /\ \A s \in wave : task[s].pc = "done"
    /\ apply_failure_mode
    /\ Recorded
    /\ main' = "loop"
    /\ wave' = {}
    /\ UNCHANGED <<pipeline, task, rows, sinkErrors>>

Return ==
    /\ main = "loop"
    /\ halted \/ Ready = {}
    /\ main' = "returned"
    /\ UNCHANGED <<pipeline, wave, task, state, namespace, rows, sinkErrors>>

derive_run_status ==
    IF halted THEN "failed"
    ELSE IF tolerated # {} \/ skipped # {} THEN "partial" ELSE "succeeded"

\* Mutant: the exception is raised only if every coroutine of the wave raised.
GatherRaises_all ==
    /\ main = "gather"
    /\ \A s \in wave : task[s].pc = "raised"
    /\ main' = "raised"
    /\ UNCHANGED <<pipeline, wave, task, state, namespace, rows, sinkErrors>>
\* gather re-raises the first exception at once and leaves the others running.
GatherRaises ==
    /\ main = "gather"
    /\ \E s \in wave : task[s].pc = "raised"
    /\ main' = "raised"
    /\ UNCHANGED <<pipeline, wave, task, state, namespace, rows, sinkErrors>>

\* Cancellation, which gather passes on to every coroutine of the wave.
Cancel ==
    /\ CanCancel
    /\ main = "gather"
    /\ main' = "cancelled"
    /\ task' = [s \in Steps |-> IF task[s].pc \in Live
                                THEN [task[s] EXCEPT !.pc = "cancelled"] ELSE task[s]]
    /\ UNCHANGED <<pipeline, wave, state, namespace, rows, sinkErrors>>

-----------------------------------------------------------------------------
(* _run_step_with_retry and _launch_step of one step.                      *)

attempts(s) == IF mode[s] = "retry" /\ MaxAttempts > 1 THEN MaxAttempts ELSE 1

AfterAttempt(s, r) ==
    [task[s] EXCEPT !.result = r,
                    !.pc = IF r = "succeeded" \/ task[s].attempt = attempts(s)
                           THEN "done" ELSE "backoff"]

Render(s) ==
    /\ task[s].pc = "render"
    /\ \/ task' = [task EXCEPT ![s].pc = "starting"]
       \/ task' = [task EXCEPT ![s] = AfterAttempt(s, "failed")]
    /\ UNCHANGED <<pipeline, main, wave, state, namespace, rows, sinkErrors>>

step_started(s) ==
    /\ task[s].pc = "starting"
    /\ rows' = [rows EXCEPT ![s] =
                  Append(@, [attempt |-> task[s].attempt, status |-> "running"])]
    /\ task' = [task EXCEPT ![s].pc = "executing"]
    /\ UNCHANGED <<pipeline, main, wave, state, namespace, sinkErrors>>

Execute(s) ==
    /\ task[s].pc = "executing"
    /\ \E r \in {"succeeded", "failed"} :
          task' = [task EXCEPT ![s].pc = "finishing", ![s].result = r]
    /\ UNCHANGED <<pipeline, main, wave, state, namespace, rows, sinkErrors>>

step_finished(s) ==
    /\ task[s].pc = "finishing"
    /\ rows' = [rows EXCEPT ![s][Len(rows[s])].status = task[s].result]
    /\ task' = [task EXCEPT ![s] = AfterAttempt(s, task[s].result)]
    /\ UNCHANGED <<pipeline, main, wave, state, namespace, sinkErrors>>

SinkRaises(s) ==
    /\ task[s].pc \in {"starting", "finishing"}
    /\ sinkErrors < MaxSinkErrors
    /\ sinkErrors' = sinkErrors + 1
    /\ task' = [task EXCEPT ![s].pc = "raised"]
    /\ UNCHANGED <<pipeline, main, wave, state, namespace, rows>>

\* The sleep of _backoff_delay seconds; its length decides nothing else.
Backoff(s) ==
    /\ task[s].pc = "backoff"
    /\ task' = [task EXCEPT ![s].pc = "render", ![s].attempt = @ + 1]
    /\ UNCHANGED <<pipeline, main, wave, state, namespace, rows, sinkErrors>>

-----------------------------------------------------------------------------
Walk == LaunchWave \/ GatherReturns \/ Return \/ GatherRaises
Coroutine(s) == Render(s) \/ step_started(s) \/ Execute(s) \/ step_finished(s) \/ Backoff(s)

Next == \/ Walk
        \/ Cancel
        \/ \E s \in Steps : Coroutine(s) \/ SinkRaises(s)

Spec == Init /\ [][Next]_vars

\* The event loop runs what is runnable, and every executor returns in the end.
FairSpec == Spec /\ WF_vars(Walk) /\ \A s \in Steps : WF_vars(Coroutine(s))

-----------------------------------------------------------------------------
(* Properties.                                                             *)

resolved == completed \cup failed \cup skipped
Ran(s) == task[s].pc # "none"
Returned == main = "returned"

TypeOK ==
    /\ deps \in [Steps -> SUBSET Steps] /\ mode \in [Steps -> FailureModes]
    /\ main \in {"loop", "gather", "returned", "raised", "cancelled"}
    /\ wave \subseteq Steps
    /\ task \in [Steps -> Task]
    /\ completed \subseteq Steps /\ failed \subseteq Steps /\ skipped \subseteq Steps
    /\ halted \in BOOLEAN /\ tolerated \subseteq failed
    /\ namespace \subseteq Steps
    /\ rows \in [Steps -> Seq(StepRow)]

\* A step is completed, failed or skipped and never two of these, and a step
\* that is skipped never ran, although waves, retries and several
\* skip_downstream failures with common dependents interleave.
OneFate == /\ completed \cap failed = {} /\ (completed \cup failed) \cap skipped = {}
           /\ \A s \in skipped : ~Ran(s)
           /\ \A s \in completed \cup failed : Ran(s)

\* When a step renders its Jinja variables, every step it depends on, directly
\* or not, is in the steps namespace, so that steps.<id> resolves whatever
\* became of it.
UpstreamVisible ==
    \A s \in Steps : task[s].pc = "render" =>
        \A t \in Steps : s \in downstream_of(deps, t) => t \in namespace

\* The status of a finished run, from the table of failure_modes.py: failed iff
\* a fail or retry step failed; else partial iff something failed or was
\* skipped; and unless it failed, every step has its fate.
StatusMatchesOutcome ==
    Returned =>
        LET fatal == \E s \in Steps : task[s].result = "failed" /\ mode[s] \in {"fail", "retry"}
            allGood == \A s \in Steps : task[s].pc = "done" /\ task[s].result = "succeeded"
        IN  /\ (derive_run_status = "failed") <=> fatal
            /\ (derive_run_status = "succeeded") <=> allGood
            /\ ~fatal => resolved = Steps

\* After a normal return no step_runs row is left running; a completed step has
\* a last row that succeeded after rows that all failed, one per attempt it
\* took to the executor and at most max_attempts of them.
RowsTellTheRun ==
    Returned => \A s \in Steps :
        LET q == rows[s]
        IN  /\ Len(q) <= attempts(s)
            /\ \A i \in 1..Len(q) : /\ q[i].status # "running"
                                    /\ q[i].status = "succeeded" =>
                                          i = Len(q) /\ s \in completed
            /\ s \in completed => q # << >> /\ q[Len(q)].status = "succeeded"
            /\ s \in skipped => q = << >>

\* What a run leaves behind tells what happened in it: OneFate,
\* StatusMatchesOutcome and RowsTellTheRun.
RecordIsTrue == OneFate /\ StatusMatchesOutcome /\ RowsTellTheRun

\* Every run ends, and what it launched ends with it.
RunEnds == <>(main # "loop" /\ main # "gather" /\ \A s \in Steps : task[s].pc \notin Live)

\* When the walk is over, however it ended, no step of it is still executing.
NothingRunsOn ==
    main \in {"returned", "raised", "cancelled"} => \A s \in Steps : task[s].pc \notin Live
=============================================================================
