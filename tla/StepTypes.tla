----------------------------- MODULE StepTypes ------------------------------
(***************************************************************************)
(* The step executors (runtime/step_types): steps of one wave run at the   *)
(* same time, each an attempt after the other, and what they find out      *)
(* about their work they read from state they share.  A dlt step runs a    *)
(* program and then looks for its load package in DLT_DATA_DIR, which      *)
(* nothing wipes; a dbt step runs dbt and then reads the project's         *)
(* target/run_results.json; a sql step runs a statement in a thread that   *)
(* outlives the step's timeout.                                            *)
(*                                                                         *)
(* Load ids are times: the clock is the next one.  The run started at 1.   *)
(***************************************************************************)
EXTENDS Integers, FiniteSets, FiniteSetsExt

CONSTANTS
    WaveSteps,    \* the steps that run together, each also the name of its component
    SharedName,   \* a pipeline_name that several dlt scripts may use
    MaxStepAttempts   \* max_attempts of the retry failure mode

\* No step has the shared name, or what stands here for no step and an earlier run.
ASSUME StepNamesAssumption == {SharedName, "none", "earlier"} \cap WaveSteps = {}

VARIABLES
    clock,     \* the next load id
    packages,  \* the load packages under DLT_DATA_DIR/pipelines
    results,   \* target/run_results.json of the dbt project
    steps,     \* the steps
    threads    \* what runs in the executor for the sql steps

stepVars == <<clock, packages, results, steps, threads>>

Types == {"dlt", "dbt", "sql"}
Dirs == WaveSteps \cup {SharedName}
StartedAt == 1
Package(d, id, state, clean, s) ==
    [dir |-> d, id |-> id, state |-> state, clean |-> clean, by |-> s]
NoReport == [by |-> "none", ok |-> FALSE]
NoPackage == Package("none", 0, "none", FALSE, "none")

\* A wave begins, in a new project or in one where earlier runs left packages
\* and results.  A dlt script chooses its pipeline_name.
StepsInit ==
    /\ clock = StartedAt
    /\ \/ packages = {} /\ results = NoReport
       \/ /\ packages = {Package(d, 0, "loaded", TRUE, "earlier") : d \in Dirs}
          /\ results = [by |-> "earlier", ok |-> TRUE]
    /\ \E type \in [WaveSteps -> Types], dir \in [WaveSteps -> Dirs] :
          /\ \A s \in WaveSteps : dir[s] \in IF type[s] = "dlt" THEN {s, SharedName} ELSE {s}
          /\ steps = [s \in WaveSteps |->
                     [type |-> type[s], dir |-> dir[s],
                      pc |-> "launch", attempt |-> 1, rc |-> -1, wrote |-> FALSE,
                      verdict |-> "none", package |-> NoPackage]]
    /\ threads = {}

StepAt(s, type, pc) == steps[s].type = type /\ steps[s].pc = pc
StepEnds(s, verdict) == [steps EXCEPT ![s].pc = "ended", ![s].verdict = verdict]

-----------------------------------------------------------------------------
\* The next attempt, after the backoff.
_run_step_with_retry(s) ==
    /\ steps[s].pc = "ended" /\ steps[s].verdict = "failed"
    /\ steps[s].attempt < MaxStepAttempts
    /\ steps' = [steps EXCEPT ![s].pc = "launch", ![s].attempt = @ + 1, ![s].verdict = "none",
                              ![s].rc = -1, ![s].wrote = FALSE]
    /\ UNCHANGED <<clock, packages, results, threads>>

\* Subprocess.run_to_completion: what the program exited with, or that it was
\* killed, by the watchdog or otherwise.  The step goes on when it is gone.
ExitCodes == {0, 1}

-----------------------------------------------------------------------------
(* dlt.                                                                    *)

\* An override in the step, a component that does not resolve or has no entrypoint
\* fails the step before anything is started.
StartScript(s) ==
    /\ StepAt(s, "dlt", "launch")
    /\ steps' \in {StepEnds(s, "failed"), [steps EXCEPT ![s].pc = "program"]}
    /\ UNCHANGED <<clock, packages, results, threads>>

\* The script loads: a package that may not get to the end, with or without
\* failed jobs.
ScriptLoads(s) ==
    /\ StepAt(s, "dlt", "program") /\ ~steps[s].wrote
    /\ clock' = clock + 1
    /\ \E state \in {"new", "loaded"}, clean \in BOOLEAN :
          packages' = packages \cup {Package(steps[s].dir, clock, state, clean, s)}
    /\ steps' = [steps EXCEPT ![s].wrote = TRUE]
    /\ UNCHANGED <<results, threads>>

\* It may exit 0 without having loaded anything (a module that only defines its
\* source).
ScriptExits(s) ==
    /\ StepAt(s, "dlt", "program")
    /\ \E rc \in ExitCodes : steps' = [steps EXCEPT ![s].pc = "read", ![s].rc = rc]
    /\ UNCHANGED <<clock, packages, results, threads>>

read_latest_load_package(d) ==
    LET ofDir == {p \in packages : p.dir = d}
    IN  IF ofDir = {} THEN NoPackage ELSE CHOOSE p \in ofDir : \A q \in ofDir : q.id <= p.id

Recent(package) == package # NoPackage /\ package.id >= StartedAt

\* The component's own name if it has a package of this run, or else the name
\* with the newest one.
_discover_pipeline_name(s) ==
    LET newest == {read_latest_load_package(d) : d \in Dirs}
        recent == {p \in newest : Recent(p)}
    IN  CASE Recent(read_latest_load_package(s)) -> s
          [] ~Recent(read_latest_load_package(s)) /\ recent = {} -> "none"
          [] OTHER -> (CHOOSE p \in recent : \A q \in recent : q.id <= p.id).dir

_outcome_to_step_result(s) ==
    /\ StepAt(s, "dlt", "read")
    /\ LET name == _discover_pipeline_name(s)
           report == IF name = "none" THEN NoPackage ELSE read_latest_load_package(name)
           passed == /\ steps[s].rc = 0 /\ name # "none" /\ Recent(report)
                     /\ report.state = "loaded" /\ report.clean
       IN  steps' = [StepEnds(s, IF passed THEN "succeeded" ELSE "failed") EXCEPT ![s].package = report]
    /\ UNCHANGED <<clock, packages, results, threads>>

-----------------------------------------------------------------------------
(* dbt.                                                                    *)

\* A component or a backend that does not resolve, or a command that is not valid,
\* fails the step.
StartDbt(s) ==
    /\ StepAt(s, "dbt", "launch")
    /\ steps' \in {StepEnds(s, "failed"), [steps EXCEPT ![s].pc = "program"]}
    /\ UNCHANGED <<clock, packages, results, threads>>

\* dbt writes its results when it is done, ...
DbtWrites(s) ==
    /\ StepAt(s, "dbt", "program") /\ ~steps[s].wrote
    /\ \E ok \in BOOLEAN : results' = [by |-> s, ok |-> ok]
    /\ steps' = [steps EXCEPT ![s].wrote = TRUE, ![s].rc = IF results'.ok THEN 0 ELSE 1]
    /\ UNCHANGED <<clock, packages, threads>>

\* ... and exits 0 only if every node passed; it may be killed or give up before.
DbtExits(s) ==
    /\ StepAt(s, "dbt", "program")
    /\ \/ steps[s].wrote /\ steps' = [steps EXCEPT ![s].pc = "read"]
       \/ steps' = [steps EXCEPT ![s].pc = "read", ![s].rc = 1]
    /\ UNCHANGED <<clock, packages, results, threads>>

\* Mutant: the results are believed whatever dbt exited with.
from_report_trusting(report, rc) ==
    IF report = NoReport THEN "error" ELSE IF report.ok THEN "success" ELSE "failed"
from_report(report, rc) ==
    IF report = NoReport THEN "error" ELSE IF report.ok /\ rc = 0 THEN "success" ELSE "failed"

_run_result_to_step_result(s) ==
    /\ StepAt(s, "dbt", "read")
    /\ steps' = StepEnds(s, IF from_report(results, steps[s].rc) = "success"
                        THEN "succeeded" ELSE "failed")
    /\ UNCHANGED <<clock, packages, results, threads>>

-----------------------------------------------------------------------------
(* sql.                                                                    *)

Thread(s) == [step |-> s, attempt |-> steps[s].attempt, pc |-> "begun", session |-> "none",
              committed |-> FALSE]
Own(s) == CHOOSE t \in threads : t.step = s /\ t.attempt = steps[s].attempt
Becomes(t, u) == threads' = (threads \ {t}) \cup {u}

\* A connection that does not resolve, a file outside the project, missing or not
\* readable, or a template that does not render fails the step; no session is open
\* by then.
StartStatement(s) ==
    /\ StepAt(s, "sql", "launch")
    /\ \/ steps' = StepEnds(s, "failed") /\ UNCHANGED threads
       \/ /\ threads' = threads \cup {Thread(s)}
          /\ steps' = [steps EXCEPT ![s].pc = "await"]
    /\ UNCHANGED <<clock, packages, results>>

\* The session is opened by the first query, in the thread, ...
OpenSession(t) ==
    /\ t.pc = "begun"
    /\ Becomes(t, [t EXCEPT !.pc = "open", !.session = "open"])
    /\ UNCHANGED <<clock, packages, results, steps>>

_execute_sql(t) ==
    /\ t.pc = "open"
    /\ \E committed \in BOOLEAN :
          Becomes(t, [t EXCEPT !.pc = "executed", !.committed = committed])
    /\ UNCHANGED <<clock, packages, results, steps>>

\* ... and closed by it, whatever happened and whether or not the step waits.
_open_run_close(t) ==
    /\ t.pc = "executed"
    /\ Becomes(t, [t EXCEPT !.pc = "done", !.session = "closed"])
    /\ UNCHANGED <<clock, packages, results, steps>>

StatementDone(s) ==
    /\ StepAt(s, "sql", "await") /\ Own(s).pc = "done"
    /\ steps' = StepEnds(s, IF Own(s).committed THEN "succeeded" ELSE "failed")
    /\ UNCHANGED <<clock, packages, results, threads>>

\* wait_for gives up; the thread does not.
StatementTimesOut(s) ==
    /\ StepAt(s, "sql", "await")
    /\ steps' = StepEnds(s, "failed")
    /\ UNCHANGED <<clock, packages, results, threads>>

StepsNext ==
    \/ \E s \in WaveSteps :
          \/ _run_step_with_retry(s) \/ StartScript(s) \/ StartDbt(s)
          \/ ScriptLoads(s) \/ ScriptExits(s) \/ _outcome_to_step_result(s)
          \/ DbtWrites(s) \/ DbtExits(s) \/ _run_result_to_step_result(s)
          \/ StartStatement(s) \/ StatementDone(s) \/ StatementTimesOut(s)
    \/ \E t \in threads : OpenSession(t) \/ _execute_sql(t) \/ _open_run_close(t)
StepsSpec == StepsInit /\ [][StepsNext]_stepVars

-----------------------------------------------------------------------------
\* No false green: a step that says it succeeded ran a program that exited 0 in
\* this attempt, or a statement that committed, and its evidence is not a leftover
\* of an earlier run, whatever the other steps write in between.
SuccessHasEvidence ==
    \A s \in WaveSteps : steps[s].verdict = "succeeded" =>
        CASE steps[s].type = "dlt" -> /\ steps[s].rc = 0
                                      /\ steps[s].package.by # "earlier"
                                      /\ steps[s].package.state = "loaded" /\ steps[s].package.clean
          [] steps[s].type = "dbt" -> steps[s].rc = 0
          [] steps[s].type = "sql" -> Own(s).committed

\* "the connection is now LEAK-FREE": when a statement's thread is done its
\* session is closed, also if the step timed out long before.
LeakFree == \A t \in threads : t.pc = "done" => t.session # "open"

\* What the executors say and leave behind: SuccessHasEvidence and LeakFree.
ExecutorsHonest == SuccessHasEvidence /\ LeakFree

\* "a clean exit that produced no verifiable load package FROM THIS RUN is failed":
\* the package a succeeded dlt step reports is one that it wrote.
OwnPackage ==
    \A s \in WaveSteps : steps[s].verdict = "succeeded" /\ steps[s].type = "dlt"
                            => steps[s].package.by = s
=============================================================================
