------------------------------- MODULE ElRun --------------------------------
(***************************************************************************)
(* carve el run: one run of a pipeline's script, the log tail, the         *)
(* recovery loop around it and the watch loop around that                  *)
(* (cli/orchestrator/runner.py and recovery.py, cli/commands/el/run.py,    *)
(* core/agents/recovery/agent.py).                                         *)
(***************************************************************************)
EXTENDS LocalVenv, FiniteSets

CONSTANTS
    Commands,       \* the options of the commands, sets of "auto_fix" and "watch"
    Diagnoses,      \* the summaries of the recovery agent
    Edited,         \* the defects that the scripts people and agents write have
    MaxAttempts,    \* auto_fix.max_attempts
    MaxLive,        \* bound on the runs left "running" when another one starts
    MaxEdits        \* bound on the edits of the script by the user

ASSUME ElRunAssumption ==
    /\ MaxAttempts \in Nat
    /\ Commands \subseteq SUBSET {"auto_fix", "watch"}
    /\ Edited \subseteq Defects

VARIABLES
    script,     \* the defect of main.py, or "missing"
    fresh,      \* no edit since the last time a run looked at the directory
    watch,      \* the --watch loop: what is observed, the debounce timer, the trigger
    lastRun,    \* pipelines.last_run_id, last_run_status
    cmd,        \* the command
    edits       \* the user's edits so far

elVars == <<venv, job, script, fresh, watch, lastRun, cmd, edits>>

Scripts == Edited \cup {"missing"}
Categories == {"code_fix", "auth", "permission", "resource_exhaustion",
               "user_cancel", "repeated_identical", "out_of_scope"}

Command(fix, watching) ==
    [pc |-> "start", fix |-> fix, watching |-> watching, attempt |-> 0, run |-> 0,
     failed |-> 0, error |-> "", history |-> {}, seen |-> 0, quiet |-> FALSE,
     outcome |-> "none"]

\* el/<name> is observed if it is a directory when the command starts.  It may be
\* created later, and a project of the legacy layout has its script elsewhere,
\* below targets/<target>/el/<name>.
ElRunInit ==
    /\ VenvInit
    /\ script \in Scripts
    /\ fresh = FALSE
    /\ \E c \in Commands : cmd = Command("auto_fix" \in c, "watch" \in c)
    /\ watch \in [on : {cmd.watching, FALSE}, timer : {FALSE}, trigger : {FALSE}]
    /\ lastRun = [run |-> 0, status |-> "none"]
    /\ edits = 0

At(pc) == cmd.pc = pc
Goto(pc) == cmd' = [cmd EXCEPT !.pc = pc]

-----------------------------------------------------------------------------
(* _run_pipeline_dir.                                                      *)

\* main.py is missing: no run, and nothing in _LAST_RUN_ID.
StartRun ==
    /\ At("start")
    /\ fresh' = TRUE
    /\ IF script = "missing"
       THEN cmd' = [cmd EXCEPT !.pc = "result", !.run = 0] /\ UNCHANGED job
       ELSE /\ Len(job) < MaxJobs
            /\ Cardinality({r \in DOMAIN job : job[r].status = "running"}) <= MaxLive
            /\ job' = Append(job, NewJob(cmd.failed))
            /\ cmd' = [cmd EXCEPT !.pc = "execute", !.run = Len(job) + 1, !.seen = 0]
    /\ UNCHANGED <<venv, script, watch, lastRun, edits>>

\* runner.execute.  pip failing raises through everything; a script path that
\* leaves the project fails the run.
Execute ==
    /\ At("execute")
    /\ \E ok \in BOOLEAN : _ensure_venv(ok) /\ Goto(IF ok THEN "spawn" ELSE "raised")
    /\ UNCHANGED <<job, script, fresh, watch, lastRun, edits>>

\* The script may be gone by now, which Python reports as a usage error.
SpawnScript ==
    /\ At("spawn")
    /\ Spawn(cmd.run, IF script = "missing" THEN "usage" ELSE script)
    /\ Goto("logs")
    /\ UNCHANGED <<venv, script, fresh, watch, lastRun, edits>>

SpawnRefused ==
    /\ At("spawn")
    /\ job' = [job EXCEPT ![cmd.run].status = "failed", ![cmd.run].error = "bad_script"]
    /\ lastRun' = [run |-> cmd.run, status |-> "failed"]
    /\ Goto("result")
    /\ UNCHANGED <<venv, script, fresh, watch, edits>>

\* _tail_logs reads the new lines and then, in another transaction, the status.
TailLogs ==
    /\ At("logs")
    /\ cmd' = [cmd EXCEPT !.pc = "status", !.quiet = (job[cmd.run].logs = cmd.seen),
                          !.seen = job[cmd.run].logs]
    /\ UNCHANGED <<venv, job, script, fresh, watch, lastRun, edits>>

TailStatus ==
    /\ At("status")
    /\ Goto(IF job[cmd.run].status \in Terminal /\ cmd.quiet THEN "record" ELSE "logs")
    /\ UNCHANGED <<venv, job, script, fresh, watch, lastRun, edits>>

record_pipeline_run ==
    /\ At("record")
    /\ lastRun' = [run |-> cmd.run, status |-> job[cmd.run].status]
    /\ cmd' = [cmd EXCEPT !.pc = "result", !.seen = 0, !.quiet = FALSE]
    /\ UNCHANGED <<venv, job, script, fresh, watch, edits>>

-----------------------------------------------------------------------------
(* run_with_recovery.                                                      *)

\* classify_failure on the errors a run of this command can have: the runner
\* reports an exit code or a signal, in which no pattern of the taxonomy occurs.
classify_failure(error) == "code_fix"
DO_NOT_AUTO_FIX == Categories \ {"code_fix"}

Succeeded == cmd.run # 0 /\ job[cmd.run].status = "success"
Error == IF cmd.run = 0 THEN "" ELSE job[cmd.run].error
Ends(o) == [cmd EXCEPT !.pc = "end", !.outcome = o, !.history = {}]

\* Mutant: one attempt too many.
AfterRun_off_by_one ==
    IF Succeeded THEN Ends("recovered")
    ELSE IF ~cmd.fix THEN Ends("failed")
    ELSE IF cmd.attempt > 0 /\ Error # "" /\ Error = cmd.error THEN Ends("repeated_error")
    ELSE IF classify_failure(Error) \in DO_NOT_AUTO_FIX THEN Ends("refused")
    ELSE IF cmd.attempt > MaxAttempts THEN Ends("exhausted")
    ELSE [cmd EXCEPT !.pc = "agent", !.attempt = @ + 1, !.failed = cmd.run, !.error = Error]
\* What follows a run: an identical error, or the end of the budget, ends it.
AfterRun ==
    IF Succeeded THEN Ends("recovered")
    ELSE IF ~cmd.fix THEN Ends("failed")
    ELSE IF cmd.attempt > 0 /\ Error # "" /\ Error = cmd.error THEN Ends("repeated_error")
    ELSE IF classify_failure(Error) \in DO_NOT_AUTO_FIX THEN Ends("refused")
    ELSE IF cmd.attempt = MaxAttempts THEN Ends("exhausted")
    ELSE [cmd EXCEPT !.pc = "agent", !.attempt = @ + 1, !.failed = cmd.run, !.error = Error]

Result ==
    /\ At("result")
    /\ cmd' = AfterRun
    /\ UNCHANGED <<venv, job, script, fresh, watch, lastRun, edits>>

\* The recovery agent may write the script (in its allow-list) while it works;
\* several writes are one, nothing reading the script between them.
AgentEdits ==
    /\ At("agent")
    /\ fresh
    /\ \E s \in Edited \ {script} :
          /\ script' = s
          /\ fresh' = FALSE
          /\ watch' = [watch EXCEPT !.timer = watch.on]
    /\ UNCHANGED <<venv, job, lastRun, cmd, edits>>

\* The diagnosis decides: only an applied code_fix with a new summary is retried.
AfterDiagnosis(c, refused, d) ==
    IF c \in {"auth", "permission", "resource_exhaustion", "out_of_scope"} THEN Ends("refused")
    ELSE IF c # "code_fix" \/ refused \/ d \in cmd.history THEN Ends("exhausted")
    ELSE [cmd EXCEPT !.pc = "start", !.history = @ \cup {d}]

\* submit_diagnosis; an agent that ends without it ends the loop, and any other
\* error of the agent leaves it.
Diagnose ==
    /\ At("agent")
    /\ \/ \E c \in Categories, refused \in BOOLEAN, d \in Diagnoses :
             cmd' = AfterDiagnosis(c, refused, d)
       \/ cmd' = Ends("exhausted")
       \/ Goto("raised")
    /\ UNCHANGED <<venv, job, script, fresh, watch, lastRun, edits>>

-----------------------------------------------------------------------------
(* The watch loop.                                                         *)

\* The command returns, or waits for an edit.
\* Mutant: an edit made during the run is cleared with the trigger.
Finish_clears ==
    /\ At("end")
    /\ Goto(IF cmd.watching THEN "waiting" ELSE "returned")
    /\ watch' = [watch EXCEPT !.trigger = FALSE]
    /\ UNCHANGED <<venv, job, script, fresh, lastRun, edits>>
Finish ==
    /\ At("end")
    /\ Goto(IF cmd.watching THEN "waiting" ELSE "returned")
    /\ UNCHANGED <<venv, job, script, fresh, watch, lastRun, edits>>

\* trigger.wait() and trigger.clear(), then the next run.
Rerun ==
    /\ At("waiting")
    /\ watch.trigger
    /\ watch' = [watch EXCEPT !.trigger = FALSE]
    /\ cmd' = Command(cmd.fix, TRUE)
    /\ UNCHANGED <<venv, job, script, fresh, lastRun, edits>>

\* _schedule_fire: an edit that is observed restarts the debounce timer.
UserEdits ==
    /\ edits < MaxEdits
    /\ ~(cmd.pc \in {"returned", "raised"})
    /\ \E s \in Scripts \ {script} : script' = s
    /\ fresh' = FALSE
    /\ watch' = [watch EXCEPT !.timer = watch.on]
    /\ edits' = edits + 1
    /\ UNCHANGED <<venv, job, lastRun, cmd>>

_fire ==
    /\ watch.timer
    /\ watch' = [watch EXCEPT !.timer = FALSE, !.trigger = TRUE]
    /\ UNCHANGED <<venv, job, script, fresh, lastRun, cmd, edits>>

\* Ctrl-C.  The recovery loop turns it into an outcome, which the watch loop
\* survives.  The script, in a group of its own, does not see it.
Interrupt ==
    /\ cmd.pc \notin {"end", "returned", "raised"}
    /\ cmd' = IF cmd.fix /\ cmd.pc # "waiting" THEN Ends("aborted")
              ELSE [cmd EXCEPT !.pc = "returned", !.outcome = "aborted"]
    /\ UNCHANGED <<venv, job, script, fresh, watch, lastRun, edits>>

CommandStep ==
    \/ StartRun \/ Execute \/ SpawnScript \/ SpawnRefused
    \/ TailLogs \/ TailStatus \/ record_pipeline_run
    \/ Result \/ Diagnose \/ Finish \/ Rerun

\* The daemon threads die with the command.
Threads == \E r \in DOMAIN job : /\ ~(cmd.pc \in {"returned", "raised"})
                                 /\ ThreadStep(r)
                                 /\ UNCHANGED <<venv, script, fresh, watch, lastRun, cmd, edits>>
\* What the script does once they are gone is nobody's concern.
ScriptRuns == \E r \in DOMAIN job : /\ ~(cmd.pc \in {"returned", "raised"})
                                    /\ ScriptStep(r)
                                    /\ UNCHANGED <<venv, script, fresh, watch, lastRun, cmd, edits>>

ElRunNext == CommandStep \/ Interrupt \/ AgentEdits \/ UserEdits \/ _fire \/ Threads \/ ScriptRuns
ElRunSpec == ElRunInit /\ [][ElRunNext]_elVars

-----------------------------------------------------------------------------
\* Every variable of carve el run has its type.
ElRunTypeOK ==
    /\ VenvTypeOK
    /\ script \in Scripts /\ fresh \in BOOLEAN /\ edits \in 0..MaxEdits
    /\ watch \in [on : BOOLEAN, timer : BOOLEAN, trigger : BOOLEAN]
    /\ lastRun \in [run : 0..MaxJobs, status : Terminal \cup {"none"}]
    /\ cmd.run \in 0..Len(job)

\* The retries of a failure form a chain within the budget: each run that has a
\* parent retries a run that ended without success, and no run is retried twice
\* (parent_run_id, max_attempts).
RetryChain ==
    /\ cmd.attempt <= MaxAttempts
    /\ \A r \in DOMAIN job :
          job[r].parent # 0 =>
              /\ job[job[r].parent].status \in Terminal \ {"success"}
              /\ \A q \in DOMAIN job : job[q].parent = job[r].parent => q = r

\* A run is terminal only when everything its processes wrote is in the logs, but
\* for the lines that append_log failed on: no line of the script or of what it
\* forked is still on its way when the recovery agent reads them.
OutputInLogs ==
    \A r \in DOMAIN job :
        job[r].status \in Terminal => job[r].logs + job[r].unlogged = job[r].written

\* What the run rows tell: RetryChain and OutputInLogs.
RunsRecorded == RetryChain /\ OutputInLogs

\* The loop waits with nothing pending, and nobody interrupted the run before.
Idle == At("waiting") /\ ~watch.timer /\ ~watch.trigger /\ cmd.outcome # "aborted"

\* The watch loop misses no edit of a directory it observes: while it is idle, the
\* last run looked at the directory after the last edit, whenever that came, the
\* recovery agent's own edits included.
NoEditMissed == Idle /\ watch.on => fresh

\* "--watch: Re-run on filesystem changes under the artifact directory."
EveryEditRuns == Idle => fresh

\* Two failures that recovery calls identical are the same failure.
SameErrorSameFailure ==
    cmd.outcome = "repeated_error" =>
        job[cmd.run].defect = job[cmd.failed].defect

\* The tail has printed every line of the log when it stops.
TailComplete == At("record") => cmd.seen = job[cmd.run].logs
=============================================================================
