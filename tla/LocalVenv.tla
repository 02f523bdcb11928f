----------------------------- MODULE LocalVenv ------------------------------
(***************************************************************************)
(* LocalVenvRunner (core/runners/local_venv.py): a script in a process     *)
(* group of its own, with the two daemon threads of its run, the one that  *)
(* copies its output into the logs and finalises the run, and the watchdog *)
(* that cancels it.                                                        *)
(*                                                                         *)
(* The script's output is a number of lines.  What it does with SIGTERM is *)
(* its own affair, and so is what the processes it forks do.               *)
(***************************************************************************)
EXTENDS Integers, Sequences

CONSTANTS
    MaxJobs,    \* bound on the runs
    MaxLines    \* bound on the lines of output of a run

ASSUME LocalVenvAssumption == MaxJobs \in Nat /\ MaxLines \in Nat

VARIABLES
    venv,       \* the cached environment of the requirements
    job         \* the runs, oldest first, each with its process and threads

Defects == {"none", "bug1", "bug2", "usage"}
Terminal == {"success", "failed", "cancelled"}
Job == [status : {"pending", "running"} \cup Terminal,
        error : {"", "signal", "code_1", "code_2", "bad_script"},
        parent : 0..MaxJobs,
        defect : Defects,                       \* of the script, when it started
        child : {"none", "alive", "exited"}, code : {-9, -15, 0, 1, 2},
        helper : BOOLEAN,                       \* a forked process holds the pipe
        pipe : 0..MaxLines, written : 0..MaxLines, logs : 0..MaxLines,
        unlogged : 0..MaxLines,                 \* lines that append_log failed on
        streamer : {"none", "reading", "final", "done"},
        watchdog : {"none", "armed", "waiting"}]

NewJob(parent) == [status |-> "pending", error |-> "", parent |-> parent, defect |-> "none",
                   child |-> "none", code |-> 0, helper |-> FALSE, pipe |-> 0, written |-> 0,
                   logs |-> 0, unlogged |-> 0, streamer |-> "none", watchdog |-> "none"]

Venvs == {"absent", "partial", "ready"}
VenvInit == venv \in {"absent", "partial"} /\ job = << >>

-----------------------------------------------------------------------------
(* execute.                                                                *)

\* An existing directory is trusted, whether or not pip finished in it.
_ensure_venv(ok) ==
    \/ ok /\ venv # "absent" /\ UNCHANGED venv
    \/ venv = "absent" /\ venv' = IF ok THEN "ready" ELSE "partial"

\* Popen, the row, and the two threads.  A script whose packages are missing
\* fails like one with a defect.
Spawn(r, defect) ==
    job' = [job EXCEPT ![r] = [@ EXCEPT
              !.status = "running", !.defect = IF venv = "partial" THEN "bug1" ELSE defect,
              !.child = "alive", !.streamer = "reading", !.watchdog = "armed"]]

-----------------------------------------------------------------------------
(* The script.                                                             *)

Dies(r, c) == [job[r] EXCEPT !.child = "exited", !.code = c]

ChildWrites(r) ==
    /\ job[r].child = "alive" \/ job[r].helper
    /\ job[r].written < MaxLines
    /\ job' = [job EXCEPT ![r].pipe = @ + 1, ![r].written = @ + 1]

ChildForks(r) ==
    /\ job[r].child = "alive"
    /\ ~job[r].helper
    /\ job' = [job EXCEPT ![r].helper = TRUE]

ExitCode(d) == CASE d = "none" -> 0 [] d = "usage" -> 2 [] OTHER -> 1
ChildExits(r) ==
    /\ job[r].child = "alive"
    /\ job' = [job EXCEPT ![r] = Dies(r, ExitCode(job[r].defect))]

HelperExits(r) ==
    /\ job[r].helper
    /\ job' = [job EXCEPT ![r].helper = FALSE]

-----------------------------------------------------------------------------
(* The threads.                                                            *)

\* One line of _stream_logs_to_repo.  When append_log fails, the line goes to
\* stderr and nowhere else, and the thread goes on.
StreamLine(r) ==
    /\ job[r].streamer = "reading"
    /\ job[r].pipe > 0
    /\ \/ job' = [job EXCEPT ![r].pipe = @ - 1, ![r].logs = @ + 1]
       \/ job' = [job EXCEPT ![r].pipe = @ - 1, ![r].unlogged = @ + 1]

\* End of file: nobody holds the pipe any more.  The run is no longer tracked.
StreamEnd(r) ==
    /\ job[r].streamer = "reading"
    /\ job[r].pipe = 0
    /\ job[r].child = "exited"
    /\ ~job[r].helper
    /\ job' = [job EXCEPT ![r].streamer = "final"]

Status(code) == CASE code = 0 -> "success" [] code < 0 -> "cancelled" [] OTHER -> "failed"
ErrorText(code) == CASE code = 0 -> "" [] code < 0 -> "signal"
                     [] code = 2 -> "code_2" [] OTHER -> "code_1"

\* The row may not be there to be written: the thread dies, and nobody else
\* finalises the run.
_finalize_run(r) ==
    /\ job[r].streamer = "final"
    /\ \/ job' = [job EXCEPT ![r].streamer = "done", ![r].watchdog = "none",
                             ![r].status = Status(job[r].code), ![r].error = ErrorText(job[r].code)]
       \/ job' = [job EXCEPT ![r].streamer = "done", ![r].watchdog = "none"]

\* The timeout of a script that is slow or hangs: nothing happens when the run
\* is no longer tracked or its own process is gone.  SIGTERM goes to the group:
\* the script dies, catches it and exits 0, or takes no notice; a helper dies
\* or not.
WatchdogFires(r) ==
    /\ job[r].watchdog = "armed"
    /\ job[r].streamer = "reading" /\ job[r].child = "alive"
    /\ \E gone \in {Dies(r, -15), Dies(r, 0), job[r]}, h \in BOOLEAN :
          job' = [job EXCEPT ![r] = [gone EXCEPT !.watchdog = "waiting",
                                                 !.helper = h /\ job[r].helper]]

\* The grace period is over.
WatchdogKills(r) ==
    /\ job[r].watchdog = "waiting"
    /\ job[r].child = "alive"
    /\ job' = [job EXCEPT ![r] = [Dies(r, -9) EXCEPT !.watchdog = "none", !.helper = FALSE]]

ThreadStep(r) ==
    \/ StreamLine(r) \/ StreamEnd(r) \/ _finalize_run(r)
    \/ WatchdogFires(r) \/ WatchdogKills(r)
ScriptStep(r) == ChildWrites(r) \/ ChildForks(r) \/ ChildExits(r) \/ HelperExits(r)

VenvTypeOK == venv \in Venvs /\ job \in Seq(Job) /\ Len(job) <= MaxJobs
=============================================================================
