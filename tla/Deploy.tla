------------------------------- MODULE Deploy -------------------------------
(***************************************************************************)
(* carve el deploy (cli/commands/el/deploy.py, core/deploy/): validation,  *)
(* pre-flight, confirmation, the git check, the DDL file applied statement *)
(* by statement, verification, and the recovery agent that three of these  *)
(* stages may call.  Several deploys of one pipeline may run at once, on   *)
(* several machines too: the layout is flat, so they share                 *)
(* el/<name>/snowflake.sql, and each has its own destination.              *)
(***************************************************************************)
EXTENDS Integers, Sequences, FiniteSets, SequencesExt

CONSTANTS
    Deploys,        \* the deploy commands, each to a destination of its own
    MaxFixAttempts, \* runner.auto_fix.max_attempts
    MaxStatements,  \* bound on the statements of snowflake.sql
    MaxAgentSteps,  \* bound on the agents' writes and statements
    InGit           \* the project is in a git repository

ASSUME DeployAssumption == MaxFixAttempts \in Nat /\ MaxStatements \in Nat

VARIABLES
    ddl,    \* snowflake.sql: its statements, or <<"absent">>
    dirty,  \* git status shows changes under el/<name>
    wh,     \* what the statements executed so far left in each destination
    dep,    \* the commands
    drun,   \* the runs table: deploys and their recovery children
    dlast,  \* pipelines.last_run_id, last_run_status
    agentSteps

deployVars == <<ddl, dirty, wh, dep, drun, dlast, agentSteps>>

Statements == {"table", "grant", "bad"}
Absent == <<"absent">>
DdlFiles == (UNION {[1..n -> Statements] : n \in 0..MaxStatements}) \cup {Absent}
Stages == {"preflight", "ddl_apply", "verify"}

DeployStatus == {"pending", "running", "success", "failed", "cancelled", "crashed"}
DeployTerminal == DeployStatus \ {"pending", "running"}

NewDeploy(yes, fix, tool) ==
    [pc |-> "start", yes |-> yes, fix |-> fix, tool |-> tool, agreed |-> yes, run |-> 0, child |-> 0,
     stage |-> "none", stmts |-> << >>, i |-> 1, ran |-> {}, attempts |-> 0, status |-> "none"]

\* tool: the deploy connection was there when the recovery handler was built.
DeployInit ==
    /\ ddl \in DdlFiles
    /\ dirty \in {FALSE, InGit}
    /\ wh = [d \in Deploys |-> {}]
    /\ \E yes, fix, tool \in BOOLEAN : dep = [d \in Deploys |-> NewDeploy(yes, fix, tool)]
    /\ drun = << >>
    /\ dlast = [run |-> 0, status |-> "none"]
    /\ agentSteps = 0

In(d, pc) == dep[d].pc = pc
Set(d, new) == dep' = [dep EXCEPT ![d] = new]
Move(d, pc) == Set(d, [dep[d] EXCEPT !.pc = pc])
\* _record_terminal_failure, the cancellation and the success: a terminal status
\* in one transaction and the pipeline's last run in the next.
Ending(d, status) == [dep[d] EXCEPT !.pc = "terminal", !.status = status]
End(d, status) == Set(d, Ending(d, status))
Row(parent) == [parent |-> parent, status |-> "pending"]

-----------------------------------------------------------------------------
(* The phases.                                                             *)

\* Names, targets, connections, main.py and the build are checked before the
\* run row exists.
run_deploy(d) ==
    /\ In(d, "start")
    /\ \/ Move(d, "refused") /\ UNCHANGED drun
       \/ /\ drun' = Append(drun, Row(0))
          /\ Set(d, [dep[d] EXCEPT !.pc = "created", !.run = Len(drun) + 1])
    /\ UNCHANGED <<ddl, dirty, wh, dlast, agentSteps>>

SetDeployRunning(d) ==
    /\ In(d, "created")
    /\ drun' = [drun EXCEPT ![dep[d].run].status = "running"]
    /\ Move(d, "preflight")
    /\ UNCHANGED <<ddl, dirty, wh, dlast, agentSteps>>

\* A failure that the recovery agent may look at.
_maybe_recover(d, stage) ==
    IF dep[d].fix THEN [dep[d] EXCEPT !.pc = "recover", !.stage = stage] ELSE Ending(d, "failed")

\* No connection, no drift, or drift, which the agent explains once; pre-flight
\* does not run again.
run_preflight(d) ==
    /\ In(d, "preflight")
    /\ \E next \in {Ending(d, "failed"), [dep[d] EXCEPT !.pc = "confirm"],
                    _maybe_recover(d, "preflight")} : Set(d, next)
    /\ UNCHANGED <<ddl, dirty, wh, drun, dlast, agentSteps>>

Confirm(d) ==
    /\ In(d, "confirm")
    /\ \/ Set(d, [dep[d] EXCEPT !.pc = "copy", !.agreed = TRUE])
       \/ ~dep[d].yes /\ End(d, "cancelled")
    /\ UNCHANGED <<ddl, dirty, wh, drun, dlast, agentSteps>>

\* copy_artifact and copy_ddl_file copy nothing, source and destination being
\* the same; a symlink, a missing directory or uncommitted changes end it.
copy_artifact(d) ==
    /\ In(d, "copy")
    /\ \/ End(d, "failed")
       \/ ~dirty /\ Set(d, [dep[d] EXCEPT !.pc = IF ddl = Absent THEN "runtime" ELSE "apply"])
    /\ UNCHANGED <<ddl, dirty, wh, drun, dlast, agentSteps>>

\* One more attempt of a phase, or the end of its budget.
Retry(d, stage) ==
    IF dep[d].attempts < MaxFixAttempts
    THEN [_maybe_recover(d, stage) EXCEPT !.attempts = dep[d].attempts + 1]
    ELSE Ending(d, "failed")

\* In the verify phase a failed re-apply is final.
DdlFailed(d, index) ==
    IF dep[d].stage = "verify" THEN Ending(d, "failed")
    ELSE [Retry(d, "ddl_apply") EXCEPT !.i = index]
DdlDone(d) == IF dep[d].stage = "verify" THEN "verify" ELSE "runtime"

_classify_statement(s) == IF s = "bad" THEN "forbidden" ELSE "allowed"
\* Mutant: a file that was classified once is not classified again on a retry.
validate_ddl_statements_once(statements, start) ==
    start > 1 \/ \A k \in DOMAIN statements : _classify_statement(statements[k]) = "allowed"
validate_ddl_statements(statements, start) ==
    \A k \in DOMAIN statements : _classify_statement(statements[k]) = "allowed"

\* The file is read, all of it is classified, and the statements from the start
\* index on run; an index past the end is a success.
apply_ddl(d) ==
    /\ In(d, "apply")
    /\ Set(d, CASE ddl = Absent -> DdlFailed(d, 1)
                [] ddl # Absent /\ ~validate_ddl_statements(ddl, dep[d].i) -> Ending(d, "failed")
                [] OTHER -> [dep[d] EXCEPT !.pc = "execute", !.stmts = ddl])
    /\ UNCHANGED <<ddl, dirty, wh, drun, dlast, agentSteps>>

ExecuteStatement(d) ==
    /\ In(d, "execute")
    /\ IF dep[d].i > Len(dep[d].stmts)
       THEN Set(d, [dep[d] EXCEPT !.pc = DdlDone(d), !.i = 1]) /\ UNCHANGED wh
       ELSE LET s == dep[d].stmts[dep[d].i] IN
            \/ /\ wh' = [wh EXCEPT ![d] = @ \cup {s}]
               /\ Set(d, [dep[d] EXCEPT !.i = @ + 1, !.ran = @ \cup {s}])
            \/ Set(d, DdlFailed(d, dep[d].i)) /\ UNCHANGED wh
    /\ UNCHANGED <<ddl, dirty, drun, dlast, agentSteps>>

RuntimeConnection(d) ==
    /\ In(d, "runtime")
    /\ \/ End(d, "failed")
       \/ Set(d, [dep[d] EXCEPT !.pc = "verify", !.stage = "none", !.attempts = 0])
    /\ UNCHANGED <<ddl, dirty, wh, drun, dlast, agentSteps>>

\* The table with its columns, the grants of the runtime role, and the smoke
\* test, which may fail on its own.
Verified(d) == {"table", "grant"} \subseteq wh[d]
run_verify(d) ==
    /\ In(d, "verify")
    /\ \/ Verified(d) /\ End(d, "success")
       \/ Set(d, Retry(d, "verify"))
    /\ UNCHANGED <<ddl, dirty, wh, drun, dlast, agentSteps>>

-----------------------------------------------------------------------------
(* The recovery agent.                                                     *)

\* The child row is best effort.
StartRecovery(d) ==
    /\ In(d, "recover")
    /\ \/ /\ drun' = Append(drun, [Row(dep[d].run) EXCEPT !.status = "running"])
          /\ Set(d, [dep[d] EXCEPT !.pc = "agent", !.child = Len(drun) + 1])
       \/ Set(d, [dep[d] EXCEPT !.pc = "agent", !.child = 0]) /\ UNCHANGED drun
    /\ UNCHANGED <<ddl, dirty, wh, dlast, agentSteps>>

\* Pre-flight gives the agent neither a file to write nor the DDL tool.
_allowed_tools(d) ==
    IF dep[d].stage = "preflight" THEN {}
    ELSE {"write_file"} \cup (IF dep[d].tool THEN {"run_snowflake_ddl"} ELSE {})

AgentWritesDdl(d) ==
    /\ In(d, "agent")
    /\ "write_file" \in _allowed_tools(d)
    /\ agentSteps < MaxAgentSteps
    /\ ddl' \in DdlFiles \ {ddl, Absent}
    /\ dirty' = InGit
    /\ agentSteps' = agentSteps + 1
    /\ UNCHANGED <<wh, dep, drun, dlast>>

run_snowflake_ddl(d) ==
    /\ In(d, "agent")
    /\ "run_snowflake_ddl" \in _allowed_tools(d)
    /\ agentSteps < MaxAgentSteps
    /\ \E s \in Statements :
          /\ _classify_statement(s) = "allowed"
          /\ wh' = [wh EXCEPT ![d] = @ \cup {s}]
    /\ agentSteps' = agentSteps + 1
    /\ UNCHANGED <<ddl, dirty, dep, drun, dlast>>

\* Where a fix leads: the failing statement again, or the file from its start.
\* Mutant: a fix at the verify stage is taken for a verified destination.
AfterFix_trusts(d) ==
    CASE dep[d].stage = "preflight" -> [dep[d] EXCEPT !.pc = "confirm"]
      [] dep[d].stage = "ddl_apply" -> [dep[d] EXCEPT !.pc = "apply"]
      [] dep[d].stage = "verify"    -> Ending(d, "success")
AfterFix(d) ==
    CASE dep[d].stage = "preflight" -> [dep[d] EXCEPT !.pc = "confirm"]
      [] dep[d].stage = "ddl_apply" -> [dep[d] EXCEPT !.pc = "apply"]
      [] dep[d].stage = "verify"    -> [dep[d] EXCEPT !.pc = "apply", !.i = 1]

attempt(d) ==
    /\ In(d, "agent")
    /\ \E fixed \in BOOLEAN :
          /\ drun' = IF dep[d].child = 0 THEN drun
                     ELSE [drun EXCEPT ![dep[d].child].status = IF fixed THEN "success" ELSE "failed"]
          /\ Set(d, [(IF fixed THEN AfterFix(d) ELSE Ending(d, "failed")) EXCEPT !.child = 0])
    /\ UNCHANGED <<ddl, dirty, wh, dlast, agentSteps>>

-----------------------------------------------------------------------------
(* The end.                                                                *)

\* update_run_status.
EndRow(d) ==
    /\ In(d, "terminal")
    /\ drun' = [drun EXCEPT ![dep[d].run].status = dep[d].status]
    /\ Move(d, "record")
    /\ UNCHANGED <<ddl, dirty, wh, dlast, agentSteps>>

\* record_pipeline_run.
RecordRun(d) ==
    /\ In(d, "record")
    /\ dlast' = [run |-> dep[d].run, status |-> dep[d].status]
    /\ Move(d, "returned")
    /\ UNCHANGED <<ddl, dirty, wh, drun, agentSteps>>

\* Any exception inside the phases, the agent's own included: the run is crashed,
\* whatever its status was.  Before the try block, or in the handler, it escapes.
InTry == {"preflight", "confirm", "copy", "apply", "execute", "runtime", "verify", "recover",
          "agent", "terminal", "record"}
RaiseInDeploy(d) ==
    /\ \/ /\ dep[d].pc \in InTry
          /\ dep[d].status # "crashed"
          /\ End(d, "crashed")
       \/ /\ \/ In(d, "created")
             \/ dep[d].pc \in {"terminal", "record"} /\ dep[d].status = "crashed"
          /\ Move(d, "raised")
    /\ UNCHANGED <<ddl, dirty, wh, drun, dlast, agentSteps>>

\* The recovery agent of a deploy elsewhere rewrites the shared file.
OtherDeployWrites ==
    /\ agentSteps < MaxAgentSteps
    /\ ddl' \in DdlFiles \ {ddl, Absent}
    /\ dirty' = InGit
    /\ agentSteps' = agentSteps + 1
    /\ UNCHANGED <<wh, dep, drun, dlast>>

\* Someone commits, so that a later deploy may pass the git check.
Commit ==
    /\ dirty
    /\ dirty' = FALSE
    /\ UNCHANGED <<ddl, wh, dep, drun, dlast, agentSteps>>

DeployStep(d) ==
    \/ run_deploy(d) \/ SetDeployRunning(d) \/ run_preflight(d) \/ Confirm(d) \/ copy_artifact(d)
    \/ apply_ddl(d) \/ ExecuteStatement(d) \/ RuntimeConnection(d) \/ run_verify(d)
    \/ StartRecovery(d) \/ AgentWritesDdl(d) \/ run_snowflake_ddl(d) \/ attempt(d)
    \/ EndRow(d) \/ RecordRun(d) \/ RaiseInDeploy(d)

DeployNext == Commit \/ OtherDeployWrites \/ \E d \in Deploys : DeployStep(d)
DeploySpec == DeployInit /\ [][DeployNext]_deployVars

-----------------------------------------------------------------------------
\* A run is recorded as a success only if the destination passed verification:
\* whatever failed, was retried or was patched by an agent on the way, the table
\* and the grants are there (_verify_with_recovery verifies again after a fix).
SuccessIsVerified ==
    \A d \in Deploys : In(d, "returned") /\ dep[d].status = "success" => Verified(d)

\* No forbidden statement ever runs in a destination, although the recovery
\* agents of this and of other deploys rewrite the file between two attempts
\* (apply_ddl classifies the text that it is about to run).
OnlySafeDdl == \A d \in Deploys : "bad" \notin wh[d]

\* Nothing is executed in a destination before its user agreed (--yes: "Skip the
\* confirmation prompt before any writes").
ConsentFirst == \A d \in Deploys : wh[d] # {} => dep[d].agreed

\* What a deploy executes: OnlySafeDdl and ConsentFirst.
SafeDdl == OnlySafeDdl /\ ConsentFirst

\* When the DDL phase has succeeded, every statement of the file it read last has
\* been executed.
EveryStatementRan ==
    \A d \in Deploys : In(d, "runtime") => ToSet(dep[d].stmts) \subseteq dep[d].ran

\* A deploy that returned leaves no recovery child running.
ChildrenSettled ==
    \A d \in Deploys : In(d, "returned") =>
        \A r \in DOMAIN drun : drun[r].parent = dep[d].run /\ dep[d].run # 0 =>
            drun[r].status \in DeployTerminal
=============================================================================
