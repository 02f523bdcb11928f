----------------------------- MODULE Authoring ------------------------------
(***************************************************************************)
(* carve plan, carve build and carve plan-and-build: the planner, the      *)
(* routed engines, the builder and its review gate, several commands at a  *)
(* time over one project (cli/orchestrator/planner.py and builder.py).     *)
(*                                                                         *)
(* A command is one step per transaction of the state store, per agent and *)
(* per reviewer.  What an agent answers is any answer.  A pipeline's files *)
(* are their last writer and a modification time; they are written in      *)
(* place, by the agent's tools, long before a Build row exists.            *)
(***************************************************************************)
EXTENDS Naturals, Sequences, FiniteSets

CONSTANTS
    Procs,      \* the commands that may run at the same time
    Pipelines,  \* the valid pipeline names
    SubGoals,   \* the decompositions of a goal: sequences of engines
    MaxPlanners,\* bound on the planners at work at the same time
    MaxPlans,   \* bound on the rows of plans
    MaxRuns,    \* bound on the build runs
    MaxTrouble  \* bound on what disturbs the commands, each kind once

Engines == {"dlt", "dbt", "other"}

ASSUME AuthoringAssumption ==
    /\ IsFiniteSet(Procs)
    /\ SubGoals \subseteq Seq(Engines) \ {<< >>}
    /\ {MaxPlanners, MaxPlans, MaxRuns, MaxTrouble} \subseteq Nat
    /\ "none" \notin Pipelines

VARIABLES
    config,     \* the hash of the current carve.toml
    plan,       \* the plans table
    pipeline,   \* the pipelines table: current_build_id, 0 for none
    builds,     \* the builds table
    runs,       \* the runs table
    files,      \* el/<name>/: who wrote it last, and when
    proc,       \* the commands
    trouble     \* what has disturbed them

tables == <<plan, pipeline, builds, runs>>
authoringVars == <<config, tables, files, proc, trouble>>

Plans == 1..MaxPlans
Names == Pipelines \cup {"none"}
PlanRow == [phase : {"absent", "drafted", "built"}, engines : SubGoals \cup {<< >>},
            name : Names, pipeline : Names,
            config : 0..1, expired : BOOLEAN]
PipelineRow == [exists : BOOLEAN, current : 0..MaxRuns]
Build == [plan : Plans, pipeline : Pipelines, run : 1..MaxRuns, listed : BOOLEAN]
BuildRun == [plan : Plans, pipeline : Names, blocked : BOOLEAN,
             status : {"pending", "running", "success", "failed"}]
Files == [by : 0..MaxRuns, at : Nat]

NoPlan == [phase |-> "absent", engines |-> << >>, name |-> "none", pipeline |-> "none",
           config |-> 0, expired |-> FALSE]
\* A command between two invocations.
Idle == [pc |-> "idle", auto |-> FALSE, config |-> 0, plan |-> 0,
         target |-> "none", force |-> FALSE, engines |-> << >>, i |-> 1, ok |-> TRUE,
         name |-> "none", run |-> 0, snapshot |-> 0, build |-> 0]

AuthoringInit ==
    /\ config = 0
    /\ plan = [k \in Plans |-> NoPlan]
    /\ pipeline = [n \in Pipelines |-> [exists |-> FALSE, current |-> 0]]
    /\ builds = << >>
    /\ runs = << >>
    /\ files = [n \in Pipelines |-> [by |-> 0, at |-> 0]]
    /\ proc = [p \in Procs |-> Idle]
    /\ trouble = {}

At(p, pc) == proc[p].pc = pc
Goto(p, pc) == proc' = [proc EXCEPT ![p].pc = pc]
\* The command returns; its exit code is left out.
Exit(p) == proc' = [proc EXCEPT ![p] = Idle]

\* The commands that may still need a plan's row, or a run's: the bounds count them.
Planning == Cardinality({p \in Procs : proc[p].pc \in {"decompose", "design", "plan", "save"}})
Building == Cardinality({p \in Procs : proc[p].pc \in {"gate", "create"} \/ proc[p].auto})

-----------------------------------------------------------------------------
(* The repository.                                                         *)

create_run(k) ==
    runs' = Append(runs, [plan |-> k, pipeline |-> "none", blocked |-> FALSE,
                          status |-> "pending"])
update_run_status(r, s) == runs' = [runs EXCEPT ![r].status = s]
attach_pipeline_to_run(r, n) == runs' = [runs EXCEPT ![r].pipeline = n]
save_plan(k, row) == plan' = [plan EXCEPT ![k] = row]
create_or_update_pipeline(n) == pipeline' = [pipeline EXCEPT ![n].exists = TRUE]
create_build(k, n, r, listed) ==
    builds' = Append(builds, [plan |-> k, pipeline |-> n, run |-> r, listed |-> listed])
set_pipeline_current_build(n, b) == pipeline' = [pipeline EXCEPT ![n].current = b]
mark_plan_built(k, n) ==
    plan' = [plan EXCEPT ![k].phase = "built", ![k].pipeline = n]

-----------------------------------------------------------------------------
(* generate_plan.                                                          *)

\* A refused parent or pipeline costs no agent.  Only a fresh goal is routed.
\* parent_plan_id is recorded and decides nothing more.
StartPlan(p, parent, target, auto) ==
    /\ At(p, "idle")
    /\ Planning < MaxPlanners
    /\ Planning < Cardinality({k \in Plans : plan[k].phase = "absent"})
    /\ auto => Building < MaxRuns - Len(runs)
    /\ IF \/ parent # 0 /\ plan[parent].phase # "drafted"
          \/ target # "none" /\ ~pipeline[target].exists
       THEN Exit(p)
       ELSE proc' = [proc EXCEPT ![p] =
                       [Idle EXCEPT
                          !.pc = IF parent = 0 /\ target = "none" THEN "decompose" ELSE "plan",
                          !.auto = auto, !.config = config, !.target = target]]
    /\ UNCHANGED <<config, tables, files, trouble>>

\* carve plan, with --refine or with --pipeline or with neither.
PlanCommand(p) ==
    \E parent \in 0..MaxPlans, target \in Names :
        /\ parent = 0 \/ target = "none"
        /\ StartPlan(p, parent, target, FALSE)

\* carve plan-and-build: one configuration for both halves.
PlanAndBuild(p) == StartPlan(p, 0, "none", TRUE)

\* decompose_goal: a goal that does not decompose into known engines falls back
\* to the single plan agent.
Decompose(p) ==
    /\ At(p, "decompose")
    /\ \/ \E s \in SubGoals :
             proc' = [proc EXCEPT ![p].engines = s, ![p].pc = "design"]
       \/ Goto(p, "plan")
    /\ UNCHANGED <<config, tables, files, trouble>>

\* One engine of run_engines, in order, at PLAN mode: it writes nothing.  The
\* engines after one that did not succeed still run; the plan then falls back,
\* as it does at once when no agent matches.
Fallback(p) == proc' = [proc EXCEPT ![p].pc = "plan", ![p].engines = << >>, ![p].i = 1,
                                    ![p].ok = TRUE]
_delegate_engine(p) ==
    \E ok \in BOOLEAN : proc' = [proc EXCEPT ![p].i = @ + 1, ![p].ok = @ /\ ok]
\* The designs merge into one plan that lists its engines in order, under the
\* first engine's name or one derived from the goal.
_artifact_from_delegations(p) ==
    \E n \in Pipelines : proc' = [proc EXCEPT ![p].name = n, ![p].pc = "save"]
Design(p) ==
    /\ At(p, "design")
    /\ IF proc[p].i <= Len(proc[p].engines) THEN _delegate_engine(p) \/ Fallback(p)
       ELSE IF ~proc[p].ok THEN Fallback(p)
       ELSE _artifact_from_delegations(p)
    /\ UNCHANGED <<config, tables, files, trouble>>

_validate_pipeline_name(n, target) == target \in {"none", n}

\* The single plan agent: it submits a design, or the command fails.
PlanAgent(p) ==
    /\ At(p, "plan")
    /\ \/ \E n \in Pipelines :
             /\ _validate_pipeline_name(n, proc[p].target)
             /\ proc' = [proc EXCEPT ![p].name = n, ![p].pc = "save"]
       \/ Exit(p)
    /\ UNCHANGED <<config, tables, files, trouble>>

\* _persist_artifact.  The row's pipeline is the one the plan modifies; a fresh
\* plan keeps its name in the design until it is built.
SavePlan(p) ==
    LET k == Cardinality({j \in Plans : plan[j].phase # "absent"}) + 1 IN
    /\ At(p, "save")
    /\ save_plan(k, [phase |-> "drafted", engines |-> proc[p].engines,
                     name |-> proc[p].name, pipeline |-> proc[p].target,
                     config |-> proc[p].config, expired |-> FALSE])
    /\ IF proc[p].auto
       THEN proc' = [proc EXCEPT ![p] = [Idle EXCEPT
                       !.pc = "gate", !.config = proc[p].config, !.plan = k]]
       ELSE Exit(p)
    /\ UNCHANGED <<config, pipeline, builds, runs, files, trouble>>

-----------------------------------------------------------------------------
(* build_plan.                                                             *)

\* carve build, past its destination prompt.
StartBuild(p, k, force) ==
    /\ At(p, "idle")
    /\ plan[k].phase # "absent"
    /\ Building < MaxRuns - Len(runs)
    /\ proc' = [proc EXCEPT ![p] = [Idle EXCEPT
                  !.pc = "gate", !.config = config, !.plan = k, !.force = force]]
    /\ UNCHANGED <<config, tables, files, trouble>>

_idempotent_noop_artifact(k) ==
    LET n == plan[k].pipeline
        b == pipeline[n].current
    IN  n # "none" /\ b # 0 /\ builds[b].plan = k /\ builds[b].listed /\ files[n].by # 0

\* The gates, in the order of the code: drift and expiry hold for --force too.
GateAnswer(p) ==
    LET k == proc[p].plan IN
    IF plan[k].config # proc[p].config THEN "drift"
    ELSE IF plan[k].expired THEN "expired"
    ELSE IF plan[k].phase = "built" /\ ~proc[p].force /\ _idempotent_noop_artifact(k) THEN "noop"
    ELSE IF plan[k].phase # "drafted" /\ ~proc[p].force THEN "refused"
    ELSE "build"

_pipeline_name_from(k) == IF plan[k].pipeline # "none" THEN plan[k].pipeline ELSE plan[k].name
\* Only a routed plan has sub-goals to rebuild.
_reconstruct_sub_goals(k) == plan[k].engines

Gate(p) ==
    /\ At(p, "gate")
    /\ IF GateAnswer(p) # "build" THEN Exit(p)
       ELSE LET k == proc[p].plan IN
            proc' = [proc EXCEPT ![p] = [Idle EXCEPT
                       !.pc = "create", !.plan = k, !.name = _pipeline_name_from(k),
                       !.engines = _reconstruct_sub_goals(k)]]
    /\ UNCHANGED <<config, tables, files, trouble>>

\* The snapshot of the pipeline's directory comes before the run's row.
CreateRun(p) ==
    /\ At(p, "create")
    /\ create_run(proc[p].plan)
    /\ proc' = [proc EXCEPT ![p].pc = "start", ![p].run = Len(runs) + 1,
                            ![p].snapshot = files[proc[p].name].at]
    /\ UNCHANGED <<config, plan, pipeline, builds, files, trouble>>

\* The hooks are parsed next (a hook that does not parse: see Die).
SetRunning(p) ==
    /\ At(p, "start")
    /\ update_run_status(proc[p].run, "running")
    /\ Goto(p, IF proc[p].engines = << >> THEN "agent" ELSE "engines")
    /\ UNCHANGED <<config, plan, pipeline, builds, files, trouble>>

Wrote(p) == files' = [files EXCEPT ![proc[p].name] = [by |-> proc[p].run, at |-> @.at + 1]]

\* The single build agent: it may write main.py once or not at all, and it may
\* raise.
AgentWrites(p) ==
    /\ At(p, "agent")
    /\ proc[p].i = 1
    /\ Wrote(p)
    /\ proc' = [proc EXCEPT ![p].i = 2]
    /\ UNCHANGED <<config, tables, trouble>>

_changed_files(n, snapshot) == files[n].by # 0 /\ files[n].at > snapshot

\* It ends: without a changed main.py the run failed; otherwise requirements.txt
\* is completed and destination.toml written beside it.
AgentEnds(p) ==
    /\ At(p, "agent")
    /\ \/ Goto(p, IF _changed_files(proc[p].name, proc[p].snapshot) THEN "pipeline" ELSE "fail")
       \/ Goto(p, "fail")
    /\ UNCHANGED <<config, tables, files, trouble>>

-----------------------------------------------------------------------------
(* _build_multi_engine.                                                    *)

\* One engineer of run_engines at BUILD mode: it may write, it may raise, and
\* the engineers after one that did not succeed still run.
Engineer(p) ==
    /\ At(p, "engines")
    /\ IF proc[p].i <= Len(proc[p].engines)
       THEN \/ /\ _delegate_engine(p)
               /\ Wrote(p) \/ UNCHANGED files
            \/ Goto(p, "fail") /\ UNCHANGED files
       ELSE /\ proc' = [proc EXCEPT ![p].i = 1, ![p].pc = IF proc[p].ok THEN "review" ELSE "fail"]
            /\ UNCHANGED files
    /\ UNCHANGED <<config, tables, trouble>>

ReviewersOf(e) == CASE e = "dlt" -> {"dlt_qa", "dlt_security"}
                    [] e = "dbt" -> {"dbt_qa"}
                    [] OTHER -> {}
\* An engine without reviewers ships unreviewed, with a warning.
select_reviewer_sequence(engines) == UNION {ReviewersOf(engines[i]) : i \in DOMAIN engines}

\* Mutant: the gate takes the word of the last reviewer.
Verdict_last(before, finding) == finding # "blocking"
\* review_fan_out passes if no reviewer has a blocker or a major finding.
Verdict(before, finding) == before /\ finding # "blocking"

\* What one reviewer's findings amount to; a payload that does not parse raises.
_parse_findings == {"none", "minor", "blocking", "raises"}

\* One reviewer of run_review_fan_out.
Review(p) ==
    /\ At(p, "review")
    /\ IF proc[p].i <= Cardinality(select_reviewer_sequence(proc[p].engines))
       THEN \E finding \in _parse_findings :
               IF finding = "raises" THEN Goto(p, "fail") /\ UNCHANGED runs
               ELSE /\ proc' = [proc EXCEPT ![p].i = @ + 1, ![p].ok = Verdict(@, finding)]
                    /\ runs' = [runs EXCEPT ![proc[p].run].blocked = @ \/ finding = "blocking"]
       ELSE /\ Goto(p, IF proc[p].ok THEN "pipeline" ELSE "fail")
            /\ UNCHANGED runs
    /\ UNCHANGED <<config, plan, pipeline, builds, files, trouble>>

-----------------------------------------------------------------------------
(* Persistence, the same transactions in the same order on both paths.     *)

PersistPipeline(p) ==
    /\ At(p, "pipeline")
    /\ create_or_update_pipeline(proc[p].name)
    /\ Goto(p, "attach")
    /\ UNCHANGED <<config, plan, builds, runs, files, trouble>>

\* Mutant: the plan is marked before the Build exists.
PersistAttach_marks(p) ==
    /\ At(p, "attach")
    /\ attach_pipeline_to_run(proc[p].run, proc[p].name)
    /\ mark_plan_built(proc[p].plan, proc[p].name)
    /\ Goto(p, "build")
    /\ UNCHANGED <<config, pipeline, builds, files, trouble>>
PersistAttach(p) ==
    /\ At(p, "attach")
    /\ attach_pipeline_to_run(proc[p].run, proc[p].name)
    /\ Goto(p, "build")
    /\ UNCHANGED <<config, plan, pipeline, builds, files, trouble>>

\* The manifest lists what changed (one agent), or what the engineers say they
\* changed, which may be nothing.
PersistBuild(p) ==
    /\ At(p, "build")
    /\ \E listed \in IF proc[p].engines = << >> THEN {TRUE} ELSE BOOLEAN :
          create_build(proc[p].plan, proc[p].name, proc[p].run, listed)
    /\ proc' = [proc EXCEPT ![p].build = Len(builds) + 1, ![p].pc = "current"]
    /\ UNCHANGED <<config, plan, pipeline, runs, files, trouble>>

PersistCurrent(p) ==
    /\ At(p, "current")
    /\ set_pipeline_current_build(proc[p].name, proc[p].build)
    /\ Goto(p, "mark")
    /\ UNCHANGED <<config, plan, builds, runs, files, trouble>>

PersistMark(p) ==
    /\ At(p, "mark")
    /\ mark_plan_built(proc[p].plan, proc[p].name)
    /\ Goto(p, "success")
    /\ UNCHANGED <<config, pipeline, builds, runs, files, trouble>>

\* _fire_post_build follows: its hook changes nothing here, and the Build stands
\* if it fails.
PersistSuccess(p) ==
    /\ At(p, "success")
    /\ update_run_status(proc[p].run, "success")
    /\ Exit(p)
    /\ UNCHANGED <<config, plan, pipeline, builds, files, trouble>>

Fail(p) ==
    /\ At(p, "fail")
    /\ update_run_status(proc[p].run, "failed")
    /\ Exit(p)
    /\ UNCHANGED <<config, plan, pipeline, builds, files, trouble>>

-----------------------------------------------------------------------------
(* What goes wrong, and what the user does meanwhile.                      *)

Persisting == {"pipeline", "attach", "build", "current", "mark", "success"}

Trouble == {"raised", "died", "edited", "expired", "deleted"}
Disturb(t) == /\ t \notin trouble
              /\ Cardinality(trouble) < MaxTrouble
              /\ trouble' = trouble \cup {t}

\* A transaction raises.  The multi-engine path fails its run; the single-agent
\* path has no handler there.
Raise(p) ==
    /\ Disturb("raised")
    /\ proc[p].pc \in Persisting
    /\ proc[p].engines # << >>
    /\ Goto(p, "fail")
    /\ UNCHANGED <<config, tables, files>>

\* The command dies where it is: it is killed, a hook does not parse, or a call
\* outside every handler raises.
Die(p) ==
    /\ Disturb("died")
    /\ proc[p].pc # "idle"
    /\ Exit(p)
    /\ UNCHANGED <<config, tables, files>>

EditConfig == /\ Disturb("edited")
              /\ config' = config + 1
              /\ UNCHANGED <<tables, files, proc>>

\* A day passes.
Expire(k) == /\ plan[k].phase # "absent"
             /\ Disturb("expired")
             /\ plan' = [plan EXCEPT ![k].expired = TRUE]
             /\ UNCHANGED <<config, pipeline, builds, runs, files, proc>>

DeleteFiles(n) == /\ files[n].by # 0
                  /\ Disturb("deleted")
                  /\ files' = [files EXCEPT ![n].by = 0]
                  /\ UNCHANGED <<config, tables, proc>>

CommandStep(p) ==
    \/ Decompose(p) \/ Design(p) \/ PlanAgent(p) \/ SavePlan(p)
    \/ Gate(p) \/ CreateRun(p) \/ SetRunning(p)
    \/ AgentWrites(p) \/ AgentEnds(p) \/ Engineer(p) \/ Review(p)
    \/ PersistPipeline(p) \/ PersistAttach(p) \/ PersistBuild(p) \/ PersistCurrent(p)
    \/ PersistMark(p) \/ PersistSuccess(p) \/ Fail(p)

AuthoringNext ==
    \/ \E p \in Procs : CommandStep(p) \/ PlanCommand(p) \/ PlanAndBuild(p) \/ Raise(p) \/ Die(p)
    \/ \E p \in Procs, k \in Plans, force \in BOOLEAN : StartBuild(p, k, force)
    \/ EditConfig
    \/ \E k \in Plans : Expire(k)
    \/ \E n \in Pipelines : DeleteFiles(n)

AuthoringSpec == AuthoringInit /\ [][AuthoringNext]_authoringVars

-----------------------------------------------------------------------------
\* Every variable of the authoring commands has its type, and a command that
\* persists names rows that exist.
AuthoringTypeOK ==
    /\ config \in 0..1 /\ trouble \in SUBSET Trouble
    /\ plan \in [Plans -> PlanRow]
    /\ pipeline \in [Pipelines -> PipelineRow]
    /\ \A b \in DOMAIN builds : builds[b] \in Build
    /\ \A r \in DOMAIN runs : runs[r] \in BuildRun
    /\ files \in [Pipelines -> Files]
    /\ \A p \in Procs : /\ proc[p].run \in 0..Len(runs)
                        /\ proc[p].pc \in Persisting \cup {"fail"} => proc[p].run # 0
                        /\ proc[p].pc \in {"current", "mark"} => proc[p].build \in DOMAIN builds

\* A run of kind build that says success has its Build, in the pipeline it names,
\* and its plan is built there, whatever other commands did in between.
SuccessIsBuilt ==
    \A r \in DOMAIN runs :
        runs[r].status = "success" =>
            /\ \E b \in DOMAIN builds : builds[b].run = r /\ builds[b].pipeline = runs[r].pipeline
            /\ plan[runs[r].plan].phase = "built"
            /\ plan[runs[r].plan].pipeline = runs[r].pipeline

\* The review gate: once a reviewer has blocked a run, no Build of it is ever
\* recorded.
BlockedNeverShips ==
    \A b \in DOMAIN builds : ~runs[builds[b].run].blocked

\* Unless it died, a command that has returned leaves its run settled, by every
\* early return and every raise of an agent or a reviewer.
NoOrphans ==
    "died" \notin trouble =>
        \A r \in DOMAIN runs :
            runs[r].status \in {"pending", "running"} => \E p \in Procs : proc[p].run = r

\* What a build command leaves behind: SuccessIsBuilt, BlockedNeverShips and NoOrphans.
BuildsSettle == SuccessIsBuilt /\ BlockedNeverShips /\ NoOrphans

\* The no-op rebuild is redundant: the files it vouches for are those of the
\* Build it names (_idempotent_noop_artifact).
NoopIsRedundant ==
    \A p \in Procs :
        At(p, "gate") /\ GateAnswer(p) = "noop" =>
            LET n == plan[proc[p].plan].pipeline
            IN  files[n].by = builds[pipeline[n].current].run

\* A gate failure is fail-closed: a run that failed left no Build behind.
FailClosed == \A b \in DOMAIN builds : runs[builds[b].run].status # "failed"

\* The tables keep the promises of the ledger.
Ledger == INSTANCE BuildLedger WITH
    LedgerPlans <- Plans,
    LedgerPipelines <- Pipelines,
    made <- [b \in DOMAIN builds |-> [plan |-> builds[b].plan, pipeline |-> builds[b].pipeline]],
    current <- [n \in Pipelines |-> pipeline[n].current],
    built <- {k \in Plans : plan[k].phase = "built"}

ImplementsLedger == Ledger!LedgerSpec
=============================================================================
