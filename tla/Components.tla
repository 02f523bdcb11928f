----------------------------- MODULE Components -----------------------------
(***************************************************************************)
(* Components and their graduation: where a name resolves                  *)
(* (integrations/component_locator.py, runtime/component_resolution.py),   *)
(* carve component, which moves one into its own repository and back       *)
(* (cli/commands/component), and the cached clone of a remote repository   *)
(* (integrations/workspace_cache.py), which people edit too.               *)
(*                                                                         *)
(* One dlt and one dbt component; the dbt steps of the pipelines, each in  *)
(* a file of its own, name their component or omit it.  One command runs   *)
(* at a time; people work in the workspace meanwhile.                      *)
(***************************************************************************)
EXTENDS Integers

CONSTANTS
    DbtSteps,   \* the dbt steps of the pipelines
    MaxEdits    \* bound on edits of a workspace

VARIABLES
    toml,        \* [components.<name>] in carve.toml
    repo,        \* the components in the control-plane tree
    workspace,   \* the clones in .carve/workspaces, one for each repository and pin
    stepOf,      \* component = ... of each dbt step
    graduation,  \* the command
    edits,       \* edits so far
    halfway,     \* how the last graduation of a component ended early
    passedOver,  \* the steps in files that the last back-fill could not read
    lost         \* edits and commits that a sync discarded

componentVars == <<toml, repo, workspace, stepOf, graduation, edits, halfway,
                   passedOver, lost>>

dlt == "orders"
dbt == "models"
ComponentNames == {dlt, dbt}
Clones == ComponentNames \X BOOLEAN   \* workspace_dirname: the repository, at a ref or on a branch
Omitted == "omitted"
NoBlock == [mode |-> "none", pin |-> FALSE]
NoClone == [exists |-> FALSE, dirty |-> FALSE, ahead |-> FALSE]
AtRest == [pc |-> "none", name |-> "none", pin |-> FALSE, todo |-> {}, result |-> "none"]
Complete == "no"

ComponentsInit ==
    /\ toml = [n \in ComponentNames |-> NoBlock]
    /\ repo \in {S \in SUBSET ComponentNames : dbt \in S}
    /\ workspace = [c \in Clones |-> NoClone]
    /\ stepOf \in [DbtSteps -> {Omitted, dbt}]
    /\ graduation = AtRest
    /\ edits = 0
    /\ halfway = [n \in ComponentNames |-> Complete]
    /\ passedOver = {}
    /\ lost = {}

-----------------------------------------------------------------------------
(* Resolution.                                                             *)

_detect_dbt_project == IF dbt \in repo THEN "repo" ELSE "error"
_resolve_convention(n) == IF n \in repo THEN "repo" ELSE "error"
\* A remote component resolves to its workspace, cloned or not.
_resolve_block(n) ==
    CASE toml[n].mode = "remote" -> "workspace"
      [] toml[n].mode = "local"  -> "local"
resolve_component(n) ==
    IF toml[n] # NoBlock THEN _resolve_block(n) ELSE _resolve_convention(n)
resolve_dbt_component(step) ==
    IF stepOf[step] = Omitted THEN _detect_dbt_project ELSE resolve_component(stepOf[step])

infer_component_type(n) == n \in repo

-----------------------------------------------------------------------------
(* carve component.                                                        *)

Goto(pc) == graduation' = [graduation EXCEPT !.pc = pc]
CommandEnds(result) == graduation' = [graduation EXCEPT !.pc = "none", !.result = result]

\* A component that convention does not find is refused, and so is one that
\* already has a block; the block is written first.
write_component_block(n, mode, pin) ==
    /\ graduation.pc = "none"
    /\ \/ /\ ~infer_component_type(n) \/ toml[n] # NoBlock
          /\ graduation' = [AtRest EXCEPT !.name = n, !.result = "refused"]
          /\ UNCHANGED <<toml, halfway>>
       \/ /\ infer_component_type(n) /\ toml[n] = NoBlock
          /\ toml' = [toml EXCEPT ![n] = [mode |-> mode, pin |-> pin]]
          /\ graduation' = [AtRest EXCEPT !.pc = IF mode = "remote" THEN "sync" ELSE "resolve",
                                          !.name = n, !.pin = pin]
          /\ halfway' = [halfway EXCEPT ![n] = Complete]
    /\ UNCHANGED <<repo, workspace, stepOf, edits, passedOver, lost>>

_graduate_remote(n) == \E pin \in BOOLEAN : write_component_block(n, "remote", pin)
_graduate_local(n) == write_component_block(n, "local", FALSE)

remove_component_block == [toml EXCEPT ![graduation.name] = NoBlock]

\* The path or the configuration is no good: the block is taken out again.
RollBack ==
    /\ graduation.pc \in {"clone", "fetch", "checkout", "reset", "resolve"}
    /\ toml' = remove_component_block
    /\ CommandEnds("rolled_back")
    /\ UNCHANGED <<repo, workspace, stepOf, edits, halfway, passedOver, lost>>

\* Only a dbt component is back-filled.
Resolved ==
    /\ graduation.pc = "resolve"
    /\ IF graduation.name = dbt
       THEN graduation' = [graduation EXCEPT !.pc = "backfill", !.todo = DbtSteps]
       ELSE CommandEnds("graduated")
    /\ UNCHANGED <<toml, repo, workspace, stepOf, edits, halfway, passedOver, lost>>

\* One file after the other: one that cannot be read or parsed is passed over and
\* nobody is told; a write that fails leaves the command.
\* Mutant: the loop returns with the first file that it fills.
backfill_dbt_step_components_one(s) ==
    /\ graduation.pc = "backfill" /\ s \in graduation.todo
    /\ \/ stepOf' = [stepOf EXCEPT ![s] = dbt] /\ passedOver' = passedOver \ {s}
       \/ UNCHANGED stepOf /\ passedOver' = passedOver \cup {s}
    /\ graduation' = [graduation EXCEPT !.todo = IF s \in passedOver' THEN @ \ {s} ELSE {}]
    /\ UNCHANGED <<toml, repo, workspace, edits, halfway, lost>>
backfill_dbt_step_components(s) ==
    /\ graduation.pc = "backfill" /\ s \in graduation.todo
    /\ \/ stepOf' = [stepOf EXCEPT ![s] = dbt] /\ passedOver' = passedOver \ {s}
       \/ UNCHANGED stepOf /\ passedOver' = passedOver \cup {s}
    /\ graduation' = [graduation EXCEPT !.todo = @ \ {s}]
    /\ UNCHANGED <<toml, repo, workspace, edits, halfway, lost>>

CutShort(why) ==
    /\ graduation.pc # "none"
    /\ halfway' = [halfway EXCEPT ![graduation.name] = why]
    /\ UNCHANGED <<toml, repo, workspace, stepOf, edits, passedOver, lost>>

WriteFails ==
    /\ graduation.pc = "backfill"
    /\ \E s \in graduation.todo : stepOf[s] = Omitted
    /\ CommandEnds("raised")
    /\ CutShort("raised")

_report_graduation ==
    /\ graduation.pc = "backfill" /\ graduation.todo = {}
    /\ CommandEnds("graduated")
    /\ UNCHANGED <<toml, repo, workspace, stepOf, edits, halfway, passedOver, lost>>

_reverse_graduation(n) ==
    /\ graduation.pc = "none"
    /\ IF toml[n] = NoBlock
       THEN graduation' = [AtRest EXCEPT !.name = n, !.result = "refused"] /\ UNCHANGED toml
       ELSE /\ toml' = [toml EXCEPT ![n] = NoBlock]
            /\ graduation' = [AtRest EXCEPT !.name = n, !.result = "reversed"]
    /\ UNCHANGED <<repo, workspace, stepOf, edits, halfway, passedOver, lost>>

-----------------------------------------------------------------------------
(* sync_workspace: every git command may fail, and RollBack follows.       *)

Cloned == <<graduation.name, graduation.pin>>
Clone == workspace[Cloned]
Sync(clone, pc) ==
    /\ workspace' = [workspace EXCEPT ![Cloned] = clone]
    /\ Goto(pc)
    /\ UNCHANGED <<toml, repo, stepOf, edits, halfway, passedOver>>

\* A directory without .git is cloned into.
sync_workspace ==
    /\ graduation.pc = "sync" /\ ~Clone.exists
    /\ Sync(Clone, "clone") /\ UNCHANGED lost

\* WorkspaceDirtyError is none of the errors that roll the block back.
reject_if_dirty ==
    /\ graduation.pc = "sync" /\ Clone.exists
    /\ \/ Clone.dirty /\ CommandEnds("raised") /\ CutShort("raised")
       \/ /\ ~Clone.dirty /\ Goto("fetch")
          /\ UNCHANGED <<toml, repo, workspace, stepOf, edits, halfway, passedOver, lost>>

\* A pin is checked out after the clone, and the clone stays if that fails.
_clone ==
    /\ graduation.pc = "clone"
    /\ Sync([NoClone EXCEPT !.exists = TRUE], IF graduation.pin THEN "checkout" ELSE "resolve")
    /\ UNCHANGED lost

Fetch ==
    /\ graduation.pc = "fetch"
    /\ Sync(Clone, "checkout") /\ UNCHANGED lost

\* git refuses to check out over an edit (RollBack), and reset discards what the
\* branch does not have.
Checkout ==
    /\ graduation.pc = "checkout" /\ ~Clone.dirty
    /\ Sync(Clone, IF graduation.pin THEN "resolve" ELSE "reset") /\ UNCHANGED lost

ResetHard ==
    /\ graduation.pc = "reset"
    /\ Sync([NoClone EXCEPT !.exists = TRUE], "resolve")
    /\ lost' = lost \cup (IF Clone.dirty THEN {"edit"} ELSE {})
                    \cup (IF Clone.ahead THEN {"commit"} ELSE {})

\* The command is interrupted.
Interrupted == graduation' = AtRest /\ CutShort("interrupted")

-----------------------------------------------------------------------------
(* People.                                                                 *)

EditWorkspace(c) ==
    /\ workspace[c].exists /\ edits < MaxEdits
    /\ edits' = edits + 1
    /\ workspace' = [workspace EXCEPT ![c].dirty = TRUE]
    /\ UNCHANGED <<toml, repo, stepOf, graduation, halfway, passedOver, lost>>

CommitWorkspace(c) ==
    /\ workspace[c].dirty
    /\ workspace' = [workspace EXCEPT ![c].dirty = FALSE, ![c].ahead = TRUE]
    /\ UNCHANGED <<toml, repo, stepOf, graduation, edits, halfway, passedOver, lost>>

DeleteWorkspace(c) ==
    /\ workspace[c].exists /\ toml[c[1]] = NoBlock
    /\ workspace' = [workspace EXCEPT ![c] = NoClone]
    /\ UNCHANGED <<toml, repo, stepOf, graduation, edits, halfway, passedOver, lost>>

ComponentsNext ==
    \/ RollBack \/ Resolved \/ WriteFails \/ _report_graduation \/ sync_workspace
    \/ reject_if_dirty \/ _clone \/ Fetch \/ Checkout \/ ResetHard \/ Interrupted
    \/ \E n \in ComponentNames :
          _graduate_remote(n) \/ _graduate_local(n) \/ _reverse_graduation(n)
    \/ \E s \in DbtSteps : backfill_dbt_step_components(s)
    \/ \E c \in Clones : EditWorkspace(c) \/ CommitWorkspace(c) \/ DeleteWorkspace(c)
ComponentsSpec == ComponentsInit /\ [][ComponentsNext]_componentVars

-----------------------------------------------------------------------------
\* Between commands a component in its own repository has its clone, and all dbt
\* steps use the same code, whichever git command failed on the way and however
\* often components were graduated and taken back: an interrupted graduation harms
\* its own component only, and only until that is taken back, and a file that could
\* not be read keeps its steps behind until a back-fill reads it.
GraduationSettles ==
    graduation.pc = "none" =>
      /\ \A n \in ComponentNames :
            toml[n].mode = "remote" /\ halfway[n] # "interrupted" => workspace[<<n, toml[n].pin>>].exists
      /\ toml[dbt] = NoBlock \/ halfway[dbt] = Complete =>
            \A s, t \in DbtSteps \ (IF toml[dbt] = NoBlock THEN {} ELSE passedOver) :
               resolve_dbt_component(s) = resolve_dbt_component(t)

\* pipelines.md: "Graduation backfills the omitted dbt-step component name".
GraduationBackfills ==
    graduation.result = "graduated" /\ graduation.name = dbt => \A s \in DbtSteps : stepOf[s] = dbt

\* "roll back the block on failure so a bad URL doesn't leave a half-graduated
\* carve.toml": a graduation that failed leaves no block.
FailureRollsBack ==
    graduation.result \in {"rolled_back", "raised"} => toml[graduation.name] = NoBlock

\* "refusing to sync (it would discard them)": a sync discards no work.
WorkKept == lost = {}
=============================================================================
