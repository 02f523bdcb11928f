------------------------------- MODULE Targets ------------------------------
(***************************************************************************)
(* The targets of a project: carve init and carve target create, rename    *)
(* and delete, over connections.toml, .env.example and carve.toml          *)
(* (core/targets, cli/commands/target, init), the loading of the           *)
(* configuration (core/config/loader.py) and the choice of the active      *)
(* target.                                                                 *)
(*                                                                         *)
(* A section of connections.toml refers to the environment variables of    *)
(* its target (placeholder) or holds values (literal); .env.example is how *)
(* many blocks of each target it has, in whatever order.  A command writes *)
(* one file at a time and may be interrupted; people edit the files        *)
(* between commands.                                                       *)
(***************************************************************************)
EXTENDS Integers

CONSTANTS
    TargetNames,   \* names that validate_target_name accepts
    MaxBlocks      \* bound on the blocks of one target in .env.example

VARIABLES
    conn,        \* the sections, in each configuration directory
    configDir,   \* [paths] config_dir in carve.toml
    default,     \* [project] default_target in carve.toml
    envExample,  \* the blocks of .env.example
    env,         \* the targets whose variables are set
    command,     \* the command that runs
    history      \* what happened to the default target

targetVars == <<conn, configDir, default, envExample, env, command, history>>

ConfigDirs == {"carve", "conf"}
NoCommand == [pc |-> "none", old |-> "none", new |-> "none"]
defined(dir) == {n \in TargetNames : conn[dir][n] # "absent"}

\* carve init: the section of the default target is written commented out, and
\* its block is in .env.example.
TargetsInit ==
    /\ configDir \in ConfigDirs
    /\ default \in TargetNames
    /\ conn = [d \in ConfigDirs |-> [n \in TargetNames |-> "absent"]]
    /\ envExample = [n \in TargetNames |-> IF n = default THEN 1 ELSE 0]
    /\ env = {}
    /\ command = NoCommand
    /\ history = [had |-> FALSE, unforced |-> FALSE, interrupted |-> FALSE]

-----------------------------------------------------------------------------
(* The configuration, and the active target.                               *)

\* Every ${VAR} of every section is substituted, and one that is not set fails
\* the load.
load_config == \A n \in TargetNames : conn[configDir][n] = "placeholder" => n \in env

\* What the target commands take as the default: dev when the load fails.
_default_target == IF load_config THEN default ELSE "dev"

\* --target, CARVE_TARGET, default_target, in this order ("none" is not given).
resolve_active_target(flag, variable) ==
    CASE flag # "none" -> flag
      [] flag = "none" /\ variable # "none" -> variable
      [] OTHER -> default
require_target(name) == name \in defined(configDir)

-----------------------------------------------------------------------------
(* carve init, again: files that exist are kept, a missing block is added. *)

Mentioned(n) == envExample[n] > 0
add_env_example_block(n) == IF Mentioned(n) THEN envExample ELSE [envExample EXCEPT ![n] = 1]

init_command(n) ==
    /\ command = NoCommand
    /\ envExample' = add_env_example_block(n)
    /\ UNCHANGED <<conn, configDir, default, env, command, history>>

-----------------------------------------------------------------------------
(* carve target.                                                           *)

Section(dir, n, value) == conn' = [conn EXCEPT ![dir][n] = value]
Then(pc, old, new) == command' = [pc |-> pc, old |-> old, new |-> new]
Had(n) == history' = [history EXCEPT !.had = @ \/ n = default]

\* add_target_to_project, always in carve/: an existing section needs --force.
create_command(n) ==
    /\ command = NoCommand
    /\ \E force \in BOOLEAN : conn["carve"][n] = "absent" \/ force
    /\ Section("carve", n, "placeholder")
    /\ Then("create_env", "none", n) /\ Had(n)
    /\ UNCHANGED <<configDir, default, envExample, env>>

create_env ==
    /\ command.pc = "create_env"
    /\ envExample' = add_env_example_block(command.new)
    /\ command' = NoCommand
    /\ UNCHANGED <<conn, configDir, default, env, history>>

\* rename_target_section, always in carve/: the new section has placeholders
\* whatever the old one had.
rename_command(old, new) ==
    /\ command = NoCommand
    /\ conn["carve"][old] # "absent" /\ conn["carve"][new] = "absent"
    /\ envExample[old] + envExample[new] <= MaxBlocks
    /\ conn' = [conn EXCEPT !["carve"][old] = "absent", !["carve"][new] = "placeholder"]
    /\ Then("rename_env", old, new)
    /\ history' = [history EXCEPT !.had = @ \/ new = default]
    /\ UNCHANGED <<configDir, default, envExample, env>>

rename_env_example_block ==
    /\ command.pc = "rename_env"
    /\ envExample' = [envExample EXCEPT ![command.old] = 0,
                                        ![command.new] = @ + envExample[command.old]]
    /\ Then("rename_default", command.old, command.new)
    /\ UNCHANGED <<conn, configDir, default, env, history>>

\* Mutant: default_target is left.
rename_default_left ==
    /\ command.pc = "rename_default"
    /\ command' = NoCommand
    /\ UNCHANGED <<conn, configDir, default, envExample, env, history>>
rename_default ==
    /\ command.pc = "rename_default"
    /\ default' = IF default = command.old THEN command.new ELSE default
    /\ command' = NoCommand
    /\ UNCHANGED <<conn, configDir, envExample, env, history>>

\* In the configured directory, or in carve/ when the load fails.  The default
\* target needs --force and --no-default-warning.
config_dir_name == IF load_config THEN configDir ELSE "carve"
delete_command(n) ==
    /\ command = NoCommand
    /\ n \in defined(config_dir_name)
    /\ \E forced \in BOOLEAN :
          /\ n # _default_target \/ forced
          /\ history' = [history EXCEPT !.had = @ /\ n # default,
                                        !.unforced = @ \/ (n = default /\ ~forced)]
    /\ Section(config_dir_name, n, "absent")
    /\ Then("delete_env", n, "none")
    /\ UNCHANGED <<configDir, default, envExample, env>>

remove_env_example_block ==
    /\ command.pc = "delete_env"
    /\ envExample' = [envExample EXCEPT ![command.old] = 0]
    /\ command' = NoCommand
    /\ UNCHANGED <<conn, configDir, default, env, history>>

InterruptTarget ==
    /\ command # NoCommand
    /\ command' = NoCommand
    /\ history' = [history EXCEPT !.interrupted = TRUE]
    /\ UNCHANGED <<conn, configDir, default, envExample, env>>

-----------------------------------------------------------------------------
(* People: a section is uncommented or given values, .env is edited.       *)

EditSection(n, value) ==
    /\ command = NoCommand /\ Mentioned(n)
    /\ Section(configDir, n, value)
    /\ IF configDir = "carve" THEN Had(n) ELSE UNCHANGED history
    /\ UNCHANGED <<configDir, default, envExample, env, command>>

EditEnv ==
    /\ command = NoCommand
    /\ env' \in SUBSET TargetNames
    /\ UNCHANGED <<conn, configDir, default, envExample, command, history>>

TargetsNext ==
    \/ create_env \/ rename_env_example_block \/ rename_default
    \/ remove_env_example_block \/ InterruptTarget \/ EditEnv
    \/ \E n \in TargetNames :
          \/ init_command(n) \/ create_command(n) \/ delete_command(n)
          \/ \E value \in {"placeholder", "literal"} : EditSection(n, value)
          \/ \E new \in TargetNames : rename_command(n, new)
TargetsSpec == TargetsInit /\ [][TargetsNext]_targetVars

-----------------------------------------------------------------------------
\* With the default directory and unless a command was interrupted, .env.example
\* has a block for every target that the commands know, whatever was created,
\* renamed, deleted and created again; and once the default target was defined, a
\* command that names no target finds one, by its old name or its new one, until
\* that is deleted.
TargetsAgree ==
    command = NoCommand /\ ~history.interrupted /\ configDir = "carve" =>
        /\ \A n \in defined("carve") : Mentioned(n)
        /\ history.had => require_target(resolve_active_target("none", "none"))

\* "Safety rail: refuse to delete default_target without --force AND
\* --no-default-warning."
DefaultProtected == ~history.unforced

\* A target that create made is there for the commands that read the
\* configuration.
CreatedIsKnown == command = NoCommand => defined("carve") \subseteq defined(configDir)

\* "the helper guards against an idempotent re-run producing doubles".
NoDoubleBlock == \A n \in TargetNames : envExample[n] <= 1
=============================================================================
