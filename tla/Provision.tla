------------------------------ MODULE Provision -----------------------------
(***************************************************************************)
(* carve connect: the bundled dbt engine of a component is resolved,       *)
(* installed, validated and pinned (core/connect, core/dbt_execution/      *)
(* engine.py, cli/commands/connect.py).  The environment it is installed   *)
(* in stays on disk, whole or not, when a command fails or is interrupted; *)
(* people wipe it.                                                         *)
(***************************************************************************)
EXTENDS Integers, FiniteSets

CONSTANT Dialects   \* dialects of targets whose engine is dbt-core

VARIABLES
    block,      \* the component's block in carve.toml: its backend, and its pin
    venv,       \* the environment of the pinned version
    connect,    \* the command
    validated   \* whether the pinned version ever passed dbt --version

provisionVars == <<block, venv, connect, validated>>

_FUSION_DIALECTS == {"snowflake"}
NoVenv == [there |-> FALSE, dbt |-> FALSE, works |-> FALSE, adapters |-> {}]
AtRestConnect == [pc |-> "none", dialect |-> "none", engine |-> "none", outcome |-> "none"]

\* No block is a component found by convention.
ProvisionInit ==
    /\ block \in [backend : {"absent", "local", "managed", "external"}, pin : {"none"}]
    /\ venv = NoVenv
    /\ connect = AtRestConnect
    /\ validated = FALSE

resolve_engine(dialect) == IF dialect \in _FUSION_DIALECTS THEN "fusion" ELSE "dbt-core"
resolve_or_reuse(dialect) == IF block.pin # "none" THEN block.pin ELSE resolve_engine(dialect)
_engine_present_on_disk == venv.dbt

ConnectEnds(outcome) == connect' = [connect EXCEPT !.pc = "none", !.outcome = outcome]

\* provision_dbt_engine up to the installation: managed backends, an external dbt
\* and an engine that is pinned and present are left as they are.
provision_dbt_engine(dialect) ==
    /\ connect.pc = "none"
    /\ LET engine == resolve_or_reuse(dialect)
           Ends(outcome) == [AtRestConnect EXCEPT !.dialect = dialect, !.outcome = outcome]
       IN  connect' = IF block.backend \in {"managed", "external"} THEN Ends(block.backend)
                      ELSE IF block.pin # "none" /\ _engine_present_on_disk THEN Ends("noop")
                      ELSE [pc |-> "install", dialect |-> dialect, engine |-> engine,
                            outcome |-> "none"]
    /\ UNCHANGED <<block, venv, validated>>

\* Fusion cannot be installed, and an environment that has bin/dbt is taken as it is.
install_engine ==
    /\ connect.pc = "install"
    /\ \/ connect.engine = "fusion" /\ ConnectEnds("unsupported") /\ UNCHANGED venv
       \/ connect.engine # "fusion" /\ venv.dbt
          /\ connect' = [connect EXCEPT !.pc = "validate"] /\ UNCHANGED venv
       \/ connect.engine # "fusion" /\ ~venv.dbt
          /\ venv' = [venv EXCEPT !.there = TRUE]
          /\ connect' = [connect EXCEPT !.pc = "pip"]
    /\ UNCHANGED <<block, validated>>

\* pip installs the engine, what it depends on and the adapter, package by package.
PipStep ==
    /\ connect.pc = "pip"
    /\ \/ ~venv.dbt /\ venv' = [venv EXCEPT !.dbt = TRUE]
       \/ ~venv.works /\ venv' = [venv EXCEPT !.works = TRUE]
       \/ connect.dialect \notin venv.adapters
          /\ venv' = [venv EXCEPT !.adapters = @ \cup {connect.dialect}]
    /\ UNCHANGED <<block, connect, validated>>

PipDone ==
    /\ connect.pc = "pip" /\ venv.dbt /\ venv.works /\ connect.dialect \in venv.adapters
    /\ connect' = [connect EXCEPT !.pc = "validate"]
    /\ UNCHANGED <<block, venv, validated>>

\* pip exits with an error or is killed; RuntimeError.
PipFails ==
    /\ connect.pc = "pip"
    /\ ConnectEnds("error")
    /\ UNCHANGED <<block, venv, validated>>

\* dbt --version, which needs no adapter.
_default_validate ==
    /\ connect.pc = "validate"
    /\ \/ venv.dbt /\ venv.works
          /\ validated' = TRUE /\ connect' = [connect EXCEPT !.pc = "pin"]
       \/ ConnectEnds("invalid") /\ UNCHANGED validated
    /\ UNCHANGED <<block, venv>>

\* Mutant: a pin is written whether or not the engine answered.
pin_engine_early ==
    /\ connect.pc \in {"validate", "pin"}
    /\ IF block.backend = "absent" THEN ConnectEnds("error") /\ UNCHANGED block
       ELSE /\ block' = [block EXCEPT !.pin = connect.engine]
            /\ ConnectEnds("provisioned")
    /\ UNCHANGED <<venv, validated>>
\* A component without a block: KeyError, after the installation.
pin_engine ==
    /\ connect.pc = "pin"
    /\ IF block.backend = "absent" THEN ConnectEnds("error") /\ UNCHANGED block
       ELSE /\ block' = [block EXCEPT !.pin = connect.engine]
            /\ ConnectEnds("provisioned")
    /\ UNCHANGED <<venv, validated>>

InterruptConnect ==
    /\ connect.pc # "none"
    /\ ConnectEnds("interrupted")
    /\ UNCHANGED <<block, venv, validated>>

\* People wipe the environment, and give the component a block.
WipeVenv ==
    /\ venv # NoVenv
    /\ venv' = NoVenv
    /\ UNCHANGED <<block, connect, validated>>

Graduate ==
    /\ block.backend = "absent" /\ connect.pc = "none"
    /\ block' = [block EXCEPT !.backend = "local"]
    /\ UNCHANGED <<venv, connect, validated>>

ProvisionNext ==
    \/ install_engine \/ PipStep \/ PipDone \/ PipFails \/ _default_validate \/ pin_engine
    \/ InterruptConnect \/ WipeVenv \/ Graduate
    \/ \E d \in Dialects \cup _FUSION_DIALECTS : provision_dbt_engine(d)
ProvisionSpec == ProvisionInit /\ [][ProvisionNext]_provisionVars

-----------------------------------------------------------------------------
\* "a broken engine is never pinned": whatever was interrupted, wiped and tried
\* again, what is pinned is an engine that can be installed and that answered
\* dbt --version before, and nothing is installed for a managed or external one.
PinWasValidated ==
    /\ block.pin # "none" => block.pin = "dbt-core" /\ validated
    /\ block.backend \in {"managed", "external"} => venv = NoVenv /\ block.pin = "none"

\* "Only pinned + present is a no-op": what is reported as provisioned already can
\* be used with the dialect of the target.
NoopIsUsable ==
    connect.outcome = "noop" /\ venv.dbt => venv.works /\ connect.dialect \in venv.adapters
=============================================================================
