---------------------------- MODULE PipelineFile ----------------------------
(***************************************************************************)
(* load_pipeline (core/config/pipeline_schema.py): the checks that a file  *)
(* pipelines/<name>.toml passes, in their order, before anything runs, and *)
(* the label of the workers that may run it.                               *)
(*                                                                         *)
(* A file is the sequence of its steps, each with its id, depends_on, type *)
(* and component, and whether its cron expression is valid.  A component   *)
(* that the project configures or has by convention has a type and, if it  *)
(* is configured, perhaps a label; the one dbt project of the repository,  *)
(* if a single one is detected, is the component Omitted.                  *)
(***************************************************************************)
EXTENDS Integers, Sequences, FiniteSetsExt, SequencesExt

Omitted == "omitted"
NoLabel == "none"
Ids(file) == {file.steps[i].id : i \in DOMAIN file.steps}
depends_on(file) ==
    [s \in Ids(file) |-> file.steps[CHOOSE i \in DOMAIN file.steps : file.steps[i].id = s].deps]

\* Pipeline.model_validate: a dlt step has a component, a sql step has none.
model_validate(file) ==
    \A step \in ToSet(file.steps) :
        /\ step.type = "dlt" => step.component # Omitted
        /\ step.type = "sql" => step.component = Omitted

_validate_unique_step_ids(file) == Cardinality(Ids(file)) = Len(file.steps)

_validate_depends_on_refs(file) == \A step \in ToSet(file.steps) : step.deps \subseteq Ids(file)

\* visit: depth first and recursive; 0 is not seen, 1 on the stack, 2 done.  V[n] is
\* a call where n may still be open, V[0] no call at all, and no call comes to that:
\* each takes an id that was not seen.
Searches(ids) == [raised : BOOLEAN, state : [ids -> 0..2]]
visit(deps) ==
    LET ids == DOMAIN deps
        V[n \in 0..Cardinality(ids)] ==
            [call \in ids \X Searches(ids) |->
                LET Follow(dep, d) ==
                        IF d.raised THEN d
                        ELSE IF d.state[dep] = 1 THEN [d EXCEPT !.raised = TRUE]
                        ELSE IF d.state[dep] = 0 THEN V[n - 1][<<dep, d>>]
                        ELSE d
                    after == FoldSet(Follow, [call[2] EXCEPT !.state[call[1]] = 1], deps[call[1]])
                IN  IF n = 0 THEN call[2] ELSE [after EXCEPT !.state[call[1]] = 2]]
    IN  V[Cardinality(ids)]
_validate_no_cycles_of(deps) ==
    LET Start(id, d) == IF d.raised \/ d.state[id] # 0 THEN d ELSE visit(deps)[<<id, d>>]
    IN  ~FoldSet(Start, [raised |-> FALSE, state |-> [s \in DOMAIN deps |-> 0]], DOMAIN deps).raised

\* A named component resolves to one of the step's type; the omitted one of a dbt
\* step to the dbt project of the repository, of which there must be one and no more.
_validate_components_resolve(file, components) ==
    \A step \in ToSet(file.steps) :
        \/ step.type = "sql"
        \/ /\ step.component \in DOMAIN components
           /\ components[step.component].type = step.type

Labels(file, components) ==
    {components[step.component].label :
        step \in {s \in ToSet(file.steps) : s.component \in DOMAIN components}} \ {NoLabel}
\* "none", the one label, or ConflictingWorkerLabelsError.
resolve_required_label(file, components) ==
    LET labels == Labels(file, components)
    IN  IF labels = {} THEN NoLabel
        ELSE IF Cardinality(labels) = 1 THEN CHOOSE l \in labels : TRUE
        ELSE "conflict"

\* The first check that refuses the file, or loaded.  Each relies on the earlier
\* ones: the search for cycles reads the state of every id it meets.
load_pipeline(file, components) ==
    IF      ~model_validate(file)                                   THEN "model"
    ELSE IF ~_validate_unique_step_ids(file)                        THEN "unique"
    ELSE IF ~_validate_depends_on_refs(file)                        THEN "unknown"
    ELSE IF ~_validate_no_cycles_of(depends_on(file))               THEN "cycle"
    ELSE IF ~file.cron                                              THEN "cron"
    ELSE IF ~_validate_components_resolve(file, components)         THEN "component"
    ELSE IF resolve_required_label(file, components) = "conflict"   THEN "label"
    ELSE "loaded"
=============================================================================
