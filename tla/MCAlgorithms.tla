---------------------------- MODULE MCAlgorithms ----------------------------
(***************************************************************************)
(* The algorithms against reference definitions: PipelineDAG on every      *)
(* dependency function over N steps, with or without one unknown id;       *)
(* PipelineFile on files of three steps, their graphs and ids varied or    *)
(* their components and labels; the gate of Permissions on every call;     *)
(* Paging on every table of four rows; Destinations on small designs and   *)
(* catalogs.  An input is an initial state.                                *)
(***************************************************************************)
EXTENDS PipelineDAG, PipelineFile, Permissions, Paging, Destinations, TLC

VARIABLE input

Graphs == {[d EXCEPT ![N] = @ \cup unknown] : d \in [Steps -> SUBSET Steps], unknown \in {{}, {N + 1}}}

FileSteps == 1..3
SqlStep(id, deps) == [id |-> id, deps |-> deps, type |-> "sql", component |-> Omitted]
GraphFiles == {[steps |-> [i \in FileSteps |-> SqlStep(ids[i], deps[i])], cron |-> TRUE] :
                 ids \in {<<1, 2, 3>>, <<3, 1, 2>>, <<1, 2, 1>>},
                 deps \in [FileSteps -> SUBSET (FileSteps \cup {N + 1})]}
ComponentFiles == {[steps |-> [i \in FileSteps |-> [id |-> i, deps |-> {}, type |-> c[i][1],
                                                    component |-> c[i][2]]],
                    cron |-> cron] :
                     c \in [FileSteps -> {"dlt", "dbt", "sql"} \X {Omitted, "orders", "users", "models", "lost"}],
                     cron \in BOOLEAN}
Blocks == {[orders |-> [type |-> "dlt", label |-> l[1]], users |-> [type |-> "dlt", label |-> l[2]],
            models |-> [type |-> "dbt", label |-> l[3]]] :
             l \in {<<NoLabel, NoLabel, NoLabel>>, <<"a", NoLabel, "a">>, <<"a", "b", NoLabel>>,
                    <<NoLabel, "a", "b">>}}
Projects == Blocks \cup {blocks @@ (Omitted :> [type |-> "dbt", label |-> NoLabel]) : blocks \in Blocks}

Tables == {{[id |-> i, at |-> t[i][1], from |-> t[i][2], till |-> t[i][3]] : i \in 1..4} :
             t \in [1..4 -> {w \in (1..2) \X (0..2) \X {1, 2, MaxPages} : w[2] < w[3]}]}

Places(dbs, tables, columns) == [database : dbs, schema : {"s", None}, table : tables, columns : columns]
Design(listed, block, columns) == [destinations |-> listed, destination |-> block, columns |-> columns]
Defaults == [database : {None, "dev", "prod"}, schema : {None, "s"}]
TypesOfColumns == [base : {"VARCHAR", "TEXT", "VARIANT"}, sized : {FALSE}]
    \cup [base : {"VARCHAR"}, sized : {TRUE}]
ColumnLists == {<< >>} \cup [1..1 -> [name : {"id", "ID", "at"}, type : TypesOfColumns]]
    \cup {q \in [1..2 -> [name : {"id", "ID", "at"}, type : TypesOfColumns]] : Upper(q[1].name) # Upper(q[2].name)}
SomeColumns == {<< <<[name |-> n, type |-> [base |-> "TEXT", sized |-> FALSE]]>> >> : n \in {"id", "at"}}
SomePlaces == {p \in Places({"dev", None}, {"t", "u", Unsafe}, {<< >>} \cup SomeColumns) :
                 p.database = None => p.schema = None}
SomeCatalogs == UNION {[L -> {c[1] : c \in SomeColumns}] :
                         L \in SUBSET {[database |-> "dev", schema |-> "s", table |-> t] : t \in {"t", "u"}}}

GraphInput == \E d \in Graphs : input = [scene |-> "graph", deps |-> d]
FileInput ==
    \/ \E f \in GraphFiles : input = [scene |-> "file", file |-> f, components |-> CHOOSE p \in Projects : TRUE]
    \/ \E f \in ComponentFiles, p \in Projects : input = [scene |-> "file", file |-> f, components |-> p]
GateInput ==
    \E tool \in Tools, command \in Commands, approver \in Approvers :
       input = [scene |-> "gate", tool |-> tool, command |-> command, approver |-> approver]
PagesInput ==
    \E t \in Tables, asked \in {{}, {0}, {1}, {3}} : input = [scene |-> "pages", rows |-> t, asked |-> asked]
TomlInput ==
    \E p \in Places({None, "dev", "prod"}, {None, "t"}, {<< >>}), section \in Defaults :
       input = [scene |-> "toml", design |-> Design(<< >>, <<p>>, << >>), section |-> section]
ColumnsInput ==
    \E q, r \in ColumnLists : input = [scene |-> "columns", expected |-> q, actual |-> r]
DeployInput ==
    \E p, q \in SomePlaces, listed, single \in BOOLEAN, columns \in {<< >>} \cup SomeColumns,
       catalog \in SomeCatalogs :
       input = [scene |-> "deploy", catalog |-> catalog,
                design |-> Design(IF listed THEN <<p>> ELSE << >>, IF single THEN <<q>> ELSE << >>, columns)]

AlgorithmsInit ==
    GraphInput \/ FileInput \/ GateInput \/ PagesInput \/ TomlInput \/ ColumnsInput \/ DeployInput
AlgorithmsNext == UNCHANGED input
AlgorithmsSpec == AlgorithmsInit /\ [][AlgorithmsNext]_input

-----------------------------------------------------------------------------
Before(q, s, t) == \E i, j \in 1..Len(q) : i < j /\ q[i] = s /\ q[j] = t
IsTopological(deps, q) == \A t \in Steps : \A s \in deps[t] : Before(q, s, t)
Orders(deps) == {q \in [Steps -> Steps] : Elements(q) = Steps /\ IsTopological(deps, q)}

\* Lexicographic order on sequences of the same length.
Precedes(p, q) == \E i \in Steps : p[i] < q[i] /\ \A j \in 1..i - 1 : p[j] = q[j]
Closed(deps, C, s) == \A t \in Steps : deps[t] \cap (C \cup {s}) # {} => t \in C

\* PipelineDAG refuses a graph exactly when a reference is unknown or no order of
\* the steps respects the dependencies; the order it computes respects them and
\* is, of all that do, the first in declaration order, so that it is a function of
\* the file alone, whatever order Python iterates its sets in; and downstream_of
\* is the least set that holds the dependents of the step and of its own elements,
\* and never the step itself.
DagAlgorithms ==
    input.scene = "graph" =>
        LET deps == input.deps
            orders == Orders(deps)
            order == _compute_topological_order(deps)
        IN  /\ _validate_no_cycles(deps) <=>
                  (\A s \in Steps : deps[s] \subseteq Steps) /\ orders # {}
            /\ _validate_no_cycles(deps) =>
                  /\ order \in orders /\ \A r \in orders : r = order \/ Precedes(order, r)
                  /\ \A s \in Steps :
                        LET D == downstream_of(deps, s)
                        IN  /\ Closed(deps, D, s) /\ s \notin D
                            /\ \A C \in SUBSET Steps : Closed(deps, C, s) => D \subseteq C

\* What load_pipeline accepts can be run: the constructor of PipelineDAG, which has
\* its own search for cycles, accepts the graph, and one worker may run every step
\* that names a component; and it refuses no graph as cyclic that the constructor accepts.
LoadedRuns ==
    input.scene = "file" =>
        LET file == input.file
            verdict == load_pipeline(file, input.components)
            deps == [s \in Steps |-> IF s \in Ids(file) THEN depends_on(file)[s] ELSE {}]
        IN  /\ verdict = "loaded" => _validate_no_cycles(deps)
            /\ verdict = "cycle" => ~_validate_no_cycles(deps)
            /\ verdict = "loaded" => \A step \in ToSet(file.steps) :
                  step.component # Omitted =>
                      input.components[step.component].label
                          \in {NoLabel, resolve_required_label(file, input.components)}

\* What is checked in a warehouse before and after a deploy is neither too much nor
\* too little, and destination.toml keeps what the design says.
DestinationsSound ==
    /\ input.scene = "toml" => DestinationKept(input.design, input.section)
    /\ input.scene = "columns" => DriftIsExact(input.expected, input.actual)
    /\ input.scene = "deploy" => \A granted \in SUBSET DOMAIN input.catalog :
          RedeployPasses(input.design, input.catalog, granted)

\* What a definition is worth: LoadedRuns and DagAlgorithms of a pipeline's, and
\* DestinationsSound of an artifact's destination.
DefinitionsSound == LoadedRuns /\ DagAlgorithms /\ DestinationsSound

\* What the permission gate and the pages of a collection answer: AuthorityShrinks
\* of Permissions on every call of a tool, Complete of Paging on every table and
\* every size of a page.
AnswersExact ==
    /\ input.scene = "gate" => AuthorityShrinks(input.tool, input.command, input.approver)
    /\ input.scene = "pages" => Complete(input.rows, input.asked)
=============================================================================
