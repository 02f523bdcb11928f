---------------------------- MODULE Destinations ----------------------------
(***************************************************************************)
(* Where an artifact loads to, and what deploy compares there:             *)
(* destination.toml (core/targets/destination.py), written by the build    *)
(* and read when the script runs, and the columns that pre-flight and      *)
(* verification expect of a table (core/deploy/preflight.py, verifier.py). *)
(*                                                                         *)
(* An optional value is a sequence of at most one element, a name that is  *)
(* absent or blank is None.  A design has optional blocks destination and  *)
(* columns and a list destinations; a column has a name and a type, which  *)
(* is a base with or without parameters.  A catalog gives the columns of   *)
(* the tables that exist, by location.                                     *)
(***************************************************************************)
EXTENDS Integers, Sequences, FiniteSets, SequencesExt

None == "none"
Unsafe == "unsafe"   \* a name that validate_identifier refuses

Or(value, default) == IF value # None THEN value ELSE default

-----------------------------------------------------------------------------
\* A field that matches the target's default is left commented out.
_render_optional_field(value, env_default) == IF value = env_default THEN None ELSE value

\* section: the defaults of the target that the artifact is built for.
_write_destination_toml_for_build(design, section) ==
    IF design.destination = << >> \/ design.destination[1].table = None THEN << >>
    ELSE LET block == design.destination[1]
         IN  <<[table    |-> block.table,
                database |-> _render_optional_field(block.database, section.database),
                schema   |-> _render_optional_field(block.schema, section.schema)]>>

\* A file that names no table is refused, a missing one is no destination.
read_destination_toml(file) ==
    IF file = << >> THEN [refused |-> FALSE, destination |-> << >>]
    ELSE [refused |-> file[1].table = None, destination |-> file]

resolve_at_runtime(destination, env) ==
    [database |-> Or(destination.database, env.database), schema |-> Or(destination.schema, env.schema),
     table |-> destination.table]

-----------------------------------------------------------------------------
Upper(name) == IF name = "id" THEN "ID" ELSE name

_TYPE_FAMILIES == {{"TEXT", "VARCHAR"}, {"NUMBER", "INT"}}
_types_compatible(expected, actual) ==
    \/ expected.base = actual.base
    \/ \E family \in _TYPE_FAMILIES : {expected.base, actual.base} \subseteq family

\* Upper case, a column without a name left out; the others keep their positions.
_normalize_columns(columns) ==
    [i \in {j \in DOMAIN columns : columns[j].name # None} |-> [columns[i] EXCEPT !.name = Upper(@)]]

\* dict(pairs): the last type of a name.
ByName(columns) ==
    [n \in {columns[i].name : i \in DOMAIN columns} |->
        LET last == CHOOSE i \in DOMAIN columns :
                        columns[i].name = n /\ \A j \in DOMAIN columns : columns[j].name = n => j <= i
        IN  columns[last].type]

_compare_columns(expected, actual) ==
    LET want == ByName(expected)
        have == ByName(actual)
    IN  {<<"missing_column", n>> : n \in DOMAIN want \ DOMAIN have}
        \cup {<<"extra_column", n>> : n \in DOMAIN have \ DOMAIN want}
        \cup {<<"type_mismatch", n>> : n \in {m \in DOMAIN want \cap DOMAIN have :
                                                ~_types_compatible(want[m], have[m])}}

Location(dest) == [database |-> dest.database, schema |-> dest.schema, table |-> dest.table]

\* Destinations that are named in full, with their own columns or the design's; a
\* name that is not an identifier raises.
_expected_destinations_from_design(design) ==
    LET candidates == ToSet(design.destinations) \cup ToSet(design.destination)
        full == {d \in candidates : None \notin {d.database, d.schema, d.table}}
        Columns(d) == IF d.columns # << >> THEN d.columns[1]
                      ELSE IF design.columns # << >> THEN design.columns[1] ELSE << >>
    IN  [raised |-> \E d \in full : Unsafe \in {d.database, d.schema, d.table},
         rows |-> {[at |-> Location(d), columns |-> _normalize_columns(Columns(d))] : d \in full}]
\* No build puts destinations in its manifest: those of the design are returned.
expected_destinations_from_build(design) == _expected_destinations_from_design(design)

_fetch_existing_columns(catalog, location) ==
    IF location \in DOMAIN catalog THEN <<_normalize_columns(catalog[location])>> ELSE << >>

ColumnDrift(catalog, row) ==
    LET actual == _fetch_existing_columns(catalog, row.at)
    IN  IF actual = << >> THEN {} ELSE _compare_columns(row.columns, actual[1])

\* The drift that run_preflight finds over a connection that works; a table that
\* does not exist is none.
preflight_drift(design, catalog, role_exists) ==
    LET expected == _expected_destinations_from_design(design)
    IN  IF expected.raised THEN {<<"invalid_identifier", None>>}
        ELSE UNION {ColumnDrift(catalog, row) : row \in expected.rows}
             \cup (IF role_exists THEN {} ELSE {<<"missing_role", None>>})

\* The failures of run_verify; granted are the locations on which the runtime role
\* has all privileges.
verify_failures(design, catalog, granted) ==
    LET expected == expected_destinations_from_build(design)
        Failures(row) ==
            IF row.at \notin DOMAIN catalog THEN {<<"no_table", row.at.table>>}
            ELSE ColumnDrift(catalog, row)
                 \cup (IF row.at \in granted THEN {} ELSE {<<"grants", row.at.table>>})
    IN  IF expected.raised THEN {<<"invalid_identifier", None>>}
        ELSE IF expected.rows = {} THEN {<<"no_destinations", None>>}
        ELSE UNION {Failures(row) : row \in expected.rows}

-----------------------------------------------------------------------------
\* Leaving out what matches the defaults loses nothing: run in the target that it
\* was built for, the script loads to what the design names.
DestinationKept(design, section) ==
    LET file == read_destination_toml(_write_destination_toml_for_build(design, section))
    IN  /\ ~file.refused
        /\ file.destination # << >> =>
              resolve_at_runtime(file.destination[1], section)
                  = resolve_at_runtime(design.destination[1], section)

\* Columns drift exactly if the two sides differ by more than spelling, order,
\* parameters of types and names of a family.
DriftIsExact(expected, actual) ==
    LET Fits(c, d) == Upper(c.name) = Upper(d.name) /\ _types_compatible(c.type, d.type)
    IN  _compare_columns(_normalize_columns(expected), _normalize_columns(actual)) = {}
            <=> /\ \A c \in ToSet(expected) : \E d \in ToSet(actual) : Fits(c, d)
                /\ \A d \in ToSet(actual) : \E c \in ToSet(expected) : Fits(c, d)

\* A destination that passes verification passes pre-flight, so that a deploy that
\* succeeded can be repeated as long as nobody changes the tables.
RedeployPasses(design, catalog, granted) ==
    verify_failures(design, catalog, granted) = {} => preflight_drift(design, catalog, TRUE) = {}

\* What verification looks at after a deploy is what the script loads to in the
\* target that it was deployed to.
VerifiedIsWritten(design, source, dest) ==
    LET file == _write_destination_toml_for_build(design, source)
        looked == {row.at : row \in expected_destinations_from_build(design).rows}
    IN  file # << >> => resolve_at_runtime(file[1], dest) \in looked
=============================================================================
