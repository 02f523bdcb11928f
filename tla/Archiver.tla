------------------------------ MODULE Archiver ------------------------------
(***************************************************************************)
(* The archiver (runtime/archiver.py): finished rows older than their      *)
(* table's window move to the archive tables, one transaction per table,   *)
(* while runs go on and a worker that lost its job may still write to the  *)
(* row of its run.                                                         *)
(*                                                                         *)
(* The transaction is at READ COMMITTED: its three statements each see     *)
(* what others committed before, so each is a step.  Each run has one row  *)
(* in each table.                                                          *)
(***************************************************************************)
EXTENDS Integers, Sequences, FiniteSets

CONSTANTS
    Runs,
    Window,   \* [runtime.archive]: the window of each table
    MaxNow,   \* bound on the clock
    MaxLate   \* bound on late writes to a run

\* The rows of a table are finitely many.
ASSUME ArchiverAssumption == IsFiniteSet(Runs)
ASSUME WindowAssumption == Window \in [{"jobs", "step_runs", "logs", "runs"} -> Nat]

VARIABLES
    now,       \* the clock
    live,      \* the rows of each table
    archived,  \* the rows of each archive table
    last_run,  \* pipelines.last_run_id
    pass,      \* the archiver's pass
    late       \* late writes so far

archiverVars == <<now, live, archived, last_run, pass, late>>

\* Children before runs, whose rows they reference.
_ARCHIVE_TABLES == <<"jobs", "step_runs", "logs", "runs">>
Tables == {_ARCHIVE_TABLES[i] : i \in DOMAIN _ARCHIVE_TABLES}
\* A log has no status.
status_filter(t) == IF t = "logs" THEN {"running", "done"} ELSE {"done"}

Absent == [status |-> "absent", at |-> 0]
Asleep == [pc |-> "asleep", table |-> 0, now |-> 0, expected |-> {}, inserted |-> {}]

ArchiverInit ==
    /\ now = 0
    /\ live = [t \in Tables |-> [r \in Runs |-> Absent]]
    /\ archived = [t \in Tables |-> {}]
    /\ last_run = {}
    /\ pass = Asleep
    /\ late = 0

-----------------------------------------------------------------------------
(* The runs, and time.                                                     *)

Tick ==
    /\ now < MaxNow
    /\ now' = now + 1
    /\ UNCHANGED <<live, archived, last_run, pass, late>>

Begin(r) ==
    /\ live["runs"][r] = Absent /\ r \notin archived["runs"]
    /\ live' = [t \in Tables |-> [live[t] EXCEPT ![r] =
                   [status |-> "running", at |-> now]]]
    /\ UNCHANGED <<now, archived, last_run, pass, late>>

\* Everything of the run ends, or a step row is left running by a worker that
\* died.  A run of carve el also becomes its pipeline's last run.
End(r) ==
    /\ live["runs"][r].status = "running"
    /\ \E open \in SUBSET {"step_runs"}, recorded \in SUBSET {r} :
          /\ live' = [t \in Tables |-> IF t \in open \cup {"logs"} THEN live[t]
                                       ELSE [live[t] EXCEPT ![r] = [status |-> "done", at |-> now]]]
          /\ last_run' = IF recorded = {} THEN last_run ELSE recorded
    /\ UNCHANGED <<now, archived, pass, late>>

\* update_run_status by a worker that no longer owns the job.
LateWrite(r) ==
    /\ late < MaxLate
    /\ late' = late + 1
    /\ live["runs"][r].status = "done"
    /\ live' = [live EXCEPT !["runs"][r].at = now]
    /\ UNCHANGED <<now, archived, last_run, pass>>

-----------------------------------------------------------------------------
(* archive_once, one archive_table_safely per table.                       *)

StartPass ==
    /\ pass.pc = "asleep"
    /\ pass' = [Asleep EXCEPT !.pc = "count", !.table = 1, !.now = now]
    /\ UNCHANGED <<now, live, archived, last_run, late>>

Table == _ARCHIVE_TABLES[pass.table]

\* The cutoff comes from the clock read at the start of the pass.
_build_predicate ==
    {r \in Runs : /\ live[Table][r].status \in status_filter(Table)
                  /\ live[Table][r].at < pass.now - Window[Table]}

\* This table is done with, moved or rolled back.
NextTable == IF pass.table = Len(_ARCHIVE_TABLES) THEN Asleep
             ELSE [Asleep EXCEPT !.pc = "count", !.table = pass.table + 1, !.now = pass.now]

CountRows ==
    /\ pass.pc = "count"
    /\ pass' = IF _build_predicate = {} THEN NextTable
               ELSE [pass EXCEPT !.pc = "insert", !.expected = _build_predicate]
    /\ UNCHANGED <<now, live, archived, last_run, late>>

_archive_insert ==
    /\ pass.pc = "insert"
    /\ pass' = IF Cardinality(_build_predicate) = Cardinality(pass.expected)
               THEN [pass EXCEPT !.pc = "delete", !.inserted = _build_predicate]
               ELSE NextTable
    /\ UNCHANGED <<now, live, archived, last_run, late>>

\* The foreign keys on runs: its children, and the pipeline's last run.
Referenced ==
    {r \in Runs : \/ \E t \in Tables \ {"runs"} : live[t][r] # Absent
                  \/ r \in last_run}

Move(deleted) ==
    /\ archived' = [archived EXCEPT ![Table] = @ \cup pass.inserted]
    /\ live' = [live EXCEPT ![Table] = [r \in Runs |-> IF r \in deleted THEN Absent ELSE @[r]]]

\* Mutant: the deleted rows are not counted.
_archive_delete_unverified ==
    /\ pass.pc = "delete"
    /\ \/ /\ Table = "runs" => _build_predicate \cap Referenced = {}
          /\ Move(_build_predicate)
       \/ /\ Table = "runs" /\ _build_predicate \cap Referenced # {}
          /\ UNCHANGED <<live, archived>>
    /\ pass' = NextTable
    /\ UNCHANGED <<now, last_run, late>>
_archive_delete ==
    /\ pass.pc = "delete"
    /\ LET blocked == Table = "runs" /\ _build_predicate \cap Referenced # {} IN
       \/ /\ ~blocked /\ Cardinality(_build_predicate) = Cardinality(pass.expected)
          /\ Move(_build_predicate)
       \/ /\ blocked \/ Cardinality(_build_predicate) # Cardinality(pass.expected)
          /\ UNCHANGED <<live, archived>>
    /\ pass' = NextTable
    /\ UNCHANGED <<now, last_run, late>>

\* A statement raises: the transaction rolls back and the pass goes on.
BatchFails ==
    /\ pass.pc \in {"insert", "delete"}
    /\ pass' = NextTable
    /\ UNCHANGED <<now, live, archived, last_run, late>>

archive_once == CountRows \/ _archive_insert \/ _archive_delete
ArchiverNext ==
    \/ Tick \/ StartPass \/ archive_once \/ BatchFails
    \/ \E r \in Runs : Begin(r) \/ End(r) \/ LateWrite(r)
ArchiverSpec == ArchiverInit /\ [][ArchiverNext]_archiverVars

-----------------------------------------------------------------------------
\* No data loss: a row is in its table or in its archive and never in both,
\* whatever commits between the statements of a batch and whichever of them
\* fails; and no archived run has a child left behind.
NoDataLoss ==
    /\ \A t \in Tables, r \in Runs :
          LET begun == live["runs"][r] # Absent \/ r \in archived["runs"]
          IN  begun => (live[t][r] # Absent) # (r \in archived[t])
    /\ \A t \in Tables \ {"runs"} : archived["runs"] \subseteq archived[t]

\* "the default windows stagger so a parent run's children have already aged out
\* by the time the run itself does": no run keeps its batch from moving.
RunsMove ==
    pass.pc = "delete" /\ Table = "runs" => _build_predicate \cap Referenced = {}
=============================================================================
