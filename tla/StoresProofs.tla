---------------------------- MODULE StoresProofs ----------------------------
(***************************************************************************)
(* Proofs about what carve keeps: the archive, the answers to write        *)
(* requests, the components and their clones, the targets, the step        *)
(* executors' verdicts and the pinned dbt engine.  Each part has an        *)
(* invariant of its own, which says what is not yet written in the middle  *)
(* of an operation, and one lemma per action.                              *)
(***************************************************************************)
EXTENDS ApiWrites, Archiver, Components, Targets, StepTypes, Provision,
        FiniteSetTheorems, WellFoundedInduction, TLAPS

-----------------------------------------------------------------------------
(* The archiver.  A row of a run that is over is never written again except *)
(* to make it younger, so between the statements of a batch the rows that   *)
(* the predicate matches can only become fewer, and counts that agree are   *)
(* counts of the same rows.                                                 *)

ArchiverTypeOK ==
    /\ now \in Nat
    /\ live \in [Tables -> [Runs -> [status : {"absent", "running", "done"}, at : Nat]]]
    /\ archived \in [Tables -> SUBSET Runs]
    /\ pass \in [pc : {"asleep", "count", "insert", "delete"}, table : 0..4, now : Nat,
                 expected : SUBSET Runs, inserted : SUBSET Runs]
    /\ pass.pc # "asleep" => pass.table # 0

\* The rows of a run: none before it begins, each live or archived afterwards;
\* while it is running, those that have a status are running too.
RunRowsOK ==
    /\ \A t \in Tables, r \in Runs :
          IF live["runs"][r] # Absent \/ r \in archived["runs"]
          THEN (live[t][r] # Absent) # (r \in archived[t])
          ELSE live[t][r] = Absent /\ r \notin archived[t]
    /\ \A r \in Runs : live["runs"][r].status = "running" =>
          live["jobs"][r].status = "running" /\ live["step_runs"][r].status = "running"
    /\ \A t \in Tables \ {"runs"} : archived["runs"] \subseteq archived[t]
    /\ \A t \in Tables, r \in Runs : live[t][r].status = "absent" => live[t][r] = Absent

\* What the statements of a batch matched can only have become fewer.
BatchShrinks ==
    /\ pass.now <= now
    /\ pass.pc = "insert" => _build_predicate \subseteq pass.expected
    /\ pass.pc = "delete" => /\ _build_predicate \subseteq pass.inserted
                             /\ pass.inserted \subseteq pass.expected
                             /\ Cardinality(pass.inserted) = Cardinality(pass.expected)

ArchiverInv == ArchiverTypeOK /\ RunRowsOK /\ BatchShrinks

LEMMA TablesAre ==
    /\ Tables = {"jobs", "step_runs", "logs", "runs"} /\ DOMAIN _ARCHIVE_TABLES = 1..4
    /\ \A i \in 1..4 : _ARCHIVE_TABLES[i] \in Tables
    /\ Len(_ARCHIVE_TABLES) = 4
<1>1. _ARCHIVE_TABLES = <<"jobs", "step_runs", "logs", "runs">>
  BY DEF _ARCHIVE_TABLES
<1>2. DOMAIN _ARCHIVE_TABLES = 1..4 /\ Len(_ARCHIVE_TABLES) = 4
  BY <1>1
<1>3. Tables = {"jobs", "step_runs", "logs", "runs"}
  BY <1>1, <1>2 DEF Tables
<1>. QED  BY <1>1, <1>2, <1>3 DEF Tables

\* Rows that only get younger, or are over without having matched, match no more
\* than they did.
LEMMA OnlyFewerMatch ==
    ASSUME ArchiverInv, UNCHANGED <<pass, archived>>, now <= now', now' \in Nat, ArchiverTypeOK',
           \A t \in Tables, r \in Runs :
               \/ live'[t][r] = live[t][r]
               \/ live'[t][r].at = now
    PROVE  BatchShrinks'
<1>. USE DEF ArchiverInv
<1>1. ASSUME pass.pc # "asleep", NEW r \in Runs, r \in _build_predicate' PROVE r \in _build_predicate
  <2>. DEFINE t == Table
  <2>1. t \in Tables /\ t' = t
    BY <1>1, TablesAre DEF Table, ArchiverTypeOK
  <2>2. live'[t][r].at < pass.now - Window[t] /\ live'[t][r].status \in status_filter(t)
    BY <1>1, <2>1 DEF _build_predicate
  <2>3. live'[t][r].at # now
    <3>1. Window[t] \in Nat /\ now \in Nat /\ pass.now \in Nat /\ pass.now <= now
      BY <2>1, TablesAre, WindowAssumption DEF ArchiverTypeOK, BatchShrinks
    <3>. QED  BY <2>2, <3>1
  <2>4. live'[t][r] = live[t][r]
    BY <2>1, <2>3
  <2>. QED  BY <2>1, <2>2, <2>4 DEF _build_predicate
<1>2. \A r \in _build_predicate' : r \in Runs
  BY DEF _build_predicate
<1>3. pass.now <= now'
  BY DEF BatchShrinks, ArchiverTypeOK
<1>. QED  BY <1>1, <1>2, <1>3 DEF BatchShrinks

LEMMA ArchiverStart == ArchiverInit => ArchiverInv
<1>. SUFFICES ASSUME ArchiverInit PROVE ArchiverInv
  OBVIOUS
<1>. USE DEF ArchiverInit, Absent, Asleep
<1>1. ArchiverTypeOK
  BY TablesAre DEF ArchiverTypeOK
<1>2. RunRowsOK
  BY TablesAre DEF RunRowsOK
<1>3. BatchShrinks
  BY DEF BatchShrinks
<1>. QED  BY <1>1, <1>2, <1>3 DEF ArchiverInv

\* The rows of runs and the clock: what people and workers do while a batch moves.
LEMMA ArchiverTick == ArchiverInv /\ Tick => ArchiverInv'
<1>. SUFFICES ASSUME ArchiverInv, Tick PROVE ArchiverInv'
  OBVIOUS
<1>. USE DEF ArchiverInv, Tick
<1>1. ArchiverTypeOK'
  BY DEF ArchiverTypeOK
<1>2. RunRowsOK'
  BY DEF RunRowsOK
<1>3. now <= now' /\ now' \in Nat
  BY DEF ArchiverTypeOK
<1>4. BatchShrinks'
  BY <1>1, <1>3, OnlyFewerMatch
<1>. QED  BY <1>1, <1>2, <1>4

LEMMA ArchiverBegin == ASSUME NEW q \in Runs, ArchiverInv, Begin(q) PROVE ArchiverInv'
<1>. USE DEF ArchiverInv
<1>0. now' = now /\ archived' = archived /\ pass' = pass
  BY DEF Begin
<1>1. \A t \in Tables, r \in Runs :
        live'[t][r] = IF r = q THEN [status |-> "running", at |-> now] ELSE live[t][r]
  BY DEF Begin, ArchiverTypeOK
<1>2. ArchiverTypeOK'
  <2>1. live' \in [Tables -> [Runs -> [status : {"absent", "running", "done"}, at : Nat]]]
    BY DEF Begin, ArchiverTypeOK
  <2>. QED  BY <1>0, <2>1 DEF ArchiverTypeOK
<1>3. \A t \in Tables : live[t][q] = Absent /\ q \notin archived[t]
  BY DEF Begin, RunRowsOK
<1>4. [status |-> "running", at |-> now] # Absent
  BY DEF Absent
<1>5. RunRowsOK'
  BY <1>0, <1>1, <1>3, <1>4, TablesAre DEF RunRowsOK
<1>6. BatchShrinks'
  <2>1. now <= now' /\ now' \in Nat
    BY <1>0 DEF ArchiverTypeOK
  <2>. QED  BY <1>0, <1>1, <1>2, <2>1, OnlyFewerMatch
<1>. QED  BY <1>2, <1>5, <1>6

LEMMA ArchiverEnd == ASSUME NEW q \in Runs, ArchiverInv, End(q) PROVE ArchiverInv'
<1>. USE DEF ArchiverInv
<1>0. now' = now /\ archived' = archived /\ pass' = pass /\ live["runs"][q].status = "running"
  BY DEF End
<1>1. PICK open \in SUBSET {"step_runs"} :
        live' = [t \in Tables |-> IF t \in open \cup {"logs"} THEN live[t]
                                  ELSE [live[t] EXCEPT ![q] = [status |-> "done", at |-> now]]]
  BY DEF End
<1>2. \A t \in Tables, r \in Runs :
        live'[t][r] = IF r = q /\ t \notin open \cup {"logs"} THEN [status |-> "done", at |-> now]
                      ELSE live[t][r]
  BY <1>1 DEF ArchiverTypeOK
<1>3. ArchiverTypeOK'
  <2>1. live' \in [Tables -> [Runs -> [status : {"absent", "running", "done"}, at : Nat]]]
    BY <1>1 DEF ArchiverTypeOK
  <2>. QED  BY <1>0, <2>1 DEF ArchiverTypeOK
<1>4. [status |-> "done", at |-> now] # Absent
  BY DEF Absent
<1>5. \A t \in Tables \ {"logs"} : live[t][q] # Absent
  BY <1>0, TablesAre DEF RunRowsOK, Absent
<1>6. RunRowsOK'
  <2>1. live'["runs"][q].status = "done" /\ live'["runs"][q] # Absent
    BY <1>2, <1>4, TablesAre
  <2>2. \A t \in Tables, r \in Runs : (live'[t][r] # Absent) <=> (live[t][r] # Absent)
    BY <1>2, <1>4, <1>5
  <2>3. \A t \in Tables, r \in Runs :
           IF live'["runs"][r] # Absent \/ r \in archived'["runs"]
           THEN (live'[t][r] # Absent) # (r \in archived'[t])
           ELSE live'[t][r] = Absent /\ r \notin archived'[t]
    BY <1>0, <2>2, TablesAre DEF RunRowsOK
  <2>4. \A r \in Runs : live'["runs"][r].status = "running" =>
          live'["jobs"][r].status = "running" /\ live'["step_runs"][r].status = "running"
    BY <1>2, <2>1, TablesAre DEF RunRowsOK
  <2>5. \A t \in Tables, r \in Runs : live'[t][r].status = "absent" => live'[t][r] = Absent
    BY <1>2 DEF RunRowsOK
  <2>. QED  BY <1>0, <2>3, <2>4, <2>5 DEF RunRowsOK
<1>7. BatchShrinks'
  <2>1. now <= now' /\ now' \in Nat
    BY <1>0 DEF ArchiverTypeOK
  <2>2. \A t \in Tables, r \in Runs : live'[t][r] = live[t][r] \/ live'[t][r].at = now
    BY <1>2
  <2>. QED  BY <1>0, <1>3, <2>1, <2>2, OnlyFewerMatch
<1>. QED  BY <1>3, <1>6, <1>7

LEMMA ArchiverLate == ASSUME NEW q \in Runs, ArchiverInv, LateWrite(q) PROVE ArchiverInv'
<1>. USE DEF ArchiverInv
<1>0. now' = now /\ archived' = archived /\ pass' = pass /\ live["runs"][q].status = "done"
  BY DEF LateWrite
<1>1. \A t \in Tables, r \in Runs :
        live'[t][r] = IF r = q /\ t = "runs" THEN [status |-> "done", at |-> now] ELSE live[t][r]
  BY <1>0, TablesAre DEF LateWrite, ArchiverTypeOK
<1>2. ArchiverTypeOK'
  <2>1. live' \in [Tables -> [Runs -> [status : {"absent", "running", "done"}, at : Nat]]]
    <3>1. live' = [live EXCEPT !["runs"] = [live["runs"] EXCEPT ![q] = [live["runs"][q] EXCEPT !.at = now]]]
      BY DEF LateWrite
    <3>2. [live["runs"][q] EXCEPT !.at = now] = [status |-> "done", at |-> now]
      BY <1>0, TablesAre DEF ArchiverTypeOK
    <3>3. live' = [live EXCEPT !["runs"] = [live["runs"] EXCEPT ![q] = [status |-> "done", at |-> now]]]
      BY <3>1, <3>2
    <3>. QED  BY <3>3, TablesAre DEF ArchiverTypeOK
  <2>. QED  BY <1>0, <2>1 DEF ArchiverTypeOK
<1>3. live["runs"][q] # Absent /\ [status |-> "done", at |-> now] # Absent
  BY <1>0 DEF Absent
<1>4. RunRowsOK'
  BY <1>0, <1>1, <1>3, TablesAre DEF RunRowsOK
<1>5. BatchShrinks'
  <2>1. now <= now' /\ now' \in Nat
    BY <1>0 DEF ArchiverTypeOK
  <2>2. \A t \in Tables, r \in Runs : live'[t][r] = live[t][r] \/ live'[t][r].at = now
    BY <1>1
  <2>. QED  BY <1>0, <1>2, <2>1, <2>2, OnlyFewerMatch
<1>. QED  BY <1>2, <1>4, <1>5

\* The pass itself.
LEMMA NextTableOK ==
    ASSUME ArchiverTypeOK, pass.pc # "asleep", pass.now <= now
    PROVE  /\ NextTable \in [pc : {"asleep", "count", "insert", "delete"}, table : 0..4, now : Nat,
                             expected : SUBSET Runs, inserted : SUBSET Runs]
           /\ NextTable.pc \in {"asleep", "count"} /\ NextTable.now <= now
           /\ NextTable.pc # "asleep" => NextTable.table # 0
<1>. USE DEF ArchiverTypeOK, Asleep, NextTable
<1>1. CASE pass.table = 4
  BY <1>1, TablesAre
<1>2. CASE pass.table # 4
  <2>1. pass.table + 1 \in 1..4
    BY <1>2
  <2>2. NextTable = [pc |-> "count", table |-> pass.table + 1, now |-> pass.now,
                     expected |-> {}, inserted |-> {}]
    BY <1>2, TablesAre
  <2>. QED  BY <2>1, <2>2
<1>. QED  BY <1>1, <1>2

LEMMA PassIdles ==
    ASSUME ArchiverInv, pass.pc # "asleep", pass' = NextTable, UNCHANGED <<now, live, archived>>
    PROVE  ArchiverInv'
<1>. USE DEF ArchiverInv
<1>0. pass.now <= now
  BY DEF BatchShrinks
<1>1. ArchiverTypeOK'
  BY <1>0, NextTableOK DEF ArchiverTypeOK
<1>2. RunRowsOK'
  BY DEF RunRowsOK
<1>3. BatchShrinks'
  BY <1>0, NextTableOK DEF BatchShrinks
<1>. QED  BY <1>1, <1>2, <1>3

LEMMA ArchiverCount == ArchiverInv /\ (StartPass \/ CountRows) => ArchiverInv'
<1>. SUFFICES ASSUME ArchiverInv, StartPass \/ CountRows PROVE ArchiverInv'
  OBVIOUS
<1>. USE DEF ArchiverInv
<1>1. CASE StartPass
  <2>1. pass' = [pc |-> "count", table |-> 1, now |-> now, expected |-> {}, inserted |-> {}]
        /\ UNCHANGED <<now, live, archived>>
    BY <1>1 DEF StartPass, Asleep
  <2>2. ArchiverTypeOK'
    BY <2>1 DEF ArchiverTypeOK
  <2>3. RunRowsOK'
    BY <2>1 DEF RunRowsOK
  <2>4. BatchShrinks'
    BY <2>1 DEF BatchShrinks, ArchiverTypeOK
  <2>. QED  BY <2>2, <2>3, <2>4
<1>2. CASE CountRows
  <2>0. UNCHANGED <<now, live, archived>> /\ pass.pc = "count"
    BY <1>2 DEF CountRows
  <2>1. CASE _build_predicate = {}
    <3>1. pass' = NextTable
      BY <1>2, <2>1 DEF CountRows
    <3>. QED  BY <2>0, <3>1, PassIdles
  <2>2. CASE _build_predicate # {}
    <3>0. pass' = [pass EXCEPT !.pc = "insert", !.expected = _build_predicate]
      BY <1>2, <2>2 DEF CountRows
    <3>1. _build_predicate \subseteq Runs
      BY DEF _build_predicate
    <3>2. /\ pass'.pc = "insert" /\ pass'.expected = _build_predicate
          /\ pass'.now = pass.now /\ pass'.table = pass.table
      BY <3>0 DEF ArchiverTypeOK
    <3>3. ArchiverTypeOK'
      BY <2>0, <3>0, <3>1 DEF ArchiverTypeOK
    <3>4. RunRowsOK'
      BY <2>0 DEF RunRowsOK
    <3>5. _build_predicate' = _build_predicate
      BY <2>0, <3>2 DEF _build_predicate, Table
    <3>6. BatchShrinks'
      BY <2>0, <3>2, <3>5 DEF BatchShrinks
    <3>. QED  BY <3>3, <3>4, <3>6
  <2>. QED  BY <2>1, <2>2
<1>. QED  BY <1>1, <1>2

LEMMA ArchiverInsert == ArchiverInv /\ _archive_insert => ArchiverInv'
<1>. SUFFICES ASSUME ArchiverInv, _archive_insert PROVE ArchiverInv'
  OBVIOUS
<1>. USE DEF ArchiverInv
<1>0. UNCHANGED <<now, live, archived>> /\ pass.pc = "insert"
  BY DEF _archive_insert
<1>1. CASE Cardinality(_build_predicate) # Cardinality(pass.expected)
  <2>1. pass' = NextTable
    BY <1>1 DEF _archive_insert
  <2>. QED  BY <1>0, <2>1, PassIdles
<1>2. CASE Cardinality(_build_predicate) = Cardinality(pass.expected)
  <2>0. pass' = [pass EXCEPT !.pc = "delete", !.inserted = _build_predicate]
    BY <1>2 DEF _archive_insert
  <2>1. _build_predicate \subseteq Runs
    BY DEF _build_predicate
  <2>2. /\ pass'.pc = "delete" /\ pass'.inserted = _build_predicate
        /\ pass'.now = pass.now /\ pass'.table = pass.table /\ pass'.expected = pass.expected
    BY <2>0 DEF ArchiverTypeOK
  <2>3. ArchiverTypeOK'
    BY <1>0, <2>0, <2>1 DEF ArchiverTypeOK
  <2>4. RunRowsOK'
    BY <1>0 DEF RunRowsOK
  <2>5. _build_predicate' = _build_predicate
    BY <1>0, <2>2 DEF _build_predicate, Table
  <2>6. BatchShrinks'
    BY <1>0, <1>2, <2>2, <2>5 DEF BatchShrinks
  <2>. QED  BY <2>3, <2>4, <2>6
<1>. QED  BY <1>1, <1>2

\* The batch is what was counted: its rows change tables together, and those of runs
\* only when nothing refers to them.
LEMMA ArchiverDelete == ArchiverInv /\ _archive_delete => ArchiverInv'
<1>. SUFFICES ASSUME ArchiverInv, _archive_delete PROVE ArchiverInv'
  OBVIOUS
<1>. USE DEF ArchiverInv
<1>0. pass.pc = "delete" /\ pass' = NextTable /\ now' = now
  BY DEF _archive_delete
<1>. DEFINE batch == _build_predicate
            tab == Table
<1>1. CASE UNCHANGED <<live, archived>>
  BY <1>0, <1>1, PassIdles
<1>2. CASE /\ ~(tab = "runs" /\ batch \cap Referenced # {})
           /\ Cardinality(batch) = Cardinality(pass.expected) /\ Move(batch)
  <2>1. tab \in Tables
    BY <1>0, TablesAre DEF Table, ArchiverTypeOK
  <2>2. batch \subseteq Runs
    BY DEF _build_predicate
  <2>3. pass.inserted = batch
    <3>1. IsFiniteSet(pass.expected)
      BY ArchiverAssumption, FS_Subset DEF ArchiverTypeOK
    <3>2. batch \subseteq pass.inserted /\ pass.inserted \subseteq pass.expected
      BY <1>0 DEF BatchShrinks
    <3>3. batch = pass.expected
      BY <1>2, <3>1, <3>2, FS_Subset
    <3>. QED  BY <3>2, <3>3
  <2>4. /\ archived' = [archived EXCEPT ![tab] = @ \cup batch]
        /\ live' = [live EXCEPT ![tab] = [r \in Runs |-> IF r \in batch THEN Absent ELSE @[r]]]
    BY <1>2, <2>3 DEF Move
  <2>5. \A r \in batch : live[tab][r] # Absent /\ live[tab][r].status \in status_filter(tab)
    BY DEF _build_predicate, status_filter, Absent
  <2>. HIDE DEF batch, tab
  <2>6. \A t \in Tables, r \in Runs :
          live'[t][r] = IF t = tab /\ r \in batch THEN Absent ELSE live[t][r]
    BY <2>1, <2>2, <2>4 DEF ArchiverTypeOK
  <2>7. \A t \in Tables : archived'[t] = IF t = tab THEN archived[t] \cup batch ELSE archived[t]
    BY <2>1, <2>4 DEF ArchiverTypeOK
  <2>8. ArchiverTypeOK'
    <3>1. live' \in [Tables -> [Runs -> [status : {"absent", "running", "done"}, at : Nat]]]
      BY <2>1, <2>4 DEF ArchiverTypeOK, Absent
    <3>2. archived' \in [Tables -> SUBSET Runs]
      BY <2>1, <2>2, <2>4 DEF ArchiverTypeOK
    <3>. QED  BY <1>0, <3>1, <3>2, NextTableOK DEF ArchiverTypeOK, BatchShrinks
  <2>9. \A r \in batch : (r \in archived["runs"] \/ live["runs"][r] # Absent) /\ r \notin archived[tab]
    BY <2>1, <2>2, <2>5 DEF RunRowsOK
  <2>10. \A r \in batch : tab = "runs" => \A t \in Tables \ {"runs"} :
             live[t][r] = Absent /\ r \in archived[t]
    <3>. SUFFICES ASSUME NEW r \in batch, tab = "runs", NEW t \in Tables \ {"runs"}
                  PROVE  live[t][r] = Absent /\ r \in archived[t]
      OBVIOUS
    <3>1. r \notin Referenced /\ r \in Runs
      BY <1>2, <2>2
    <3>2. live[t][r] = Absent
      BY <3>1 DEF Referenced
    <3>. QED  BY <2>9, <3>1, <3>2 DEF RunRowsOK
  <2>11. RunRowsOK'
    <3>1. \A t \in Tables, r \in Runs :
             IF live'["runs"][r] # Absent \/ r \in archived'["runs"]
             THEN (live'[t][r] # Absent) # (r \in archived'[t])
             ELSE live'[t][r] = Absent /\ r \notin archived'[t]
      <4>. SUFFICES ASSUME NEW t \in Tables, NEW r \in Runs
                    PROVE  IF live'["runs"][r] # Absent \/ r \in archived'["runs"]
                           THEN (live'[t][r] # Absent) # (r \in archived'[t])
                           ELSE live'[t][r] = Absent /\ r \notin archived'[t]
        OBVIOUS
      <4>1. CASE r \in batch
        BY <2>5, <2>6, <2>7, <2>9, <4>1, TablesAre DEF RunRowsOK
      <4>2. CASE r \notin batch
        BY <2>6, <2>7, <4>2, TablesAre DEF RunRowsOK
      <4>. QED  BY <4>1, <4>2
    <3>2. \A r \in Runs : live'["runs"][r].status = "running" =>
            live'["jobs"][r].status = "running" /\ live'["step_runs"][r].status = "running"
      <4>. SUFFICES ASSUME NEW r \in Runs, live'["runs"][r].status = "running"
                    PROVE  live'["jobs"][r].status = "running" /\ live'["step_runs"][r].status = "running"
        OBVIOUS
      <4>1. live["runs"][r].status = "running"
        BY <2>6, TablesAre DEF Absent
      <4>2. live["jobs"][r].status = "running" /\ live["step_runs"][r].status = "running"
        BY <4>1 DEF RunRowsOK
      <4>3. r \in batch => tab = "logs"
        <5>. SUFFICES ASSUME r \in batch, tab # "logs" PROVE FALSE
          OBVIOUS
        <5>1. live[tab][r].status = "done"
          BY <2>5 DEF status_filter
        <5>. QED  BY <2>1, <4>1, <4>2, <5>1, TablesAre
      <4>. QED  BY <2>6, <4>2, <4>3, TablesAre
    <3>3. \A t \in Tables \ {"runs"} : archived'["runs"] \subseteq archived'[t]
      BY <2>1, <2>7, <2>10, TablesAre DEF RunRowsOK
    <3>4. \A t \in Tables, r \in Runs : live'[t][r].status = "absent" => live'[t][r] = Absent
      BY <2>6 DEF RunRowsOK
    <3>. QED  BY <3>1, <3>2, <3>3, <3>4 DEF RunRowsOK
  <2>12. BatchShrinks'
    BY <1>0, NextTableOK DEF BatchShrinks
  <2>. QED  BY <2>8, <2>11, <2>12
<1>. QED  BY <1>0, <1>1, <1>2 DEF _archive_delete

\* No row is lost and none is doubled, for any number of runs, any windows, and any
\* interleaving of the archiver's statements with the runs and with late writers.
THEOREM NothingLost == ArchiverSpec => []NoDataLoss
<1>1. ArchiverInv /\ [ArchiverNext]_archiverVars => ArchiverInv'
  <2>. SUFFICES ASSUME ArchiverInv, [ArchiverNext]_archiverVars PROVE ArchiverInv'
    OBVIOUS
  <2>1. CASE BatchFails
    BY <2>1, PassIdles DEF BatchFails
  <2>2. CASE UNCHANGED archiverVars
    BY <2>2 DEF ArchiverInv, ArchiverTypeOK, RunRowsOK, BatchShrinks, archiverVars, _build_predicate,
                Table
  <2>. QED  BY <2>1, <2>2, ArchiverTick, ArchiverBegin, ArchiverEnd, ArchiverLate, ArchiverCount,
               ArchiverInsert, ArchiverDelete DEF ArchiverNext, archive_once
<1>2. ArchiverInv => NoDataLoss
  BY DEF ArchiverInv, RunRowsOK, NoDataLoss
<1>. QED  BY ArchiverStart, <1>1, <1>2, PTL DEF ArchiverSpec

-----------------------------------------------------------------------------
(* Write requests.  A row that is there as long as something is settled     *)
(* catches every repetition at its lookup.                                  *)

Request == [pc : {"auth", "lookup", "execute", "store", "replay"}, op : Ops,
            token : Tokens \cup {NoToken}, keyed : BOOLEAN, late : BOOLEAN,
            answer : Ops \cup {"none"}]
CacheRow == [state : {"fresh", "expired"}, hash : Ops \ {"mint_token"}, answer : Ops]

ApiTypeOK ==
    /\ req \in [Slots -> {Idle} \cup Request]
    /\ cache \in {NoRow} \cup CacheRow
    /\ cache # NoRow => cache.answer = cache.hash

\* What is settled has a fresh row, and so has every repetition of it.
SettledIsCached ==
    /\ settled # {} => cache.state = "fresh"
    /\ \A s \in Slots : req[s].pc # "idle" /\ req[s].late => cache.state = "fresh"

ApiInv == ApiTypeOK /\ SettledIsCached /\ AnswersOnce

LEMMA RequestKinds ==
    ASSUME ApiTypeOK, NEW s \in Slots
    PROVE  /\ req[s].pc # "idle" => req[s] \in Request
           /\ req[s].pc = "idle" => req[s] = Idle
           /\ cache.state # "none" => cache \in CacheRow /\ cache.answer = cache.hash
           /\ cache.state = "none" => cache = NoRow
<1>1. req[s] \in {Idle} \cup Request /\ Idle.pc = "idle"
  BY DEF ApiTypeOK, Idle
<1>2. \A r \in Request : r.pc # "idle"
  BY DEF Request
<1>3. NoRow.state = "none" /\ \A c \in CacheRow : c.state # "none"
  BY DEF NoRow, CacheRow
<1>. QED  BY <1>1, <1>2, <1>3 DEF ApiTypeOK

\* One request moves, to rest or to another step of its own, and the cache stays.
LEMMA RequestMoves ==
    ASSUME ApiInv, UNCHANGED <<cache, settled>>, NEW s \in Slots, NEW r \in {Idle} \cup Request,
           req' = [req EXCEPT ![s] = r],
           r.pc # "idle" /\ r.late => cache.state = "fresh",
           r.pc \in {"execute", "store"} /\ r.keyed /\ r.op # "mint_token" => ~r.late,
           r.pc = "replay" => r.answer = r.op
    PROVE  ApiInv'
<1>. USE DEF ApiInv
<1>1. \A t \in Slots : req'[t] = IF t = s THEN r ELSE req[t]
  BY DEF ApiTypeOK
<1>2. ApiTypeOK'
  BY DEF ApiTypeOK
<1>3. SettledIsCached'
  BY <1>1 DEF SettledIsCached
<1>4. RetryReplays'
  BY <1>1 DEF AnswersOnce, RetryReplays, Cacheable, _is_secret_returning_write
<1>5. ReplayIsOwn'
  BY <1>1 DEF AnswersOnce, ReplayIsOwn
<1>. QED  BY <1>2, <1>3, <1>4, <1>5 DEF AnswersOnce

LEMMA RequestRests ==
    ASSUME ApiInv, UNCHANGED <<cache, settled>>, NEW s \in Slots, Answered(s)
    PROVE  ApiInv'
<1>1. Idle.pc = "idle"
  BY DEF Idle
<1>2. req' = [req EXCEPT ![s] = Idle]
  BY DEF Answered
<1>. QED  BY <1>1, <1>2, RequestMoves

LEMMA RequestSent == ASSUME ApiInv, NEW s \in Slots, SendRequest(s) PROVE ApiInv'
<1>1. PICK op \in Ops, t \in Tokens, keyed \in BOOLEAN :
        req' = [req EXCEPT ![s] = [pc |-> "auth", op |-> op, token |-> t, keyed |-> keyed,
                                   late |-> keyed /\ op \in settled, answer |-> "none"]]
  BY DEF SendRequest
<1>. DEFINE r == [pc |-> "auth", op |-> op, token |-> t, keyed |-> keyed,
                  late |-> keyed /\ op \in settled, answer |-> "none"]
<1>2. r \in Request
  BY DEF Request
<1>3. r.pc = "auth" /\ (r.late => settled # {})
  OBVIOUS
<1>4. UNCHANGED <<cache, settled>> /\ req' = [req EXCEPT ![s] = r]
  BY <1>1 DEF SendRequest
<1>. HIDE DEF r
<1>5. r.late => cache.state = "fresh"
  BY <1>3 DEF ApiInv, SettledIsCached
<1>. QED  BY <1>2, <1>3, <1>4, <1>5, RequestMoves

LEMMA TokenChecked == ASSUME ApiInv, NEW s \in Slots, find_by_token(s) PROVE ApiInv'
<1>0. UNCHANGED <<cache, settled>> /\ req[s].pc = "auth" /\ req[s] \in Request
  BY RequestKinds DEF find_by_token, ApiInv
<1>1. CASE Answered(s)
  BY <1>0, <1>1, RequestRests
<1>2. CASE req' = [req EXCEPT ![s].pc = "lookup", ![s].token = NoToken]
  <2>. DEFINE r == [req[s] EXCEPT !.pc = "lookup", !.token = NoToken]
  <2>1. r \in Request /\ r.pc = "lookup" /\ r.late = req[s].late
    BY <1>0 DEF Request
  <2>2. req' = [req EXCEPT ![s] = r]
    BY <1>0, <1>2
  <2>3. req[s].late => cache.state = "fresh"
    BY <1>0 DEF ApiInv, SettledIsCached
  <2>. HIDE DEF r
  <2>. QED  BY <1>0, <2>1, <2>2, <2>3, RequestMoves
<1>. QED  BY <1>1, <1>2 DEF find_by_token

\* A repetition is answered from the row or refused; nothing else gets an answer
\* from it.
LEMMA KeyLookedUp == ASSUME ApiInv, NEW s \in Slots, lookup(s) PROVE ApiInv'
<1>0. /\ UNCHANGED <<cache, settled>> /\ req[s].pc = "lookup" /\ req[s] \in Request
      /\ req[s].late => cache.state = "fresh"
  BY RequestKinds DEF lookup, ApiInv, SettledIsCached
<1>1. CASE (~Cacheable(s) \/ cache.state # "fresh") /\ Step(s, "execute")
  <2>. DEFINE r == [req[s] EXCEPT !.pc = "execute"]
  <2>1. /\ r \in Request /\ r.pc = "execute" /\ r.late = req[s].late
        /\ r.keyed = req[s].keyed /\ r.op = req[s].op
    BY <1>0 DEF Request
  <2>2. req' = [req EXCEPT ![s] = r]
    BY <1>0, <1>1 DEF Step
  <2>3. req[s].keyed /\ req[s].op # "mint_token" => ~req[s].late
    BY <1>0, <1>1 DEF Cacheable, _is_secret_returning_write
  <2>. HIDE DEF r
  <2>. QED  BY <1>0, <2>1, <2>2, <2>3, RequestMoves
<1>2. CASE Answered(s)
  BY <1>0, <1>2, RequestRests
<1>3. CASE /\ cache.state = "fresh" /\ cache.hash = req[s].op
           /\ req' = [req EXCEPT ![s].pc = "replay", ![s].answer = cache.answer]
  <2>. DEFINE r == [req[s] EXCEPT !.pc = "replay", !.answer = cache.answer]
  <2>0. cache \in CacheRow /\ cache.answer = req[s].op
    BY <1>3, RequestKinds DEF ApiInv
  <2>1. r \in Request /\ r.pc = "replay" /\ r.late = req[s].late /\ r.answer = r.op
    BY <1>0, <2>0 DEF Request, CacheRow
  <2>2. req' = [req EXCEPT ![s] = r]
    BY <1>0, <1>3
  <2>. HIDE DEF r
  <2>. QED  BY <1>0, <2>1, <2>2, RequestMoves
<1>. QED  BY <1>1, <1>2, <1>3 DEF lookup

LEMMA HandlerRuns ==
    ASSUME ApiInv, NEW s \in Slots,
           plan_create(s) \/ run_pipeline(s) \/ mint_token(s) \/ revoke_token(s)
    PROVE  ApiInv'
<1>0. /\ UNCHANGED <<cache, settled>> /\ req[s].pc = "execute" /\ req[s] \in Request
      /\ Step(s, "store")
  BY RequestKinds DEF plan_create, run_pipeline, mint_token, revoke_token, ApiInv
<1>. DEFINE r == [req[s] EXCEPT !.pc = "store"]
<1>1. /\ r \in Request /\ r.pc = "store" /\ r.late = req[s].late
      /\ r.keyed = req[s].keyed /\ r.op = req[s].op
  BY <1>0 DEF Request
<1>2. req' = [req EXCEPT ![s] = r]
  BY <1>0 DEF Step
<1>3. /\ req[s].late => cache.state = "fresh"
      /\ req[s].keyed /\ req[s].op # "mint_token" => ~req[s].late
  BY <1>0 DEF ApiInv, SettledIsCached, AnswersOnce, RetryReplays, Cacheable,
              _is_secret_returning_write
<1>. HIDE DEF r
<1>. QED  BY <1>0, <1>1, <1>2, <1>3, RequestMoves

\* A new answer takes the row of an older one; repetitions of the older one are now
\* refused instead of answered.
LEMMA AnswerStored == ASSUME ApiInv, NEW s \in Slots, store(s) PROVE ApiInv'
<1>0. req[s].pc = "store" /\ req[s] \in Request /\ Answered(s)
  BY RequestKinds DEF store, ApiInv
<1>1. CASE UNCHANGED <<cache, settled>>
  BY <1>0, <1>1, RequestRests
<1>2. CASE Cacheable(s) /\ cache' = Stored(s) /\ settled' = settled \cup {req[s].op}
  <2>1. req[s].op \in Ops \ {"mint_token"}
    BY <1>0, <1>2 DEF Cacheable, _is_secret_returning_write, Request
  <2>2. /\ cache' \in CacheRow /\ cache'.state = "fresh" /\ cache'.answer = cache'.hash
        /\ cache'.hash # "mint_token"
    BY <1>2, <2>1 DEF Stored, CacheRow
  <2>3. \A t \in Slots : req'[t] = IF t = s THEN Idle ELSE req[t]
    BY <1>0 DEF Answered, ApiInv, ApiTypeOK
  <2>4. ApiTypeOK'
    BY <1>0, <2>2 DEF Answered, ApiInv, ApiTypeOK
  <2>5. SettledIsCached'
    BY <2>2 DEF SettledIsCached
  <2>6. RetryReplays'
    BY <2>3 DEF ApiInv, AnswersOnce, RetryReplays, Cacheable, _is_secret_returning_write, Idle
  <2>7. ReplayIsOwn'
    BY <2>2, <2>3 DEF ApiInv, AnswersOnce, ReplayIsOwn, Idle
  <2>. QED  BY <2>4, <2>5, <2>6, <2>7 DEF ApiInv, AnswersOnce
<1>. QED  BY <1>1, <1>2 DEF store

\* With the row its repetitions lose their claim to it.
LEMMA RowExpires == ApiInv /\ Expires => ApiInv'
<1>. SUFFICES ASSUME ApiInv, Expires PROVE ApiInv'
  OBVIOUS
<1>. USE DEF ApiInv
<1>1. cache \in CacheRow /\ cache.answer = cache.hash /\ cache' = [cache EXCEPT !.state = "expired"]
      /\ settled' = {}
  BY DEF Expires, ApiTypeOK, NoRow
<1>2. cache' \in CacheRow /\ cache'.answer = cache'.hash /\ cache'.hash # "mint_token"
  BY <1>1 DEF CacheRow
<1>3. \A s \in Slots :
        /\ req[s].pc = "idle" => req'[s] = Idle
        /\ req[s].pc # "idle" => /\ req'[s] \in Request /\ ~req'[s].late
                                 /\ req'[s].pc = req[s].pc /\ req'[s].op = req[s].op
                                 /\ req'[s].answer = req[s].answer
  <2>. SUFFICES ASSUME NEW s \in Slots, req[s].pc # "idle"
                PROVE  /\ req'[s] \in Request /\ ~req'[s].late
                       /\ req'[s].pc = req[s].pc /\ req'[s].op = req[s].op
                       /\ req'[s].answer = req[s].answer
    BY DEF Expires
  <2>1. req'[s] = [req[s] EXCEPT !.late = FALSE] /\ req[s] \in Request
    BY RequestKinds DEF Expires
  <2>. QED  BY <2>1 DEF Request
<1>4. Idle.pc = "idle"
  BY DEF Idle
<1>5. ApiTypeOK'
  <2>1. req' = [s \in Slots |-> req'[s]]
    BY DEF Expires
  <2>2. \A s \in Slots : req'[s] \in {Idle} \cup Request
    BY <1>3
  <2>3. req' \in [Slots -> {Idle} \cup Request]
    BY <2>1, <2>2
  <2>. QED  BY <1>2, <2>3 DEF ApiTypeOK
<1>6. SettledIsCached'
  BY <1>1, <1>3, <1>4 DEF SettledIsCached
<1>7. RetryReplays'
  BY <1>3, <1>4 DEF RetryReplays
<1>8. ReplayIsOwn'
  BY <1>2, <1>3, <1>4 DEF AnswersOnce, ReplayIsOwn
<1>. QED  BY <1>5, <1>6, <1>7, <1>8 DEF AnswersOnce

\* For any number of clients, tokens and failures: within the time to live a repeated
\* request has no second effect, and an answer goes to the request it belongs to.
THEOREM RepetitionsAnswered == ApiSpec => []AnswersOnce
<1>. USE DEF ApiInv
<1>1. ApiInit => ApiInv
  <2>. SUFFICES ASSUME ApiInit PROVE ApiInv
    OBVIOUS
  <2>1. \A s \in Slots : req[s].pc = "idle"
    BY DEF ApiInit, Idle
  <2>2. ApiTypeOK
    BY DEF ApiInit, ApiTypeOK
  <2>. QED  BY <2>1, <2>2 DEF ApiInit, SettledIsCached, AnswersOnce, RetryReplays, ReplayIsOwn
<1>2. ApiInv /\ [ApiNext]_apiVars => ApiInv'
  <2>. SUFFICES ASSUME ApiInv, [ApiNext]_apiVars PROVE ApiInv'
    OBVIOUS
  <2>1. ASSUME UNCHANGED <<cache, settled, req>> PROVE ApiInv'
    BY <2>1 DEF ApiTypeOK, SettledIsCached, AnswersOnce, RetryReplays, ReplayIsOwn, Cacheable
  <2>2. CASE ensure_default_token \/ rotate_token \/ JobClaimed \/ UNCHANGED apiVars
    BY <2>1, <2>2 DEF ensure_default_token, rotate_token, JobClaimed, apiVars
  <2>3. CASE Crash
    <3>1. UNCHANGED <<cache, settled>> /\ req' = [s \in Slots |-> Idle]
      BY <2>3 DEF Crash
    <3>2. \A s \in Slots : req'[s].pc = "idle"
      BY <3>1 DEF Idle
    <3>. QED  BY <3>1, <3>2 DEF ApiTypeOK, SettledIsCached, AnswersOnce, RetryReplays, ReplayIsOwn
  <2>4. CASE delete_expired
    <3>1. cache' = NoRow /\ cache.state = "expired" /\ UNCHANGED <<req, settled>>
      BY <2>4 DEF delete_expired
    <3>. QED  BY <3>1 DEF ApiTypeOK, SettledIsCached, AnswersOnce, RetryReplays, ReplayIsOwn, Cacheable
  <2>5. ASSUME NEW s \in Slots, HandlerRaises(s) \/ _response_from_cache(s) PROVE ApiInv'
    BY <2>5, RequestRests DEF HandlerRaises, _response_from_cache
  <2>. QED  BY <2>2, <2>3, <2>4, <2>5, RowExpires, RequestSent, TokenChecked, KeyLookedUp,
               HandlerRuns, AnswerStored DEF ApiNext
<1>3. ApiInv => AnswersOnce
  OBVIOUS
<1>. QED  BY <1>1, <1>2, <1>3, PTL DEF ApiSpec

-----------------------------------------------------------------------------
(* Graduation.  The block in carve.toml is written first, so the invariant  *)
(* says, for each step of the command, what is missing yet of the component *)
(* that graduates; the other one is as it is between commands.              *)

Syncing == {"sync", "clone", "fetch", "checkout", "reset"}
Graduations == [pc : Syncing \cup {"none", "resolve", "backfill"},
                name : ComponentNames \cup {"none"}, pin : BOOLEAN, todo : SUBSET DbtSteps,
                result : {"none", "refused", "rolled_back", "graduated", "reversed", "raised"}]

ComponentsTypeOK ==
    /\ toml \in [ComponentNames -> [mode : {"none", "remote", "local"}, pin : BOOLEAN]]
    /\ dbt \in repo
    /\ workspace \in [Clones -> [exists : BOOLEAN, dirty : BOOLEAN, ahead : BOOLEAN]]
    /\ stepOf \in [DbtSteps -> {Omitted, dbt}]
    /\ graduation \in Graduations
    /\ graduation.pc # "none" => graduation.name \in ComponentNames
    /\ halfway \in [ComponentNames -> {Complete, "raised", "interrupted"}]

Graduating(n) == graduation.pc # "none" /\ graduation.name = n
HasClone(n) == toml[n].mode = "remote" => workspace[<<n, toml[n].pin>>].exists

\* The component whose command is under way has the block it was given, and its
\* clone once the sync is past it.
BlockIsFirst ==
    graduation.pc # "none" =>
        /\ toml[graduation.name] # NoBlock
        /\ toml[graduation.name].mode = "remote" => toml[graduation.name].pin = graduation.pin
        /\ graduation.pc \in Syncing => toml[graduation.name].mode = "remote"
        /\ graduation.pc \notin {"sync", "clone"} => HasClone(graduation.name)
        /\ graduation.pc = "backfill" => graduation.name = dbt

\* The steps that the back-fill has still to come to.
Ahead ==
    IF ~Graduating(dbt) THEN {} ELSE IF graduation.pc = "backfill" THEN graduation.todo ELSE DbtSteps

\* Apart from it, a block has its clone unless its graduation was interrupted, and
\* the dbt steps name what has a block but for those ahead and those passed over.
ClonesThere == \A n \in ComponentNames : halfway[n] = "interrupted" \/ Graduating(n) \/ HasClone(n)
StepsFilled ==
    \/ halfway[dbt] # Complete \/ toml[dbt] = NoBlock
    \/ \A s \in DbtSteps : s \in passedOver \/ s \in Ahead \/ stepOf[s] = dbt
OthersSettled == ClonesThere /\ StepsFilled

ComponentsInv == ComponentsTypeOK /\ BlockIsFirst /\ OthersSettled

LEMMA ComponentsStart == ComponentsInit => ComponentsInv
<1>. SUFFICES ASSUME ComponentsInit PROVE ComponentsInv
  OBVIOUS
<1>1. ComponentsTypeOK
  BY DEF ComponentsInit, ComponentsTypeOK, NoBlock, NoClone, AtRest, Graduations, Complete
<1>2. BlockIsFirst
  BY DEF ComponentsInit, BlockIsFirst, AtRest
<1>3. OthersSettled
  BY DEF ComponentsInit, OthersSettled, ClonesThere, StepsFilled, HasClone, NoBlock, ComponentNames
<1>. QED  BY <1>1, <1>2, <1>3 DEF ComponentsInv

\* graduate: the block, unless there is one or convention does not find the component.
LEMMA BlockWritten ==
    ASSUME ComponentsInv, NEW n \in ComponentNames, NEW mode \in {"remote", "local"},
           NEW pin \in BOOLEAN, write_component_block(n, mode, pin)
    PROVE  ComponentsInv'
<1>. USE DEF ComponentsInv
<1>0. graduation.pc = "none" /\ UNCHANGED <<repo, workspace, stepOf, passedOver>>
  BY DEF write_component_block
<1>1. CASE UNCHANGED <<toml, halfway>> /\ graduation' = [AtRest EXCEPT !.name = n, !.result = "refused"]
  <2>1. graduation'.pc = "none" /\ graduation' \in Graduations
    BY <1>1 DEF AtRest, Graduations
  <2>2. ClonesThere' /\ StepsFilled'
    BY <1>0, <1>1, <2>1 DEF OthersSettled, ClonesThere, StepsFilled, Ahead, Graduating, HasClone
  <2>. QED  BY <1>0, <1>1, <2>1, <2>2 DEF ComponentsTypeOK, BlockIsFirst, OthersSettled
<1>2. CASE /\ toml[n] = NoBlock /\ toml' = [toml EXCEPT ![n] = [mode |-> mode, pin |-> pin]]
           /\ graduation' = [AtRest EXCEPT !.pc = IF mode = "remote" THEN "sync" ELSE "resolve",
                                           !.name = n, !.pin = pin]
           /\ halfway' = [halfway EXCEPT ![n] = Complete]
  <2>1. /\ graduation' \in Graduations /\ graduation'.pc # "none" /\ graduation'.name = n
        /\ graduation'.pin = pin /\ graduation'.pc = IF mode = "remote" THEN "sync" ELSE "resolve"
    BY <1>2 DEF Graduations, Syncing, AtRest
  <2>2. \A m \in ComponentNames :
          /\ toml'[m] = IF m = n THEN [mode |-> mode, pin |-> pin] ELSE toml[m]
          /\ m # n => halfway'[m] = halfway[m]
    BY <1>2 DEF ComponentsTypeOK
  <2>3. ComponentsTypeOK'
    <3>1. toml' \in [ComponentNames -> [mode : {"none", "remote", "local"}, pin : BOOLEAN]]
      BY <1>2 DEF ComponentsTypeOK
    <3>2. halfway' \in [ComponentNames -> {Complete, "raised", "interrupted"}]
      BY <1>2 DEF ComponentsTypeOK
    <3>. QED  BY <1>0, <2>1, <3>1, <3>2 DEF ComponentsTypeOK
  <2>4. BlockIsFirst'
    BY <2>1, <2>2 DEF BlockIsFirst, HasClone, NoBlock, Syncing
  <2>5. ClonesThere'
    BY <1>0, <2>1, <2>2 DEF OthersSettled, ClonesThere, HasClone, Graduating, ComponentNames
  <2>6. StepsFilled'
    <3>1. CASE n = dbt
      BY <2>1, <3>1 DEF StepsFilled, Ahead, Graduating
    <3>2. CASE n # dbt
      BY <1>0, <2>1, <2>2, <3>2 DEF OthersSettled, StepsFilled, Ahead, Graduating, ComponentNames
    <3>. QED  BY <3>1, <3>2
  <2>. QED  BY <2>3, <2>4, <2>5, <2>6 DEF OthersSettled
<1>. QED  BY <1>1, <1>2 DEF write_component_block

\* The block is taken out, by reverse or because something failed.
LEMMA BlockRemoved ==
    ASSUME ComponentsInv, NEW n \in ComponentNames, graduation.pc = "none" \/ graduation.name = n,
           toml' = [toml EXCEPT ![n] = NoBlock], graduation' \in Graduations, graduation'.pc = "none",
           UNCHANGED <<repo, workspace, stepOf, halfway, passedOver>>
    PROVE  ComponentsInv'
<1>. USE DEF ComponentsInv
<1>1. \A m \in ComponentNames : toml'[m] = IF m = n THEN NoBlock ELSE toml[m]
  BY DEF ComponentsTypeOK
<1>2. ComponentsTypeOK'
  BY DEF ComponentsTypeOK, NoBlock
<1>3. BlockIsFirst'
  BY DEF BlockIsFirst
<1>4. OthersSettled'
  <2>1. \A m \in ComponentNames : m # n => ~Graduating(m) /\ toml'[m] = toml[m]
    BY <1>1 DEF Graduating
  <2>2. toml'[n] = NoBlock /\ NoBlock.mode # "remote"
    BY <1>1 DEF NoBlock
  <2>3. ClonesThere'
    BY <2>1, <2>2 DEF OthersSettled, ClonesThere, HasClone
  <2>4. dbt \in ComponentNames
    BY DEF ComponentNames
  <2>5. StepsFilled'
    <3>1. CASE n = dbt
      BY <2>2, <3>1 DEF StepsFilled
    <3>2. CASE n # dbt
      BY <2>1, <2>4, <3>2 DEF OthersSettled, StepsFilled, Ahead
    <3>. QED  BY <3>1, <3>2
  <2>. QED  BY <2>3, <2>5 DEF OthersSettled
<1>. QED  BY <1>2, <1>3, <1>4

LEMMA CommandRollsBack == ComponentsInv /\ RollBack => ComponentsInv'
<1>. SUFFICES ASSUME ComponentsInv, RollBack PROVE ComponentsInv'
  OBVIOUS
<1>1. graduation.name \in ComponentNames /\ graduation \in Graduations
  BY DEF RollBack, ComponentsInv, ComponentsTypeOK
<1>2. graduation' = [graduation EXCEPT !.pc = "none", !.result = "rolled_back"]
  BY DEF RollBack, CommandEnds
<1>3. graduation' \in Graduations /\ graduation'.pc = "none"
  BY <1>1, <1>2 DEF Graduations
<1>. QED  BY <1>1, <1>3, BlockRemoved DEF RollBack, remove_component_block

LEMMA ReverseSettles ==
    ASSUME ComponentsInv, NEW n \in ComponentNames, _reverse_graduation(n)
    PROVE  ComponentsInv'
<1>0. graduation.pc = "none" /\ UNCHANGED <<repo, workspace, stepOf, halfway, passedOver>>
  BY DEF _reverse_graduation
<1>1. CASE toml[n] = NoBlock
  <2>1. graduation' = [AtRest EXCEPT !.name = n, !.result = "refused"] /\ toml' = toml
    BY <1>1 DEF _reverse_graduation
  <2>2. graduation' \in Graduations /\ graduation'.pc = "none"
    BY <2>1 DEF AtRest, Graduations
  <2>3. ClonesThere' /\ StepsFilled'
    BY <1>0, <2>1, <2>2 DEF ComponentsInv, OthersSettled, ClonesThere, StepsFilled, Ahead, Graduating, HasClone
  <2>. QED  BY <1>0, <2>1, <2>2, <2>3 DEF ComponentsInv, ComponentsTypeOK, BlockIsFirst, OthersSettled
<1>2. CASE toml[n] # NoBlock
  <2>1. /\ graduation' = [AtRest EXCEPT !.name = n, !.result = "reversed"]
        /\ toml' = [toml EXCEPT ![n] = NoBlock]
    BY <1>2 DEF _reverse_graduation
  <2>2. graduation' \in Graduations /\ graduation'.pc = "none"
    BY <2>1 DEF AtRest, Graduations
  <2>. QED  BY <1>0, <2>1, <2>2, BlockRemoved
<1>. QED  BY <1>1, <1>2

\* A step of sync_workspace: it may make the clone, and never takes it away.
LEMMA SyncSteps ==
    ASSUME ComponentsInv, graduation.pc \in Syncing, NEW pc \in Syncing \cup {"resolve"},
           NEW clone \in [exists : BOOLEAN, dirty : BOOLEAN, ahead : BOOLEAN],
           Sync(clone, pc), Clone.exists => clone.exists, pc \in {"sync", "clone"} \/ clone.exists
    PROVE  ComponentsInv'
<1>. USE DEF ComponentsInv
<1>. DEFINE n == graduation.name
<1>1. n \in ComponentNames /\ graduation \in Graduations
  BY DEF ComponentsTypeOK, Syncing
<1>2. UNCHANGED <<toml, repo, stepOf, halfway, passedOver>>
  BY DEF Sync
<1>3. Cloned \in Clones /\ Cloned = <<n, graduation.pin>>
  BY <1>1 DEF Cloned, Clones, Graduations
<1>4. \A c \in Clones : workspace'[c] = IF c = Cloned THEN clone ELSE workspace[c]
  BY <1>3 DEF Sync, ComponentsTypeOK
<1>5. /\ graduation' \in Graduations /\ graduation'.pc = pc /\ graduation'.name = n
      /\ graduation'.pin = graduation.pin /\ pc # "none"
  BY <1>1 DEF Sync, Goto, Graduations, Syncing
<1>. HIDE DEF n
<1>6. toml[n].mode = "remote" /\ toml[n].pin = graduation.pin /\ toml[n] # NoBlock
  BY <1>1 DEF BlockIsFirst, Syncing, n
<1>7. ComponentsTypeOK'
  <2>1. workspace' \in [Clones -> [exists : BOOLEAN, dirty : BOOLEAN, ahead : BOOLEAN]]
    BY <1>3 DEF Sync, ComponentsTypeOK
  <2>. QED  BY <1>1, <1>2, <1>5, <2>1 DEF ComponentsTypeOK
<1>8. pc \notin {"sync", "clone"} => workspace'[<<n, toml[n].pin>>].exists
  BY <1>3, <1>4, <1>6
<1>9. BlockIsFirst'
  BY <1>2, <1>5, <1>6, <1>8 DEF BlockIsFirst, HasClone, Syncing
<1>10. OthersSettled'
  <2>1. \A m \in ComponentNames : HasClone(m) => HasClone(m)'
    <3>. SUFFICES ASSUME NEW m \in ComponentNames, HasClone(m), toml[m].mode = "remote"
                  PROVE  workspace'[<<m, toml[m].pin>>].exists
      BY <1>2 DEF HasClone
    <3>1. <<m, toml[m].pin>> \in Clones
      BY DEF Clones, ComponentsTypeOK
    <3>2. workspace[<<m, toml[m].pin>>].exists
      BY DEF HasClone
    <3>. QED  BY <1>3, <1>4, <3>1, <3>2 DEF Clone
  <2>2. graduation.pc # "none"
    BY DEF Syncing
  <2>3. \A m \in ComponentNames : Graduating(m)' <=> Graduating(m)
    BY <1>5, <2>2 DEF Graduating, n
  <2>4. Ahead' = Ahead
    BY <1>5, <2>3 DEF Ahead, Syncing, ComponentNames
  <2>. QED  BY <1>2, <2>1, <2>3, <2>4 DEF OthersSettled, ClonesThere, StepsFilled, ComponentNames
<1>. QED  BY <1>7, <1>9, <1>10

LEMMA WorkspaceSynced ==
    ComponentsInv /\ (sync_workspace \/ _clone \/ Fetch \/ Checkout \/ ResetHard) => ComponentsInv'
<1>. SUFFICES ASSUME ComponentsInv, sync_workspace \/ _clone \/ Fetch \/ Checkout \/ ResetHard
              PROVE  ComponentsInv'
  OBVIOUS
<1>. DEFINE new == [NoClone EXCEPT !.exists = TRUE]
            Kinds == [exists : BOOLEAN, dirty : BOOLEAN, ahead : BOOLEAN]
<1>0. graduation.pc \in Syncing
  BY DEF sync_workspace, _clone, Fetch, Checkout, ResetHard, Syncing
<1>1. graduation.name \in ComponentNames /\ graduation.pin \in BOOLEAN
  BY <1>0 DEF ComponentsInv, ComponentsTypeOK, Graduations, Syncing
<1>2. Clone \in Kinds /\ Cloned \in Clones
  BY <1>1 DEF Clone, Cloned, Clones, ComponentsInv, ComponentsTypeOK
<1>3. graduation.pc \in {"fetch", "checkout", "reset"} => Clone.exists
  <2>. SUFFICES ASSUME graduation.pc \in {"fetch", "checkout", "reset"} PROVE Clone.exists
    OBVIOUS
  <2>1. /\ toml[graduation.name].mode = "remote" /\ toml[graduation.name].pin = graduation.pin
        /\ HasClone(graduation.name)
    BY <1>0 DEF ComponentsInv, BlockIsFirst, Syncing
  <2>. QED  BY <2>1 DEF HasClone, Clone, Cloned
<1>5. new \in Kinds /\ new.exists
  BY DEF NoClone
<1>. HIDE DEF new
<1>6. CASE sync_workspace
  <2>1. Sync(Clone, "clone") /\ "clone" \in Syncing
    BY <1>6 DEF sync_workspace, Syncing
  <2>. QED  BY <1>0, <1>2, <2>1, SyncSteps
<1>7. CASE _clone
  <2>. DEFINE pc == IF graduation.pin THEN "checkout" ELSE "resolve"
  <2>1. Sync(new, pc) /\ pc \in Syncing \cup {"resolve"}
    BY <1>7 DEF _clone, Syncing, new
  <2>. HIDE DEF pc
  <2>. QED  BY <1>0, <1>5, <2>1, SyncSteps
<1>8. CASE Fetch
  <2>1. Sync(Clone, "checkout") /\ "checkout" \in Syncing /\ Clone.exists
    BY <1>3, <1>8 DEF Fetch, Syncing
  <2>. QED  BY <1>0, <1>2, <2>1, SyncSteps
<1>9. CASE Checkout
  <2>. DEFINE pc == IF graduation.pin THEN "resolve" ELSE "reset"
  <2>1. Sync(Clone, pc) /\ pc \in Syncing \cup {"resolve"} /\ Clone.exists
    BY <1>3, <1>9 DEF Checkout, Syncing
  <2>. HIDE DEF pc
  <2>. QED  BY <1>0, <1>2, <2>1, SyncSteps
<1>10. CASE ResetHard
  <2>1. Sync(new, "resolve")
    BY <1>10 DEF ResetHard, new
  <2>. QED  BY <1>0, <1>5, <2>1, SyncSteps
<1>. QED  BY <1>6, <1>7, <1>8, <1>9, <1>10

\* The command ends early and the block stays: what is not done yet of its component
\* is excused.
LEMMA GraduationStops ==
    ASSUME ComponentsInv, NEW why \in {"raised", "interrupted"}, CutShort(why),
           graduation' \in Graduations, graduation'.pc = "none",
           why = "interrupted" \/ HasClone(graduation.name)
    PROVE  ComponentsInv'
<1>. USE DEF ComponentsInv
<1>1. UNCHANGED <<toml, repo, workspace, stepOf, passedOver>> /\ graduation.name \in ComponentNames
  BY DEF CutShort, ComponentsTypeOK
<1>2. halfway' = [halfway EXCEPT ![graduation.name] = why]
  BY DEF CutShort
<1>3. /\ halfway' \in [ComponentNames -> {Complete, "raised", "interrupted"}]
      /\ halfway'[graduation.name] = why
      /\ \A n \in ComponentNames : n # graduation.name => halfway'[n] = halfway[n]
  BY <1>1, <1>2 DEF ComponentsTypeOK
<1>4. ComponentsTypeOK' /\ BlockIsFirst'
  BY <1>1, <1>3 DEF ComponentsTypeOK, BlockIsFirst
<1>5. ClonesThere'
  BY <1>1, <1>3 DEF OthersSettled, ClonesThere, Graduating, HasClone
<1>6. StepsFilled'
  <2>1. CASE graduation.name = dbt
    BY <1>3, <2>1 DEF StepsFilled, Complete
  <2>2. CASE graduation.name # dbt
    BY <1>1, <1>3, <2>2 DEF OthersSettled, StepsFilled, Ahead, Graduating, ComponentNames
  <2>. QED  BY <2>1, <2>2
<1>. QED  BY <1>4, <1>5, <1>6 DEF OthersSettled

\* A clone with edits stops the command with the block written, or is none of that.
LEMMA DirtyRejected == ComponentsInv /\ reject_if_dirty => ComponentsInv'
<1>. SUFFICES ASSUME ComponentsInv, reject_if_dirty PROVE ComponentsInv'
  OBVIOUS
<1>. USE DEF ComponentsInv
<1>0. /\ UNCHANGED <<toml, repo, workspace, stepOf>>
      /\ graduation.pc = "sync" /\ Clone.exists /\ graduation \in Graduations
      /\ graduation.name \in ComponentNames
  BY DEF reject_if_dirty, CutShort, ComponentsTypeOK
<1>1. HasClone(graduation.name)
  BY <1>0 DEF BlockIsFirst, HasClone, Clone, Cloned
<1>2. CASE CommandEnds("raised") /\ CutShort("raised")
  <2>1. graduation' \in Graduations /\ graduation'.pc = "none"
    BY <1>0, <1>2 DEF CommandEnds, Graduations
  <2>. QED  BY <1>1, <1>2, <2>1, GraduationStops
<1>3. CASE Goto("fetch") /\ UNCHANGED <<halfway, passedOver>>
  <2>1. /\ graduation' \in Graduations /\ graduation'.pc = "fetch"
        /\ graduation'.name = graduation.name /\ graduation'.pin = graduation.pin
    BY <1>0, <1>3 DEF Goto, Graduations, Syncing
  <2>2. ComponentsTypeOK'
    BY <1>0, <1>3, <2>1 DEF ComponentsTypeOK
  <2>3. BlockIsFirst'
    BY <1>0, <1>1, <2>1 DEF BlockIsFirst, HasClone, Syncing
  <2>4. ClonesThere' /\ StepsFilled'
    BY <1>0, <1>3, <2>1 DEF OthersSettled, ClonesThere, StepsFilled, Ahead, Graduating, HasClone
  <2>. QED  BY <2>2, <2>3, <2>4 DEF OthersSettled
<1>. QED  BY <1>2, <1>3 DEF reject_if_dirty

\* The end of the command: file by file the dbt steps that left their component out
\* name it.
LEMMA StepsBackfilled ==
    ASSUME ComponentsInv,
           Resolved \/ WriteFails \/ _report_graduation \/ \E s \in DbtSteps : backfill_dbt_step_components(s)
    PROVE  ComponentsInv'
<1>. USE DEF ComponentsInv
<1>0. /\ graduation \in Graduations /\ graduation.name \in ComponentNames
      /\ HasClone(graduation.name)
  BY DEF Resolved, WriteFails, _report_graduation, backfill_dbt_step_components, ComponentsTypeOK, BlockIsFirst
<1>1. CASE Resolved
  <2>1. /\ UNCHANGED <<toml, repo, workspace, stepOf, halfway, passedOver>>
        /\ graduation.pc = "resolve"
    BY <1>1 DEF Resolved
  <2>2. CASE graduation.name = dbt
    <3>1. /\ graduation' \in Graduations /\ graduation'.pc = "backfill" /\ graduation'.todo = DbtSteps
          /\ graduation'.name = graduation.name /\ graduation'.pin = graduation.pin
      BY <1>0, <1>1, <2>2 DEF Resolved, Graduations
    <3>2. ComponentsTypeOK' /\ BlockIsFirst'
      BY <1>0, <2>1, <2>2, <3>1 DEF ComponentsTypeOK, BlockIsFirst, HasClone, Syncing
    <3>3. ClonesThere' /\ StepsFilled'
      BY <2>1, <3>1 DEF OthersSettled, ClonesThere, StepsFilled, Ahead, HasClone, Graduating
    <3>. QED  BY <3>2, <3>3 DEF OthersSettled
  <2>3. CASE graduation.name # dbt
    <3>1. graduation' \in Graduations /\ graduation'.pc = "none"
      BY <1>0, <1>1, <2>3 DEF Resolved, CommandEnds, Graduations
    <3>2. ComponentsTypeOK' /\ BlockIsFirst'
      BY <2>1, <3>1 DEF ComponentsTypeOK, BlockIsFirst
    <3>3. ClonesThere' /\ StepsFilled'
      BY <1>0, <2>1, <2>3, <3>1 DEF OthersSettled, ClonesThere, StepsFilled, Ahead, HasClone, Graduating
    <3>. QED  BY <3>2, <3>3 DEF OthersSettled
  <2>. QED  BY <2>2, <2>3
<1>2. CASE WriteFails
  <2>1. graduation' \in Graduations /\ graduation'.pc = "none" /\ CutShort("raised")
    BY <1>0, <1>2 DEF WriteFails, CommandEnds, Graduations
  <2>. QED  BY <1>0, <2>1, GraduationStops
<1>3. CASE _report_graduation
  <2>1. /\ UNCHANGED <<toml, repo, workspace, stepOf, halfway, passedOver>>
        /\ graduation' \in Graduations /\ graduation'.pc = "none"
        /\ graduation.pc = "backfill" /\ graduation.todo = {}
    BY <1>0, <1>3 DEF _report_graduation, CommandEnds, Graduations
  <2>2. ComponentsTypeOK' /\ BlockIsFirst'
    BY <2>1 DEF ComponentsTypeOK, BlockIsFirst
  <2>3. ClonesThere' /\ StepsFilled'
    BY <1>0, <2>1 DEF OthersSettled, ClonesThere, StepsFilled, Ahead, HasClone, Graduating
  <2>. QED  BY <2>2, <2>3 DEF OthersSettled
<1>4. ASSUME NEW s \in DbtSteps, backfill_dbt_step_components(s) PROVE ComponentsInv'
  <2>1. /\ UNCHANGED <<toml, repo, workspace, halfway>> /\ graduation.pc = "backfill"
        /\ graduation' = [graduation EXCEPT !.todo = @ \ {s}]
    BY <1>4 DEF backfill_dbt_step_components
  <2>2. /\ graduation' \in Graduations /\ graduation'.pc = "backfill" /\ graduation'.name = graduation.name
        /\ graduation'.pin = graduation.pin /\ graduation'.todo = graduation.todo \ {s}
    BY <1>0, <2>1 DEF Graduations
  <2>3. /\ stepOf' \in [DbtSteps -> {Omitted, dbt}]
        /\ s \in passedOver' \/ stepOf'[s] = dbt
        /\ \A t \in DbtSteps \ {s} : stepOf'[t] = stepOf[t] /\ (t \in passedOver => t \in passedOver')
    BY <1>4 DEF backfill_dbt_step_components, ComponentsTypeOK
  <2>4. ComponentsTypeOK' /\ BlockIsFirst'
    BY <1>0, <2>1, <2>2, <2>3 DEF ComponentsTypeOK, BlockIsFirst, HasClone, Syncing
  <2>5. ClonesThere'
    BY <2>1, <2>2 DEF OthersSettled, ClonesThere, HasClone, Graduating
  <2>6. StepsFilled'
    BY <2>1, <2>2, <2>3 DEF OthersSettled, StepsFilled, Ahead, Graduating
  <2>. QED  BY <2>4, <2>5, <2>6 DEF OthersSettled
<1>. QED  BY <1>1, <1>2, <1>3, <1>4

\* People keep a clone or delete that of a component without a block.
LEMMA PeopleEdit ==
    ASSUME ComponentsInv, NEW c \in Clones,
           EditWorkspace(c) \/ CommitWorkspace(c) \/ DeleteWorkspace(c)
    PROVE  ComponentsInv'
<1>. USE DEF ComponentsInv
<1>0. UNCHANGED <<toml, repo, stepOf, graduation, halfway, passedOver>>
  BY DEF EditWorkspace, CommitWorkspace, DeleteWorkspace
<1>1. /\ workspace' \in [Clones -> [exists : BOOLEAN, dirty : BOOLEAN, ahead : BOOLEAN]]
      /\ \A b \in Clones : \/ workspace'[b].exists = workspace[b].exists
                           \/ b = c /\ toml[c[1]] = NoBlock
  <2>1. workspace \in [Clones -> [exists : BOOLEAN, dirty : BOOLEAN, ahead : BOOLEAN]]
    BY DEF ComponentsTypeOK
  <2>2. CASE EditWorkspace(c)
    BY <2>1, <2>2 DEF EditWorkspace
  <2>3. CASE CommitWorkspace(c)
    BY <2>1, <2>3 DEF CommitWorkspace
  <2>4. CASE DeleteWorkspace(c)
    BY <2>1, <2>4 DEF DeleteWorkspace, NoClone
  <2>. QED  BY <2>2, <2>3, <2>4
<1>2. \A n \in ComponentNames : HasClone(n) => HasClone(n)'
  <2>. SUFFICES ASSUME NEW n \in ComponentNames, HasClone(n), toml[n].mode = "remote"
                PROVE  workspace'[<<n, toml[n].pin>>].exists
    BY <1>0 DEF HasClone
  <2>1. <<n, toml[n].pin>> \in Clones /\ <<n, toml[n].pin>>[1] = n
    BY DEF Clones, ComponentsTypeOK
  <2>2. toml[n] # NoBlock
    BY DEF NoBlock
  <2>3. workspace[<<n, toml[n].pin>>].exists
    BY DEF HasClone
  <2>. QED  BY <1>1, <2>1, <2>2, <2>3
<1>3. ComponentsTypeOK'
  BY <1>0, <1>1 DEF ComponentsTypeOK
<1>4. BlockIsFirst'
  BY <1>0, <1>2 DEF BlockIsFirst, ComponentsTypeOK
<1>5. ClonesThere' /\ StepsFilled'
  BY <1>0, <1>2 DEF OthersSettled, ClonesThere, StepsFilled, Ahead, Graduating
<1>. QED  BY <1>3, <1>4, <1>5 DEF OthersSettled

\* Whatever git and people do, and wherever graduations are cut short: between commands
\* a block whose graduation was not interrupted has its clone, and the dbt steps of all
\* pipelines use one copy of their component, but for those whose file the last
\* back-fill could not read.
THEOREM GraduationAgrees == ComponentsSpec => []GraduationSettles
<1>1. ComponentsInv /\ [ComponentsNext]_componentVars => ComponentsInv'
  <2>. SUFFICES ASSUME ComponentsInv, [ComponentsNext]_componentVars PROVE ComponentsInv'
    OBVIOUS
  <2>1. CASE Interrupted
    <3>1. CutShort("interrupted") /\ graduation' \in Graduations /\ graduation'.pc = "none"
      BY <2>1 DEF Interrupted, AtRest, Graduations
    <3>. QED  BY <3>1, GraduationStops
  <2>2. CASE UNCHANGED componentVars
    BY <2>2 DEF componentVars, ComponentsInv, ComponentsTypeOK, BlockIsFirst, OthersSettled,
                ClonesThere, StepsFilled, Ahead, Graduating, HasClone
  <2>3. ASSUME NEW n \in ComponentNames, _graduate_remote(n) \/ _graduate_local(n)
        PROVE  ComponentsInv'
    BY <2>3, BlockWritten DEF _graduate_remote, _graduate_local
  <2>. QED  BY <2>1, <2>2, <2>3, CommandRollsBack, ReverseSettles, WorkspaceSynced, DirtyRejected,
               StepsBackfilled, PeopleEdit DEF ComponentsNext
<1>2. ComponentsInv => GraduationSettles
  <2>. SUFFICES ASSUME ComponentsInv, graduation.pc = "none" PROVE GraduationSettles
    BY DEF GraduationSettles
  <2>1. \A n \in ComponentNames :
           toml[n].mode = "remote" /\ halfway[n] # "interrupted" => workspace[<<n, toml[n].pin>>].exists
    BY DEF ComponentsInv, OthersSettled, ClonesThere, Graduating, HasClone
  <2>2. ASSUME toml[dbt] = NoBlock \/ halfway[dbt] = Complete,
               NEW s \in DbtSteps, toml[dbt] = NoBlock \/ s \notin passedOver,
               NEW t \in DbtSteps, toml[dbt] = NoBlock \/ t \notin passedOver
        PROVE  resolve_dbt_component(s) = resolve_dbt_component(t)
    <3>1. toml[dbt] = NoBlock \/ (stepOf[s] = dbt /\ stepOf[t] = dbt)
      <4>1. Ahead = {}
        BY DEF Ahead, Graduating
      <4>. QED  BY <2>2, <4>1 DEF ComponentsInv, OthersSettled, StepsFilled
    <3>2. dbt # Omitted /\ {stepOf[s], stepOf[t]} \subseteq {Omitted, dbt}
      BY DEF ComponentsInv, ComponentsTypeOK, dbt, Omitted
    <3>3. toml[dbt] = NoBlock => resolve_component(dbt) = "repo"
      BY DEF resolve_component, _resolve_convention, ComponentsInv, ComponentsTypeOK
    <3>4. _detect_dbt_project = "repo"
      BY DEF _detect_dbt_project, ComponentsInv, ComponentsTypeOK
    <3>. QED  BY <3>1, <3>2, <3>3, <3>4 DEF resolve_dbt_component
  <2>3. toml[dbt] = NoBlock \/ halfway[dbt] = Complete =>
          \A s, t \in DbtSteps \ (IF toml[dbt] = NoBlock THEN {} ELSE passedOver) :
             resolve_dbt_component(s) = resolve_dbt_component(t)
    BY <2>2
  <2>. QED  BY <2>1, <2>3 DEF GraduationSettles
<1>. QED  BY ComponentsStart, <1>1, <1>2, PTL DEF ComponentsSpec

-----------------------------------------------------------------------------
(* Targets.  In the middle of a command the files differ by what it has     *)
(* still to write.                                                          *)

Commands == [pc : {"create_env", "rename_env", "rename_default", "delete_env"},
             old : TargetNames \cup {"none"}, new : TargetNames \cup {"none"}]
Renaming == command.pc \in {"rename_env", "rename_default"}

TargetsTypeOK ==
    /\ conn \in [ConfigDirs -> [TargetNames -> {"absent", "placeholder", "literal"}]]
    /\ configDir \in ConfigDirs
    /\ envExample \in [TargetNames -> Nat]
    /\ command \in {NoCommand} \cup Commands
    /\ Renaming \/ command.pc = "create_env" => command.new \in TargetNames
    /\ Renaming \/ command.pc = "delete_env" => command.old \in TargetNames
    /\ history \in [had : BOOLEAN, unforced : BOOLEAN, interrupted : BOOLEAN]

\* A rename has moved the section; the block follows, and then the default.
RenameInStep ==
    /\ command.pc = "delete_env" => conn["carve"][command.old] = "absent"
    /\ Renaming => /\ conn["carve"][command.old] = "absent"
                   /\ conn["carve"][command.new] # "absent"
    /\ command.pc = "rename_env" => Mentioned(command.old)

BlocksFollow ==
    \A n \in defined("carve") :
        Mentioned(n) \/ (command.pc \in {"create_env", "rename_env"} /\ command.new = n)

DefaultFollows ==
    history.had => default \in defined("carve") \/ (Renaming /\ default = command.old)

TargetsInv ==
    /\ TargetsTypeOK
    /\ ~history.interrupted /\ configDir = "carve" =>
          RenameInStep /\ BlocksFollow /\ DefaultFollows

LEMMA CommandKinds ==
    ASSUME TargetsTypeOK
    PROVE  /\ command # NoCommand => command \in Commands /\ command.pc # "none"
           /\ command = NoCommand => command.pc = "none"
  BY DEF TargetsTypeOK, NoCommand, Commands

\* One section of carve/ changes.
LEMMA SectionChanges ==
    ASSUME TargetsTypeOK, NEW n \in TargetNames, NEW value \in {"absent", "placeholder", "literal"},
           Section("carve", n, value)
    PROVE  /\ conn' \in [ConfigDirs -> [TargetNames -> {"absent", "placeholder", "literal"}]]
           /\ \A m \in TargetNames : conn'["carve"][m] = IF m = n THEN value ELSE conn["carve"][m]
<1>1. conn' = [conn EXCEPT !["carve"] = [conn["carve"] EXCEPT ![n] = value]]
  BY DEF Section
<1>2. "carve" \in ConfigDirs
  BY DEF ConfigDirs
<1>. QED  BY <1>1, <1>2 DEF TargetsTypeOK

LEMMA CreateKeeps ==
    ASSUME TargetsInv, NEW n \in TargetNames, create_command(n) PROVE TargetsInv'
<1>. USE DEF TargetsInv
<1>0. /\ command = NoCommand /\ command.pc = "none"
      /\ command' = [pc |-> "create_env", old |-> "none", new |-> n]
      /\ history' = [history EXCEPT !.had = @ \/ n = default]
      /\ UNCHANGED <<configDir, default, envExample, env>> /\ Section("carve", n, "placeholder")
  BY DEF create_command, Then, Had, NoCommand
<1>1. /\ conn' \in [ConfigDirs -> [TargetNames -> {"absent", "placeholder", "literal"}]]
      /\ \A m \in TargetNames : conn'["carve"][m] = IF m = n THEN "placeholder" ELSE conn["carve"][m]
  BY <1>0, SectionChanges
<1>2. /\ history' \in [had : BOOLEAN, unforced : BOOLEAN, interrupted : BOOLEAN]
      /\ history'.interrupted = history.interrupted
      /\ history'.had = (history.had \/ n = default)
  BY <1>0 DEF TargetsTypeOK
<1>3. command' \in Commands /\ command'.pc = "create_env" /\ command'.new = n
  BY <1>0 DEF Commands
<1>4. TargetsTypeOK'
  BY <1>0, <1>1, <1>2, <1>3 DEF TargetsTypeOK, Renaming
<1>5. ASSUME ~history.interrupted, configDir = "carve"
      PROVE  RenameInStep' /\ BlocksFollow' /\ DefaultFollows'
  <2>1. RenameInStep'
    BY <1>3 DEF RenameInStep, Renaming
  <2>2. BlocksFollow'
    BY <1>0, <1>1, <1>3, <1>5 DEF BlocksFollow, defined, Mentioned
  <2>3. DefaultFollows'
    BY <1>0, <1>1, <1>2, <1>5 DEF DefaultFollows, Renaming, defined
  <2>. QED  BY <2>1, <2>2, <2>3
<1>. QED  BY <1>0, <1>2, <1>4, <1>5

\* Adding a block takes none away.
LEMMA BlockAdded ==
    ASSUME TargetsTypeOK, NEW n \in TargetNames, envExample' = add_env_example_block(n)
    PROVE  /\ envExample' \in [TargetNames -> Nat]
           /\ \A m \in TargetNames : Mentioned(m)' <=> Mentioned(m) \/ m = n
<1>1. CASE Mentioned(n)
  BY <1>1 DEF add_env_example_block, Mentioned, TargetsTypeOK
<1>2. CASE ~Mentioned(n)
  <2>1. envExample' = [envExample EXCEPT ![n] = 1]
    BY <1>2 DEF add_env_example_block
  <2>. QED  BY <2>1 DEF Mentioned, TargetsTypeOK
<1>. QED  BY <1>1, <1>2

LEMMA BlockKeeps ==
    ASSUME TargetsInv, create_env \/ \E n \in TargetNames : init_command(n) PROVE TargetsInv'
<1>. USE DEF TargetsInv
<1>1. CASE \E n \in TargetNames : init_command(n)
  <2>1. PICK n \in TargetNames : init_command(n)
    BY <1>1
  <2>2. /\ UNCHANGED <<conn, configDir, default, command, history>>
        /\ envExample' = add_env_example_block(n)
    BY <2>1 DEF init_command
  <2>3. /\ envExample' \in [TargetNames -> Nat]
        /\ \A m \in TargetNames : Mentioned(m) => Mentioned(m)'
    BY <2>2, BlockAdded
  <2>4. TargetsTypeOK'
    BY <2>2, <2>3 DEF TargetsTypeOK, Renaming
  <2>5. ASSUME ~history.interrupted, configDir = "carve"
        PROVE  RenameInStep' /\ BlocksFollow' /\ DefaultFollows'
    <3>1. command.pc = "rename_env" => command.old \in TargetNames
      BY DEF TargetsTypeOK, Renaming
    <3>2. RenameInStep'
      BY <2>2, <2>3, <2>5, <3>1 DEF RenameInStep, Renaming
    <3>3. BlocksFollow' /\ DefaultFollows'
      BY <2>2, <2>3, <2>5 DEF BlocksFollow, DefaultFollows, Renaming, defined
    <3>. QED  BY <3>2, <3>3
  <2>. QED  BY <2>2, <2>4, <2>5
<1>2. CASE create_env
  <2>1. /\ UNCHANGED <<conn, configDir, default, history>> /\ command.pc = "create_env"
        /\ command' = NoCommand /\ envExample' = add_env_example_block(command.new)
    BY <1>2 DEF create_env
  <2>2. command'.pc = "none"
    BY <2>1 DEF NoCommand
  <2>3. /\ envExample' \in [TargetNames -> Nat]
        /\ \A m \in TargetNames : Mentioned(m)' <=> Mentioned(m) \/ m = command.new
    <3>1. command.new \in TargetNames
      BY <2>1 DEF TargetsTypeOK
    <3>. QED  BY <2>1, <3>1, BlockAdded
  <2>5. TargetsTypeOK'
    BY <2>1, <2>2, <2>3 DEF TargetsTypeOK, Renaming
  <2>6. ASSUME ~history.interrupted, configDir = "carve"
        PROVE  RenameInStep' /\ BlocksFollow' /\ DefaultFollows'
    <3>2. RenameInStep'
      BY <2>2 DEF RenameInStep, Renaming
    <3>3. BlocksFollow' /\ DefaultFollows'
      BY <2>1, <2>2, <2>3, <2>6 DEF BlocksFollow, DefaultFollows, Renaming, defined
    <3>. QED  BY <3>2, <3>3
  <2>. QED  BY <2>1, <2>5, <2>6
<1>. QED  BY <1>1, <1>2

LEMMA RenameKeeps ==
    ASSUME TargetsInv, NEW old \in TargetNames, NEW new \in TargetNames, rename_command(old, new)
    PROVE  TargetsInv'
<1>. USE DEF TargetsInv
<1>0. /\ command = NoCommand /\ command.pc = "none" /\ old # new
      /\ command' = [pc |-> "rename_env", old |-> old, new |-> new]
      /\ history' = [history EXCEPT !.had = @ \/ new = default]
      /\ UNCHANGED <<configDir, default, envExample, env>>
      /\ conn["carve"][old] # "absent"
  BY DEF rename_command, Then, NoCommand
<1>1. /\ conn' \in [ConfigDirs -> [TargetNames -> {"absent", "placeholder", "literal"}]]
      /\ \A m \in TargetNames :
            conn'["carve"][m] = IF m = new THEN "placeholder"
                                ELSE IF m = old THEN "absent" ELSE conn["carve"][m]
  <2>1. conn' = [conn EXCEPT !["carve"] =
                    [[conn["carve"] EXCEPT ![old] = "absent"] EXCEPT ![new] = "placeholder"]]
    BY DEF rename_command, TargetsTypeOK, ConfigDirs
  <2>2. "carve" \in ConfigDirs
    BY DEF ConfigDirs
  <2>. QED  BY <2>1, <2>2 DEF TargetsTypeOK
<1>2. /\ history' \in [had : BOOLEAN, unforced : BOOLEAN, interrupted : BOOLEAN]
      /\ history'.interrupted = history.interrupted
      /\ history'.had = (history.had \/ new = default)
  BY <1>0 DEF TargetsTypeOK
<1>3. command' \in Commands /\ command'.pc = "rename_env" /\ command'.old = old /\ command'.new = new
  BY <1>0 DEF Commands
<1>4. TargetsTypeOK'
  BY <1>0, <1>1, <1>2, <1>3 DEF TargetsTypeOK, Renaming
<1>5. ASSUME ~history.interrupted, configDir = "carve"
      PROVE  RenameInStep' /\ BlocksFollow' /\ DefaultFollows'
  <2>1. RenameInStep'
    <3>1. Mentioned(old)
      BY <1>0, <1>5 DEF BlocksFollow, defined
    <3>. QED  BY <1>0, <1>1, <1>3, <3>1 DEF RenameInStep, Renaming, Mentioned
  <2>2. BlocksFollow'
    BY <1>0, <1>1, <1>3, <1>5 DEF BlocksFollow, defined, Mentioned
  <2>3. DefaultFollows'
    BY <1>0, <1>1, <1>2, <1>3, <1>5 DEF DefaultFollows, Renaming, defined
  <2>. QED  BY <2>1, <2>2, <2>3
<1>. QED  BY <1>0, <1>2, <1>4, <1>5

LEMMA RenameGoesOn ==
    ASSUME TargetsInv, rename_env_example_block \/ rename_default PROVE TargetsInv'
<1>. USE DEF TargetsInv
<1>1. CASE rename_env_example_block
  <2>1. /\ UNCHANGED <<conn, configDir, default, history>> /\ command.pc = "rename_env"
        /\ command' = [pc |-> "rename_default", old |-> command.old, new |-> command.new]
        /\ envExample' = [envExample EXCEPT ![command.old] = 0,
                                            ![command.new] = @ + envExample[command.old]]
    BY <1>1 DEF rename_env_example_block, Then
  <2>2. command.old \in TargetNames /\ command.new \in TargetNames
    BY <2>1 DEF TargetsTypeOK, Renaming
  <2>3. /\ command' \in Commands /\ command'.pc = "rename_default"
        /\ command'.old = command.old /\ command'.new = command.new
    BY <2>1, <2>2 DEF Commands
  <2>4. /\ envExample' \in [TargetNames -> Nat]
        /\ command.old # command.new =>
              \A m \in TargetNames :
                 Mentioned(m)' <=> \/ m # command.old /\ Mentioned(m)
                                   \/ m = command.new /\ Mentioned(command.old)
    <3>1. envExample \in [TargetNames -> Nat]
      BY DEF TargetsTypeOK
    <3>2. envExample' \in [TargetNames -> Nat]
      BY <2>1, <2>2, <3>1
    <3>3. ASSUME command.old # command.new, NEW m \in TargetNames
          PROVE  envExample'[m] = IF m = command.old THEN 0
                                  ELSE IF m = command.new THEN envExample[m] + envExample[command.old]
                                  ELSE envExample[m]
      BY <2>1, <2>2, <3>1, <3>3
    <3>4. ASSUME command.old # command.new, NEW m \in TargetNames
          PROVE  envExample'[m] > 0 <=> \/ m # command.old /\ envExample[m] > 0
                                        \/ m = command.new /\ envExample[command.old] > 0
      BY <2>2, <3>1, <3>3, <3>4
    <3>. QED  BY <3>2, <3>4 DEF Mentioned
  <2>5. TargetsTypeOK'
    BY <2>1, <2>2, <2>3, <2>4 DEF TargetsTypeOK, Renaming
  <2>6. ASSUME ~history.interrupted, configDir = "carve"
        PROVE  RenameInStep' /\ BlocksFollow' /\ DefaultFollows'
    <3>1. conn["carve"][command.old] = "absent" /\ conn["carve"][command.new] # "absent"
          /\ Mentioned(command.old)
      BY <2>1, <2>6 DEF RenameInStep, Renaming
    <3>2. RenameInStep'
      BY <2>1, <2>3, <3>1 DEF RenameInStep, Renaming
    <3>3. BlocksFollow'
      BY <2>1, <2>4, <2>6, <3>1 DEF BlocksFollow, defined
    <3>4. DefaultFollows'
      BY <2>1, <2>3, <2>6 DEF DefaultFollows, Renaming, defined
    <3>. QED  BY <3>2, <3>3, <3>4
  <2>. QED  BY <2>1, <2>5, <2>6
<1>2. CASE rename_default
  <2>1. /\ UNCHANGED <<conn, configDir, envExample, history>> /\ command.pc = "rename_default"
        /\ command' = NoCommand /\ command'.pc = "none"
        /\ default' = IF default = command.old THEN command.new ELSE default
    BY <1>2 DEF rename_default, NoCommand
  <2>2. command.old \in TargetNames /\ command.new \in TargetNames
    BY <2>1 DEF TargetsTypeOK, Renaming
  <2>3. TargetsTypeOK'
    BY <2>1 DEF TargetsTypeOK, Renaming
  <2>4. ASSUME ~history.interrupted, configDir = "carve"
        PROVE  RenameInStep' /\ BlocksFollow' /\ DefaultFollows'
    <3>1. conn["carve"][command.new] # "absent"
      BY <2>1, <2>4 DEF RenameInStep, Renaming
    <3>2. RenameInStep' /\ BlocksFollow'
      BY <2>1, <2>4 DEF RenameInStep, BlocksFollow, Renaming, defined, Mentioned
    <3>3. DefaultFollows'
      BY <2>1, <2>2, <2>4, <3>1 DEF DefaultFollows, Renaming, defined
    <3>. QED  BY <3>2, <3>3
  <2>. QED  BY <2>1, <2>3, <2>4
<1>. QED  BY <1>1, <1>2

LEMMA DeleteKeeps ==
    ASSUME TargetsInv, NEW n \in TargetNames, delete_command(n) PROVE TargetsInv'
<1>. USE DEF TargetsInv
<1>0. /\ command = NoCommand /\ command.pc = "none"
      /\ command' = [pc |-> "delete_env", old |-> n, new |-> "none"]
      /\ UNCHANGED <<configDir, default, envExample, env>> /\ configDir \in ConfigDirs
  BY DEF delete_command, Then, NoCommand, TargetsTypeOK
<1>6. PICK dir \in ConfigDirs : Section(dir, n, "absent") /\ (configDir = "carve" => dir = "carve")
  BY <1>0 DEF delete_command, config_dir_name, ConfigDirs
<1>1. /\ conn' \in [ConfigDirs -> [TargetNames -> {"absent", "placeholder", "literal"}]]
      /\ configDir = "carve" => \A m \in TargetNames :
            conn'["carve"][m] = IF m = n THEN "absent" ELSE conn["carve"][m]
  <2>1. conn' = [conn EXCEPT ![dir] = [conn[dir] EXCEPT ![n] = "absent"]]
    BY <1>6 DEF Section
  <2>. QED  BY <1>0, <1>6, <2>1 DEF TargetsTypeOK
<1>2. /\ history' \in [had : BOOLEAN, unforced : BOOLEAN, interrupted : BOOLEAN]
      /\ history'.interrupted = history.interrupted
      /\ history'.had => history.had /\ n # default
  <2>1. PICK forced \in BOOLEAN :
          history' = [history EXCEPT !.had = @ /\ n # default,
                                     !.unforced = @ \/ (n = default /\ ~forced)]
    BY DEF delete_command
  <2>. QED  BY <2>1 DEF TargetsTypeOK
<1>3. command' \in Commands /\ command'.pc = "delete_env" /\ command'.old = n
  BY <1>0 DEF Commands
<1>4. TargetsTypeOK'
  BY <1>0, <1>1, <1>2, <1>3 DEF TargetsTypeOK, Renaming
<1>5. ASSUME ~history.interrupted, configDir = "carve"
      PROVE  RenameInStep' /\ BlocksFollow' /\ DefaultFollows'
  <2>1. RenameInStep'
    BY <1>1, <1>3, <1>5 DEF RenameInStep, Renaming
  <2>2. BlocksFollow'
    BY <1>0, <1>1, <1>5 DEF BlocksFollow, defined, Mentioned
  <2>3. DefaultFollows'
    BY <1>0, <1>1, <1>2, <1>5 DEF DefaultFollows, Renaming, defined
  <2>. QED  BY <2>1, <2>2, <2>3
<1>. QED  BY <1>0, <1>2, <1>4, <1>5

LEMMA DeleteGoesOn == ASSUME TargetsInv, remove_env_example_block PROVE TargetsInv'
<1>. USE DEF TargetsInv
<1>0. /\ UNCHANGED <<conn, configDir, default, history>> /\ command.pc = "delete_env"
      /\ command' = NoCommand /\ command'.pc = "none"
      /\ envExample' = [envExample EXCEPT ![command.old] = 0]
  BY DEF remove_env_example_block, NoCommand
<1>1. /\ envExample' \in [TargetNames -> Nat]
      /\ \A m \in TargetNames : m # command.old => (Mentioned(m)' <=> Mentioned(m))
  BY <1>0 DEF TargetsTypeOK, Mentioned
<1>2. TargetsTypeOK'
  BY <1>0, <1>1 DEF TargetsTypeOK, Renaming
<1>3. ASSUME ~history.interrupted, configDir = "carve"
      PROVE  RenameInStep' /\ BlocksFollow' /\ DefaultFollows'
  <2>1. conn["carve"][command.old] = "absent"
    BY <1>0, <1>3 DEF RenameInStep
  <2>2. RenameInStep' /\ DefaultFollows'
    BY <1>0, <1>3 DEF RenameInStep, DefaultFollows, Renaming, defined
  <2>3. BlocksFollow'
    BY <1>0, <1>1, <1>3, <2>1 DEF BlocksFollow, defined
  <2>. QED  BY <2>2, <2>3
<1>. QED  BY <1>0, <1>2, <1>3

LEMMA SectionEdited ==
    ASSUME TargetsInv, NEW n \in TargetNames, NEW value \in {"placeholder", "literal"},
           EditSection(n, value)
    PROVE  TargetsInv'
<1>. USE DEF TargetsInv
<1>0. /\ command.pc = "none" /\ Mentioned(n) /\ Section(configDir, n, value)
      /\ UNCHANGED <<configDir, default, envExample, command>> /\ configDir \in ConfigDirs
  BY DEF EditSection, NoCommand, TargetsTypeOK
<1>1. /\ conn' \in [ConfigDirs -> [TargetNames -> {"absent", "placeholder", "literal"}]]
      /\ configDir = "carve" => \A m \in TargetNames :
            conn'["carve"][m] = IF m = n THEN value ELSE conn["carve"][m]
  <2>1. conn' = [conn EXCEPT ![configDir] = [conn[configDir] EXCEPT ![n] = value]]
    BY <1>0 DEF Section
  <2>. QED  BY <1>0, <2>1 DEF TargetsTypeOK
<1>2. /\ history' \in [had : BOOLEAN, unforced : BOOLEAN, interrupted : BOOLEAN]
      /\ history'.interrupted = history.interrupted
      /\ history'.had => history.had \/ n = default
  BY DEF EditSection, Had, TargetsTypeOK
<1>3. TargetsTypeOK'
  BY <1>0, <1>1, <1>2 DEF TargetsTypeOK, Renaming
<1>4. ASSUME ~history.interrupted, configDir = "carve"
      PROVE  RenameInStep' /\ BlocksFollow' /\ DefaultFollows'
  <2>1. RenameInStep'
    BY <1>0 DEF RenameInStep, Renaming
  <2>2. BlocksFollow'
    BY <1>0, <1>1, <1>4 DEF BlocksFollow, defined, Mentioned
  <2>3. DefaultFollows'
    BY <1>0, <1>1, <1>2, <1>4 DEF DefaultFollows, Renaming, defined
  <2>. QED  BY <2>1, <2>2, <2>3
<1>. QED  BY <1>0, <1>2, <1>3, <1>4

\* For any targets, after any sequence of commands none of which was interrupted: every
\* target has its block, and the default that was defined is still there.
THEOREM FilesAgree == TargetsSpec => []TargetsAgree
<1>. USE DEF TargetsInv
<1>1. TargetsInit => TargetsInv
  <2>. SUFFICES ASSUME TargetsInit PROVE TargetsInv
    OBVIOUS
  <2>1. command.pc = "none" /\ "carve" \in ConfigDirs
    BY DEF TargetsInit, NoCommand, ConfigDirs
  <2>2. TargetsTypeOK
    BY <2>1 DEF TargetsInit, TargetsTypeOK, Renaming
  <2>3. defined("carve") = {} /\ ~history.had
    BY <2>1 DEF TargetsInit, defined
  <2>. QED  BY <2>1, <2>2, <2>3 DEF RenameInStep, BlocksFollow, DefaultFollows, Renaming
<1>2. TargetsInv /\ [TargetsNext]_targetVars => TargetsInv'
  <2>. SUFFICES ASSUME TargetsInv, [TargetsNext]_targetVars PROVE TargetsInv'
    OBVIOUS
  <2>1. ASSUME UNCHANGED <<conn, configDir, default, envExample, command, history>>
        PROVE  TargetsInv'
    BY <2>1 DEF TargetsTypeOK, RenameInStep, BlocksFollow, DefaultFollows, Renaming, defined, Mentioned
  <2>2. CASE EditEnv \/ UNCHANGED targetVars
    BY <2>1, <2>2 DEF EditEnv, targetVars
  <2>3. CASE InterruptTarget
    <3>1. /\ history' = [history EXCEPT !.interrupted = TRUE]
          /\ command' = NoCommand /\ command'.pc = "none"
          /\ UNCHANGED <<conn, configDir, default, envExample>>
      BY <2>3 DEF InterruptTarget, NoCommand
    <3>2. /\ history'.interrupted
          /\ history' \in [had : BOOLEAN, unforced : BOOLEAN, interrupted : BOOLEAN]
      BY <3>1 DEF TargetsTypeOK
    <3>. QED  BY <3>1, <3>2 DEF TargetsTypeOK, Renaming
  <2>. QED  BY <2>2, <2>3, CreateKeeps, BlockKeeps, RenameKeeps, RenameGoesOn, DeleteKeeps,
               DeleteGoesOn, SectionEdited DEF TargetsNext
<1>3. TargetsInv => TargetsAgree
  <2>. SUFFICES ASSUME TargetsInv, command = NoCommand, ~history.interrupted, configDir = "carve"
                PROVE  /\ \A n \in defined("carve") : Mentioned(n)
                       /\ history.had => require_target(resolve_active_target("none", "none"))
    BY DEF TargetsAgree
  <2>1. command.pc = "none"
    BY DEF NoCommand
  <2>2. resolve_active_target("none", "none") = default
    BY Zenon DEF resolve_active_target
  <2>3. BlocksFollow /\ DefaultFollows
    OBVIOUS
  <2>4. \A n \in defined("carve") : Mentioned(n)
    BY <2>1, <2>3 DEF BlocksFollow
  <2>5. history.had => default \in defined("carve")
    BY <2>1, <2>3 DEF DefaultFollows, Renaming
  <2>. QED  BY <2>2, <2>4, <2>5 DEF require_target
<1>. QED  BY <1>1, <1>2, <1>3, PTL DEF TargetsSpec

-----------------------------------------------------------------------------
(* Step executors: the theorem is at the end of this part.  First a fact     *)
(* about natural numbers that finds the newest package.                     *)

\* A set of natural numbers that is not empty has a least element.
LEMMA LeastNatural ==
    ASSUME NEW S \in SUBSET Nat, S # {}
    PROVE  \E m \in S : \A n \in S : m <= n
<1>. DEFINE Less == {ss \in Nat \X Nat : ss[1] < ss[2]}
<1>1. IsWellFoundedOn(Less, Nat)
  BY NatLessThanWellFounded DEF OpToRel
<1>2. PICK m \in S : \A n \in S : ~ (<<n, m>> \in Less)
  <2>. HIDE DEF Less
  <2>. QED  BY <1>1, WFMin
<1>3. \A n \in S : ~(n < m)
  BY <1>2
<1>. QED  BY <1>3


StepKinds == [type : Types, dir : Dirs, pc : {"launch", "program", "read", "await", "ended"},
              attempt : Nat, rc : {-1, 0, 1}, wrote : BOOLEAN,
              verdict : {"none", "succeeded", "failed"},
              package : [dir : Dirs \cup {"none"}, id : Nat, state : {"none", "new", "loaded"},
                         clean : BOOLEAN, by : WaveSteps \cup {"none", "earlier"}]]

ThreadKinds == [step : WaveSteps, attempt : Nat, pc : {"begun", "open", "executed", "done"},
                session : {"none", "open", "closed"}, committed : BOOLEAN]

\* Load ids are times that have passed, and those of earlier runs come before this one.
PackagesOK ==
    /\ clock \in Nat
    /\ \A p \in packages :
          /\ p.id \in Nat /\ p.id < clock /\ (p.by = "earlier" => p.id < StartedAt)
          /\ p \in [dir : Dirs, id : Nat, state : {"new", "loaded"}, clean : BOOLEAN,
                    by : WaveSteps \cup {"earlier"}]

\* An attempt has at most one thread, which closes its session last.
ThreadsOK ==
    /\ threads \subseteq ThreadKinds
    /\ \A t, u \in threads : t.step = u.step /\ t.attempt = u.attempt => t = u
    /\ \A t \in threads : /\ t.attempt <= steps[t.step].attempt
                          /\ steps[t.step].pc = "launch" => t.attempt < steps[t.step].attempt
                          /\ t.pc = "done" => t.session = "closed"

\* The thread of the attempt under way.
HasThread(s, t) == t \in threads /\ t.step = s /\ t.attempt = steps[s].attempt

\* What a verdict rests on.
Evidence(r) ==
    /\ r.verdict # "none" => r.pc = "ended"
    /\ r.verdict = "succeeded" /\ r.type = "dlt" =>
          r.rc = 0 /\ r.package.by # "earlier" /\ r.package.state = "loaded" /\ r.package.clean
    /\ r.verdict = "succeeded" /\ r.type = "dbt" => r.rc = 0
VerdictsOK ==
    \A s \in WaveSteps :
        /\ Evidence(steps[s])
        /\ steps[s].pc = "await" => \E t \in threads : HasThread(s, t)
        /\ steps[s].verdict = "succeeded" /\ steps[s].type = "sql" =>
              \E t \in threads : HasThread(s, t) /\ t.pc = "done" /\ t.committed

StepsInv == steps \in [WaveSteps -> StepKinds] /\ PackagesOK /\ ThreadsOK /\ VerdictsOK

\* Of the packages of a directory the newest is one of them.
LEMMA NewestPackage ==
    ASSUME PackagesOK, NEW d, read_latest_load_package(d) # NoPackage
    PROVE  read_latest_load_package(d) \in packages
<1>. DEFINE ofDir == {p \in packages : p.dir = d}
            ages == {clock - p.id : p \in ofDir}
<1>1. ofDir # {}
  BY DEF read_latest_load_package
<1>2. ages \in SUBSET Nat /\ ages # {}
  BY <1>1 DEF PackagesOK
<1>3. PICK m \in ages : \A n \in ages : m <= n
  <2>. HIDE DEF ages
  <2>. QED  BY <1>2, LeastNatural
<1>4. PICK p \in ofDir : m = clock - p.id
  BY <1>3
<1>5. \A q \in ofDir : q.id <= p.id
  <2>. SUFFICES ASSUME NEW q \in ofDir PROVE q.id <= p.id
    OBVIOUS
  <2>1. clock - q.id \in ages
    OBVIOUS
  <2>2. clock - p.id <= clock - q.id
    BY <1>3, <1>4, <2>1
  <2>3. clock \in Nat /\ p.id \in Nat /\ q.id \in Nat
    BY DEF PackagesOK
  <2>. HIDE DEF ages
  <2>. QED  BY <2>2, <2>3
<1>6. read_latest_load_package(d) = CHOOSE x \in ofDir : \A q \in ofDir : q.id <= x.id
  BY <1>1 DEF read_latest_load_package
<1>. QED  BY <1>4, <1>5, <1>6

\* The thread of an attempt is the one that Own finds.
LEMMA OwnThread ==
    ASSUME ThreadsOK, NEW s \in WaveSteps, NEW t, HasThread(s, t)
    PROVE  Own(s) = t
<1>1. \A u \in threads : u.step = s /\ u.attempt = steps[s].attempt => u = t
  BY DEF ThreadsOK, HasThread
<1>. QED  BY <1>1 DEF Own, HasThread

\* A step of an executor that leaves the threads alone.
LEMMA StepMoves ==
    ASSUME StepsInv, NEW s \in WaveSteps, NEW r \in StepKinds, steps' = [steps EXCEPT ![s] = r],
           UNCHANGED threads, PackagesOK', Evidence(r),
           r.type = steps[s].type, r.attempt = steps[s].attempt, r.pc \notin {"launch", "await"},
           r.verdict = "succeeded" /\ r.type = "sql" =>
              \E t \in threads : HasThread(s, t) /\ t.pc = "done" /\ t.committed
    PROVE  StepsInv'
<1>. USE DEF StepsInv
<1>1. \A x \in WaveSteps : steps'[x] = IF x = s THEN r ELSE steps[x]
  OBVIOUS
<1>2. \A x \in WaveSteps : steps'[x].attempt = steps[x].attempt
  BY <1>1
<1>3. ThreadsOK'
  <2>1. \A t \in threads : t.step \in WaveSteps
    BY DEF ThreadsOK, ThreadKinds
  <2>. QED  BY <1>1, <1>2, <2>1 DEF ThreadsOK
<1>4. VerdictsOK'
  <2>. SUFFICES ASSUME NEW x \in WaveSteps
                PROVE  /\ Evidence(steps'[x])
                       /\ steps'[x].pc = "await" => \E t \in threads : HasThread(x, t)
                       /\ steps'[x].verdict = "succeeded" /\ steps'[x].type = "sql" =>
                             \E t \in threads : HasThread(x, t) /\ t.pc = "done" /\ t.committed
    BY <1>2 DEF VerdictsOK, HasThread, Evidence
  <2>1. CASE x = s
    BY <1>1, <2>1
  <2>2. CASE x # s
    BY <1>1, <2>2 DEF VerdictsOK
  <2>. QED  BY <2>1, <2>2
<1>. QED  BY <1>3, <1>4

LEMMA StepGivesUp ==
    ASSUME StepsInv, NEW s \in WaveSteps, steps' = StepEnds(s, "failed"),
           UNCHANGED <<clock, packages, threads>>
    PROVE  StepsInv'
<1>. DEFINE r == [steps[s] EXCEPT !.pc = "ended", !.verdict = "failed"]
<1>1. steps[s] \in StepKinds
  BY DEF StepsInv
<1>2. /\ r \in StepKinds /\ r.pc = "ended" /\ r.verdict = "failed"
      /\ r.type = steps[s].type /\ r.attempt = steps[s].attempt
  BY <1>1 DEF StepKinds
<1>3. steps' = [steps EXCEPT ![s] = r]
  BY DEF StepEnds, StepsInv
<1>4. PackagesOK'
  BY DEF StepsInv, PackagesOK
<1>. HIDE DEF r
<1>5. Evidence(r)
  BY <1>2 DEF Evidence
<1>. QED  BY <1>2, <1>3, <1>4, <1>5, StepMoves

\* A program starts, and exits: no verdict yet.
LEMMA ProgramSteps ==
    ASSUME StepsInv, NEW s \in WaveSteps, NEW pc \in {"program", "read"}, NEW rc \in {-1, 0, 1},
           NEW wrote \in BOOLEAN, steps[s].pc \in {"launch", "program"}, PackagesOK',
           steps' = [steps EXCEPT ![s].pc = pc, ![s].rc = rc, ![s].wrote = wrote], UNCHANGED threads
    PROVE  StepsInv'
<1>. DEFINE r == [steps[s] EXCEPT !.pc = pc, !.rc = rc, !.wrote = wrote]
<1>1. steps[s] \in StepKinds /\ steps[s].verdict = "none"
  BY DEF StepsInv, VerdictsOK, Evidence, StepKinds
<1>2. /\ r \in StepKinds /\ r.pc = pc /\ r.verdict = "none"
      /\ r.type = steps[s].type /\ r.attempt = steps[s].attempt
  BY <1>1 DEF StepKinds
<1>3. steps' = [steps EXCEPT ![s] = r]
  BY DEF StepsInv
<1>. HIDE DEF r
<1>5. Evidence(r)
  BY <1>2 DEF Evidence
<1>. QED  BY <1>2, <1>3, <1>5, StepMoves

LEMMA ProgramStarts ==
    ASSUME StepsInv, NEW s \in WaveSteps, StartScript(s) \/ StartDbt(s) PROVE StepsInv'
<1>1. UNCHANGED <<clock, packages, threads>> /\ steps[s].pc = "launch" /\ steps[s] \in StepKinds
  BY DEF StartScript, StartDbt, StepAt, StepsInv
<1>2. CASE steps' = StepEnds(s, "failed")
  BY <1>1, <1>2, StepGivesUp
<1>3. CASE steps' = [steps EXCEPT ![s].pc = "program"]
  <2>1. steps' = [steps EXCEPT ![s].pc = "program", ![s].rc = steps[s].rc, ![s].wrote = steps[s].wrote]
    BY <1>1, <1>3 DEF StepKinds, StepsInv
  <2>2. steps[s].rc \in {-1, 0, 1} /\ steps[s].wrote \in BOOLEAN
    BY <1>1 DEF StepKinds
  <2>3. PackagesOK'
    BY <1>1 DEF StepsInv, PackagesOK
  <2>. QED  BY <1>1, <2>1, <2>2, <2>3, ProgramSteps
<1>. QED  BY <1>2, <1>3 DEF StartScript, StartDbt

LEMMA ProgramRuns ==
    ASSUME StepsInv, NEW s \in WaveSteps,
           ScriptLoads(s) \/ ScriptExits(s) \/ DbtWrites(s) \/ DbtExits(s)
    PROVE  StepsInv'
<1>1. /\ UNCHANGED threads /\ steps[s].pc = "program" /\ steps[s] \in StepKinds
      /\ steps[s].rc \in {-1, 0, 1} /\ steps[s].wrote \in BOOLEAN /\ 0 \in {-1, 0, 1} /\ 1 \in {-1, 0, 1}
  BY DEF ScriptLoads, ScriptExits, DbtWrites, DbtExits, StepAt, StepsInv, StepKinds
<1>2. CASE ScriptLoads(s)
  <2>1. PICK state \in {"new", "loaded"}, clean \in BOOLEAN :
          packages' = packages \cup {Package(steps[s].dir, clock, state, clean, s)}
    BY <1>2 DEF ScriptLoads
  <2>2. clock' = clock + 1 /\ steps' = [steps EXCEPT ![s].wrote = TRUE]
    BY <1>2 DEF ScriptLoads
  <2>3. PackagesOK'
    <3>1. steps[s].dir \in Dirs /\ clock \in Nat /\ clock' \in Nat
      BY <1>1, <2>2 DEF StepKinds, StepsInv, PackagesOK
    <3>2. s # "earlier"
      BY StepNamesAssumption
    <3>3. ASSUME NEW p \in packages'
          PROVE  /\ p.id \in Nat /\ p.id < clock' /\ (p.by = "earlier" => p.id < StartedAt)
                 /\ p \in [dir : Dirs, id : Nat, state : {"new", "loaded"}, clean : BOOLEAN,
                           by : WaveSteps \cup {"earlier"}]
      <4>1. CASE p \in packages
        BY <2>2, <3>1, <4>1 DEF StepsInv, PackagesOK
      <4>2. CASE p = Package(steps[s].dir, clock, state, clean, s)
        BY <2>2, <3>1, <3>2, <4>2 DEF Package
      <4>. QED  BY <2>1, <4>1, <4>2
    <3>. QED  BY <3>1, <3>3 DEF PackagesOK
  <2>4. steps' = [steps EXCEPT ![s].pc = "program", ![s].rc = steps[s].rc, ![s].wrote = TRUE]
    BY <1>1, <2>2 DEF StepKinds, StepsInv
  <2>. QED  BY <1>1, <2>3, <2>4, ProgramSteps
<1>3. CASE ScriptExits(s) \/ DbtWrites(s) \/ DbtExits(s)
  <2>0. PackagesOK'
    BY <1>3 DEF ScriptExits, DbtWrites, DbtExits, StepsInv, PackagesOK
  <2>1. CASE ScriptExits(s)
    <3>1. PICK rc \in {0, 1} : steps' = [steps EXCEPT ![s].pc = "read", ![s].rc = rc]
      BY <2>1 DEF ScriptExits, ExitCodes
    <3>2. steps' = [steps EXCEPT ![s].pc = "read", ![s].rc = rc, ![s].wrote = steps[s].wrote]
      BY <1>1, <3>1 DEF StepKinds, StepsInv
    <3>. QED  BY <1>1, <2>0, <3>2, ProgramSteps
  <2>2. CASE DbtWrites(s)
    <3>1. steps' = [steps EXCEPT ![s].wrote = TRUE, ![s].rc = IF results'.ok THEN 0 ELSE 1]
      BY <2>2 DEF DbtWrites
    <3>2. PICK rc \in {0, 1} : steps' = [steps EXCEPT ![s].wrote = TRUE, ![s].rc = rc]
      BY <3>1
    <3>3. steps' = [steps EXCEPT ![s].pc = "program", ![s].rc = rc, ![s].wrote = TRUE]
      <4>1. [steps[s] EXCEPT !.wrote = TRUE, !.rc = rc]
            = [steps[s] EXCEPT !.pc = "program", !.rc = rc, !.wrote = TRUE]
        BY <1>1 DEF StepKinds
      <4>2. steps' = [steps EXCEPT ![s] = [steps[s] EXCEPT !.wrote = TRUE, !.rc = rc]]
        BY <3>2
      <4>3. steps' = [steps EXCEPT ![s] = [steps[s] EXCEPT !.pc = "program", !.rc = rc, !.wrote = TRUE]]
        BY <4>1, <4>2
      <4>. QED  BY <4>3
    <3>. QED  BY <1>1, <2>0, <3>3, ProgramSteps
  <2>3. CASE DbtExits(s)
    <3>1. PICK rc \in {-1, 0, 1} :
            steps' = [steps EXCEPT ![s].pc = "read", ![s].rc = rc, ![s].wrote = steps[s].wrote]
      <4>1. CASE steps' = [steps EXCEPT ![s].pc = "read"]
        <5>1. steps' = [steps EXCEPT ![s].pc = "read", ![s].rc = steps[s].rc,
                                     ![s].wrote = steps[s].wrote]
          BY <1>1, <4>1 DEF StepKinds, StepsInv
        <5>. QED  BY <1>1, <5>1
      <4>2. CASE steps' = [steps EXCEPT ![s].pc = "read", ![s].rc = 1]
        <5>1. steps' = [steps EXCEPT ![s].pc = "read", ![s].rc = 1, ![s].wrote = steps[s].wrote]
          BY <1>1, <4>2 DEF StepKinds, StepsInv
        <5>. QED  BY <1>1, <5>1
      <4>. QED  BY <2>3, <4>1, <4>2 DEF DbtExits
    <3>. QED  BY <1>1, <2>0, <3>1, ProgramSteps
  <2>. QED  BY <1>3, <2>1, <2>2, <2>3
<1>. QED  BY <1>2, <1>3

\* The verdict on a dlt script: the package it is based on was written since the run
\* started, so no earlier run wrote it.
LEMMA ScriptJudged == ASSUME StepsInv, NEW s \in WaveSteps, _outcome_to_step_result(s) PROVE StepsInv'
<1>. DEFINE name == _discover_pipeline_name(s)
            report == IF name = "none" THEN NoPackage ELSE read_latest_load_package(name)
            passed == /\ steps[s].rc = 0 /\ name # "none" /\ Recent(report)
                      /\ report.state = "loaded" /\ report.clean
            verdict == IF passed THEN "succeeded" ELSE "failed"
            r == [[steps[s] EXCEPT !.pc = "ended", !.verdict = verdict] EXCEPT !.package = report]
<1>1. /\ UNCHANGED <<clock, packages, threads>> /\ steps[s] \in StepKinds
      /\ steps[s].pc = "read" /\ steps[s].type = "dlt"
      /\ steps' = [StepEnds(s, verdict) EXCEPT ![s].package = report]
  BY DEF _outcome_to_step_result, StepAt, StepsInv
<1>2. report \in packages \/ report = NoPackage
  BY NewestPackage DEF StepsInv
<1>3. report \in [dir : Dirs \cup {"none"}, id : Nat, state : {"none", "new", "loaded"},
                  clean : BOOLEAN, by : WaveSteps \cup {"none", "earlier"}]
  <2>. HIDE DEF report
  <2>1. CASE report \in packages
    BY <2>1 DEF StepsInv, PackagesOK
  <2>2. CASE report = NoPackage
    BY <2>2 DEF NoPackage, Package
  <2>. QED  BY <1>2, <2>1, <2>2
<1>4. passed => report.by # "earlier" /\ steps[s].rc = 0 /\ report.state = "loaded" /\ report.clean
  <2>. SUFFICES ASSUME passed PROVE report.by # "earlier"
    OBVIOUS
  <2>1. Recent(report)
    OBVIOUS
  <2>. HIDE DEF report
  <2>2. report \in packages /\ report.id >= StartedAt
    BY <1>2, <2>1 DEF Recent
  <2>3. report.id \in Nat /\ (report.by = "earlier" => report.id < StartedAt)
    BY <2>2 DEF StepsInv, PackagesOK
  <2>. QED  BY <2>2, <2>3 DEF StartedAt
<1>5. verdict \in {"succeeded", "failed"} /\ (verdict = "succeeded" => passed)
  OBVIOUS
<1>. HIDE DEF report, passed, verdict
<1>6. /\ r \in StepKinds /\ r.pc = "ended" /\ r.verdict = verdict /\ r.package = report
      /\ r.rc = steps[s].rc /\ r.type = "dlt" /\ r.attempt = steps[s].attempt
  BY <1>1, <1>3, <1>5 DEF StepKinds
<1>7. steps' = [steps EXCEPT ![s] = r]
  BY <1>1 DEF StepEnds, StepsInv
<1>. HIDE DEF r
<1>8. Evidence(r)
  BY <1>4, <1>5, <1>6 DEF Evidence
<1>9. PackagesOK'
  BY <1>1 DEF StepsInv, PackagesOK
<1>. QED  BY <1>1, <1>6, <1>7, <1>8, <1>9, StepMoves

LEMMA DbtJudged == ASSUME StepsInv, NEW s \in WaveSteps, _run_result_to_step_result(s) PROVE StepsInv'
<1>. DEFINE verdict == IF from_report(results, steps[s].rc) = "success" THEN "succeeded" ELSE "failed"
            r == [steps[s] EXCEPT !.pc = "ended", !.verdict = verdict]
<1>1. /\ UNCHANGED <<clock, packages, threads>> /\ steps[s] \in StepKinds
      /\ steps[s].pc = "read" /\ steps[s].type = "dbt" /\ steps' = StepEnds(s, verdict)
  BY DEF _run_result_to_step_result, StepAt, StepsInv
<1>2. verdict \in {"succeeded", "failed"} /\ (verdict = "succeeded" => steps[s].rc = 0)
  BY DEF from_report
<1>. HIDE DEF verdict
<1>3. /\ r \in StepKinds /\ r.pc = "ended" /\ r.verdict = verdict
      /\ r.rc = steps[s].rc /\ r.type = "dbt" /\ r.attempt = steps[s].attempt
  BY <1>1, <1>2 DEF StepKinds
<1>4. steps' = [steps EXCEPT ![s] = r]
  BY <1>1 DEF StepEnds, StepsInv
<1>. HIDE DEF r
<1>5. Evidence(r) /\ PackagesOK'
  BY <1>1, <1>2, <1>3 DEF Evidence, StepsInv, PackagesOK
<1>. QED  BY <1>1, <1>3, <1>4, <1>5, StepMoves

\* The verdict on a statement is that of the thread of this attempt.
LEMMA StatementJudged ==
    ASSUME StepsInv, NEW s \in WaveSteps, StatementDone(s) \/ StatementTimesOut(s) PROVE StepsInv'
<1>1. UNCHANGED <<clock, packages, threads>> /\ steps[s] \in StepKinds
      /\ steps[s].pc = "await" /\ steps[s].type = "sql"
  BY DEF StatementDone, StatementTimesOut, StepAt, StepsInv
<1>2. CASE StatementTimesOut(s)
  BY <1>1, <1>2, StepGivesUp DEF StatementTimesOut
<1>3. CASE StatementDone(s)
  <2>1. PICK t \in threads : HasThread(s, t)
    BY <1>1 DEF StepsInv, VerdictsOK
  <2>2. Own(s) = t
    BY <2>1, OwnThread DEF StepsInv
  <2>. DEFINE verdict == IF t.committed THEN "succeeded" ELSE "failed"
              r == [steps[s] EXCEPT !.pc = "ended", !.verdict = verdict]
  <2>3. steps' = StepEnds(s, verdict) /\ t.pc = "done"
    BY <1>3, <2>2 DEF StatementDone
  <2>4. verdict \in {"succeeded", "failed"} /\ (verdict = "succeeded" => t.committed)
    OBVIOUS
  <2>. HIDE DEF verdict
  <2>5. /\ r \in StepKinds /\ r.pc = "ended" /\ r.verdict = verdict
        /\ r.rc = steps[s].rc /\ r.type = "sql" /\ r.attempt = steps[s].attempt
    BY <1>1, <2>4 DEF StepKinds
  <2>6. steps' = [steps EXCEPT ![s] = r]
    BY <2>3 DEF StepEnds, StepsInv
  <2>. HIDE DEF r
  <2>7. Evidence(r) /\ PackagesOK'
    BY <1>1, <2>5 DEF Evidence, StepsInv, PackagesOK
  <2>. QED  BY <1>1, <2>1, <2>3, <2>4, <2>5, <2>6, <2>7, StepMoves
<1>. QED  BY <1>2, <1>3

\* A statement goes to its thread, which no attempt has had yet.
LEMMA StatementStarts == ASSUME StepsInv, NEW s \in WaveSteps, StartStatement(s) PROVE StepsInv'
<1>. USE DEF StepsInv
<1>1. UNCHANGED <<clock, packages>> /\ steps[s] \in StepKinds /\ steps[s].pc = "launch"
  BY DEF StartStatement, StepAt
<1>2. CASE steps' = StepEnds(s, "failed") /\ UNCHANGED threads
  BY <1>1, <1>2, StepGivesUp
<1>3. CASE /\ threads' = threads \cup {Thread(s)}
           /\ steps' = [steps EXCEPT ![s].pc = "await"]
  <2>. DEFINE t == Thread(s)
              r == [steps[s] EXCEPT !.pc = "await"]
  <2>1. /\ t \in ThreadKinds /\ t.step = s /\ t.attempt = steps[s].attempt /\ t.pc = "begun"
    BY <1>1 DEF Thread, ThreadKinds, StepKinds
  <2>2. /\ r \in StepKinds /\ r.pc = "await" /\ r.attempt = steps[s].attempt
        /\ r.verdict = steps[s].verdict /\ steps[s].verdict = "none"
    BY <1>1 DEF StepKinds, VerdictsOK, Evidence
  <2>. HIDE DEF t
  <2>3. threads' = threads \cup {t}
    BY <1>3 DEF t
  <2>4. steps' \in [WaveSteps -> StepKinds] /\ \A x \in WaveSteps : steps'[x] = IF x = s THEN r ELSE steps[x]
    BY <1>3, <2>2
  <2>. HIDE DEF r
  <2>5. \A u \in threads : /\ u.step \in WaveSteps /\ u.attempt \in Nat
                           /\ u.step = s => u.attempt < steps[s].attempt
    BY <1>1 DEF ThreadsOK, ThreadKinds
  <2>6. steps[s].attempt \in Nat
    BY <1>1 DEF StepKinds
  <2>7. \A u \in threads : u.step = s => u.attempt # t.attempt
    BY <2>1, <2>5, <2>6
  <2>8. ThreadsOK'
    <3>1. threads' \subseteq ThreadKinds
      BY <2>1, <2>3 DEF ThreadsOK
    <3>2. \A u, v \in threads' : u.step = v.step /\ u.attempt = v.attempt => u = v
      BY <2>1, <2>3, <2>7 DEF ThreadsOK
    <3>3. ASSUME NEW u \in threads'
          PROVE  /\ u.attempt <= steps'[u.step].attempt
                 /\ steps'[u.step].pc = "launch" => u.attempt < steps'[u.step].attempt
                 /\ u.pc = "done" => u.session = "closed"
      <4>1. CASE u = t
        BY <2>1, <2>2, <2>4, <2>6, <4>1
      <4>2. CASE u \in threads
        BY <2>2, <2>4, <2>5, <4>2 DEF ThreadsOK
      <4>. QED  BY <2>3, <4>1, <4>2
    <3>. QED  BY <3>1, <3>2, <3>3 DEF ThreadsOK
  <2>9. VerdictsOK'
    <3>. SUFFICES ASSUME NEW x \in WaveSteps
                  PROVE  /\ Evidence(steps'[x])
                         /\ steps'[x].pc = "await" => \E u \in threads' : HasThread(x, u)'
                         /\ steps'[x].verdict = "succeeded" /\ steps'[x].type = "sql" =>
                               \E u \in threads' : HasThread(x, u)' /\ u.pc = "done" /\ u.committed
      BY DEF VerdictsOK, Evidence
    <3>1. CASE x = s
      <4>1. PICK u \in threads' : u = t
        BY <2>3
      <4>2. HasThread(s, u)'
        BY <2>1, <2>2, <2>4, <4>1 DEF HasThread
      <4>. QED  BY <2>2, <2>4, <3>1, <4>2 DEF Evidence
    <3>2. CASE x # s
      <4>1. \A u \in threads : HasThread(x, u) => HasThread(x, u)'
        BY <2>3, <2>4, <3>2 DEF HasThread
      <4>. QED  BY <2>3, <2>4, <3>2, <4>1 DEF VerdictsOK
    <3>. QED  BY <3>1, <3>2
  <2>. QED  BY <1>1, <2>4, <2>8, <2>9 DEF PackagesOK
<1>. QED  BY <1>2, <1>3 DEF StartStatement

\* A thread goes on, whether or not its step still waits for it; one that is done does not.
LEMMA ThreadMoves ==
    ASSUME StepsInv, NEW t \in threads, OpenSession(t) \/ _execute_sql(t) \/ _open_run_close(t)
    PROVE  StepsInv'
<1>. USE DEF StepsInv
<1>0. t \in ThreadKinds /\ UNCHANGED <<clock, packages, steps>> /\ t.pc # "done"
  BY DEF ThreadsOK, OpenSession, _execute_sql, _open_run_close
<1>1. PICK u \in ThreadKinds :
        /\ threads' = (threads \ {t}) \cup {u} /\ u.step = t.step /\ u.attempt = t.attempt
        /\ u.pc = "done" => u.session = "closed"
  <2>1. CASE OpenSession(t)
    <3>. DEFINE u == [t EXCEPT !.pc = "open", !.session = "open"]
    <3>1. /\ u \in ThreadKinds /\ u.step = t.step /\ u.attempt = t.attempt /\ u.pc = "open"
          /\ threads' = (threads \ {t}) \cup {u}
      BY <1>0, <2>1 DEF OpenSession, Becomes, ThreadKinds
    <3>. QED  BY <3>1
  <2>2. CASE _execute_sql(t)
    <3>1. PICK committed \in BOOLEAN : Becomes(t, [t EXCEPT !.pc = "executed", !.committed = committed])
      BY <2>2 DEF _execute_sql
    <3>. DEFINE u == [t EXCEPT !.pc = "executed", !.committed = committed]
    <3>2. /\ u \in ThreadKinds /\ u.step = t.step /\ u.attempt = t.attempt /\ u.pc = "executed"
          /\ threads' = (threads \ {t}) \cup {u}
      BY <1>0, <3>1 DEF Becomes, ThreadKinds
    <3>. QED  BY <3>2
  <2>3. CASE _open_run_close(t)
    <3>. DEFINE u == [t EXCEPT !.pc = "done", !.session = "closed"]
    <3>1. /\ u \in ThreadKinds /\ u.step = t.step /\ u.attempt = t.attempt /\ u.session = "closed"
          /\ threads' = (threads \ {t}) \cup {u}
      BY <1>0, <2>3 DEF _open_run_close, Becomes, ThreadKinds
    <3>. QED  BY <3>1
  <2>. QED  BY <2>1, <2>2, <2>3
<1>2. ThreadsOK'
  <2>1. threads' \subseteq ThreadKinds
    BY <1>1 DEF ThreadsOK
  <2>2. \A v, w \in threads' : v.step = w.step /\ v.attempt = w.attempt => v = w
    BY <1>1 DEF ThreadsOK
  <2>3. \A v \in threads' : /\ v.attempt <= steps[v.step].attempt
                            /\ steps[v.step].pc = "launch" => v.attempt < steps[v.step].attempt
                            /\ v.pc = "done" => v.session = "closed"
    BY <1>1 DEF ThreadsOK
  <2>. QED  BY <1>0, <2>1, <2>2, <2>3 DEF ThreadsOK
<1>3. VerdictsOK'
  <2>. SUFFICES ASSUME NEW x \in WaveSteps
                PROVE  /\ Evidence(steps[x])
                       /\ steps[x].pc = "await" => \E v \in threads' : HasThread(x, v)'
                       /\ steps[x].verdict = "succeeded" /\ steps[x].type = "sql" =>
                             \E v \in threads' : HasThread(x, v)' /\ v.pc = "done" /\ v.committed
    BY <1>0 DEF VerdictsOK, Evidence
  <2>1. \A v \in threads : v # t /\ HasThread(x, v) => HasThread(x, v)'
    BY <1>0, <1>1 DEF HasThread
  <2>2. HasThread(x, t) => HasThread(x, u)'
    BY <1>0, <1>1 DEF HasThread
  <2>3. \A v \in threads : v # t => v \in threads'
    BY <1>1
  <2>4. u \in threads'
    BY <1>1
  <2>. QED  BY <1>0, <2>1, <2>2, <2>3, <2>4 DEF VerdictsOK
<1>. QED  BY <1>0, <1>2, <1>3 DEF PackagesOK

\* The next attempt begins with no thread of its own.
LEMMA AttemptRepeats == ASSUME StepsInv, NEW s \in WaveSteps, _run_step_with_retry(s) PROVE StepsInv'
<1>. USE DEF StepsInv
<1>. DEFINE r == [steps[s] EXCEPT !.pc = "launch", !.attempt = steps[s].attempt + 1,
                                  !.verdict = "none", !.rc = -1, !.wrote = FALSE]
<1>1. UNCHANGED <<clock, packages, threads>> /\ steps[s] \in StepKinds
  BY DEF _run_step_with_retry
<1>2. /\ r \in StepKinds /\ r.pc = "launch" /\ r.attempt = steps[s].attempt + 1
      /\ r.verdict = "none" /\ steps[s].attempt \in Nat
  <2>1. steps[s].attempt \in Nat /\ steps[s].attempt + 1 \in Nat
    BY <1>1 DEF StepKinds
  <2>. QED  BY <1>1, <2>1 DEF StepKinds
<1>3. steps' = [steps EXCEPT ![s] = r]
  BY <1>1 DEF _run_step_with_retry
<1>. HIDE DEF r
<1>4. steps' \in [WaveSteps -> StepKinds] /\ \A x \in WaveSteps : steps'[x] = IF x = s THEN r ELSE steps[x]
  BY <1>2, <1>3
<1>5. ThreadsOK'
  <2>. SUFFICES ASSUME NEW t \in threads
                PROVE  /\ t.attempt <= steps'[t.step].attempt
                       /\ steps'[t.step].pc = "launch" => t.attempt < steps'[t.step].attempt
    BY <1>1 DEF ThreadsOK
  <2>1. t.attempt \in Nat /\ t.step \in WaveSteps /\ t.attempt <= steps[t.step].attempt
    BY DEF ThreadsOK, ThreadKinds
  <2>2. CASE t.step = s
    BY <1>2, <1>4, <2>1, <2>2
  <2>3. CASE t.step # s
    BY <1>4, <2>1, <2>3 DEF ThreadsOK
  <2>. QED  BY <2>2, <2>3
<1>6. VerdictsOK'
  <2>. SUFFICES ASSUME NEW x \in WaveSteps
                PROVE  /\ Evidence(steps'[x])
                       /\ steps'[x].pc = "await" => \E v \in threads : HasThread(x, v)'
                       /\ steps'[x].verdict = "succeeded" /\ steps'[x].type = "sql" =>
                             \E v \in threads : HasThread(x, v)' /\ v.pc = "done" /\ v.committed
    BY <1>1 DEF VerdictsOK, Evidence
  <2>1. CASE x = s
    BY <1>2, <1>4, <2>1 DEF Evidence
  <2>2. CASE x # s
    BY <1>1, <1>4, <2>2 DEF VerdictsOK, HasThread
  <2>. QED  BY <2>1, <2>2
<1>. QED  BY <1>1, <1>4, <1>5, <1>6 DEF PackagesOK

\* For any number of steps and attempts, what an executor says rests on this attempt or
\* at least on this run, and no statement leaves its session open.
THEOREM ExecutorsAreHonest == StepsSpec => []ExecutorsHonest
<1>1. StepsInit => StepsInv
  <2>. SUFFICES ASSUME StepsInit PROVE StepsInv
    OBVIOUS
  <2>1. PICK type \in [WaveSteps -> Types], dir \in [WaveSteps -> Dirs] :
          steps = [s \in WaveSteps |->
                     [type |-> type[s], dir |-> dir[s],
                      pc |-> "launch", attempt |-> 1, rc |-> -1, wrote |-> FALSE,
                      verdict |-> "none", package |-> NoPackage]]
    BY DEF StepsInit
  <2>2. steps \in [WaveSteps -> StepKinds]
    BY <2>1 DEF StepKinds, NoPackage, Package
  <2>3. \A s \in WaveSteps : steps[s].pc = "launch" /\ steps[s].verdict = "none"
    BY <2>1
  <2>4. ThreadsOK
    BY DEF StepsInit, ThreadsOK
  <2>5. VerdictsOK
    BY <2>3 DEF VerdictsOK, Evidence
  <2>6. PackagesOK
    <3>1. clock = 1 /\ StartedAt = 1
      BY DEF StepsInit, StartedAt
    <3>2. CASE packages = {}
      BY <3>1, <3>2 DEF PackagesOK
    <3>3. CASE packages = {Package(d, 0, "loaded", TRUE, "earlier") : d \in Dirs}
      <4>1. ASSUME NEW p \in packages
            PROVE  /\ p.id = 0 /\ 0 < 1
                   /\ p \in [dir : Dirs, id : Nat, state : {"new", "loaded"}, clean : BOOLEAN,
                             by : WaveSteps \cup {"earlier"}]
        <5>1. PICK d \in Dirs : p = Package(d, 0, "loaded", TRUE, "earlier")
          BY <3>3
        <5>. QED  BY <5>1 DEF Package
      <4>. QED  BY <3>1, <4>1 DEF PackagesOK
    <3>4. \/ packages = {}
          \/ packages = {Package(d, 0, "loaded", TRUE, "earlier") : d \in Dirs}
      BY DEF StepsInit
    <3>. QED  BY <3>2, <3>3, <3>4
  <2>. QED  BY <2>2, <2>4, <2>5, <2>6 DEF StepsInv
<1>2. StepsInv /\ [StepsNext]_stepVars => StepsInv'
  <2>. SUFFICES ASSUME StepsInv, [StepsNext]_stepVars PROVE StepsInv'
    OBVIOUS
  <2>1. CASE UNCHANGED stepVars
    BY <2>1 DEF stepVars, StepsInv, PackagesOK, ThreadsOK, VerdictsOK, HasThread
  <2>. QED  BY <2>1, AttemptRepeats, ProgramStarts, ProgramRuns, ScriptJudged, DbtJudged,
               StatementStarts, StatementJudged, ThreadMoves DEF StepsNext
<1>3. StepsInv => ExecutorsHonest
  <2>. SUFFICES ASSUME StepsInv PROVE ExecutorsHonest
    OBVIOUS
  <2>1. LeakFree
    BY DEF StepsInv, ThreadsOK, LeakFree
  <2>2. ASSUME NEW s \in WaveSteps, steps[s].verdict = "succeeded"
        PROVE  CASE steps[s].type = "dlt" -> /\ steps[s].rc = 0
                                             /\ steps[s].package.by # "earlier"
                                             /\ steps[s].package.state = "loaded" /\ steps[s].package.clean
                 [] steps[s].type = "dbt" -> steps[s].rc = 0
                 [] steps[s].type = "sql" -> Own(s).committed
    <3>1. steps[s].type \in {"dlt", "dbt", "sql"} /\ Evidence(steps[s])
      BY DEF StepsInv, StepKinds, Types, VerdictsOK
    <3>2. steps[s].type = "sql" => Own(s).committed
      BY <2>2, OwnThread DEF StepsInv, VerdictsOK
    <3>3. "dlt" # "dbt" /\ "dlt" # "sql" /\ "dbt" # "sql"
      OBVIOUS
    <3>4. CASE steps[s].type = "dlt"
      BY <2>2, <3>1, <3>3, <3>4, Zenon DEF Evidence
    <3>5. CASE steps[s].type = "dbt"
      BY <2>2, <3>1, <3>3, <3>5, Zenon DEF Evidence
    <3>6. CASE steps[s].type = "sql"
      BY <3>2, <3>3, <3>6, Zenon
    <3>. QED  BY <3>1, <3>4, <3>5, <3>6
  <2>3. SuccessHasEvidence
    BY <2>2 DEF SuccessHasEvidence
  <2>. QED  BY <2>1, <2>3 DEF ExecutorsHonest
<1>. QED  BY <1>1, <1>2, <1>3, PTL DEF StepsSpec

-----------------------------------------------------------------------------
(* Provisioning: PinWasValidated holds of every dialect, however often      *)
(* carve connect is run, fails, is interrupted, or loses the environment.   *)

Backends == {"absent", "local", "managed", "external"}
Pcs == {"none", "install", "pip", "validate", "pin"}

ProvisionTypeOK ==
    /\ block \in [backend : Backends, pin : {"none", "dbt-core", "fusion"}]
    /\ venv \in [there : BOOLEAN, dbt : BOOLEAN, works : BOOLEAN,
                 adapters : SUBSET (Dialects \cup _FUSION_DIALECTS \cup {"none"})]
    /\ connect \in [pc : Pcs, dialect : Dialects \cup _FUSION_DIALECTS \cup {"none"},
                    engine : {"none", "dbt-core", "fusion"},
                    outcome : {"none", "managed", "external", "noop", "unsupported", "error", "invalid",
                               "interrupted", "provisioned"}]
    /\ validated \in BOOLEAN

\* A command under way is for a backend that carve provisions; past the choice of
\* the installer its engine is dbt-core, and before the pin that engine answered.
CommandInv ==
    /\ connect.pc # "none" => block.backend \in {"absent", "local"}
    /\ connect.pc \in {"pip", "validate", "pin"} => connect.engine = "dbt-core"
    /\ connect.pc = "install" => connect.engine \in {"dbt-core", "fusion"}
    /\ connect.pc = "pin" => validated

ProvisionInv == ProvisionTypeOK /\ CommandInv /\ PinWasValidated

\* In the states where carve connect has not run nothing is pinned or installed.
LEMMA ProvisionStart == ProvisionInit => ProvisionInv
<1> SUFFICES ASSUME ProvisionInit PROVE ProvisionInv
    OBVIOUS
<1>1. ProvisionTypeOK
  BY DEF ProvisionInit, ProvisionTypeOK, NoVenv, AtRestConnect, Backends, Pcs
<1>2. CommandInv
  BY DEF ProvisionInit, CommandInv, AtRestConnect
<1>3. PinWasValidated
  BY DEF ProvisionInit, PinWasValidated
<1>4. QED
  BY <1>1, <1>2, <1>3 DEF ProvisionInv

\* Each step of carve connect, and what people do between them, keeps ProvisionInv.
LEMMA ProvisionSteps == ProvisionInv /\ [ProvisionNext]_provisionVars => ProvisionInv'
<1> SUFFICES ASSUME ProvisionInv, [ProvisionNext]_provisionVars PROVE ProvisionInv'
    OBVIOUS
<1> USE DEF ProvisionInv, ProvisionTypeOK, CommandInv, PinWasValidated, Backends, Pcs, ConnectEnds
<1>1. ASSUME NEW d \in Dialects \cup _FUSION_DIALECTS, provision_dbt_engine(d) PROVE ProvisionInv'
  <2>1. resolve_or_reuse(d) \in {"dbt-core", "fusion"}
    BY DEF resolve_or_reuse, resolve_engine
  <2>2. UNCHANGED <<block, venv, validated>> /\ connect.pc = "none"
    BY <1>1 DEF provision_dbt_engine
  <2>3. CASE block.backend \in {"managed", "external"}
    <3>1. connect' = [pc |-> "none", dialect |-> d, engine |-> "none", outcome |-> block.backend]
      BY <1>1, <2>3 DEF provision_dbt_engine, AtRestConnect
    <3>2. QED
      BY <3>1, <2>2, <2>3
  <2>4. CASE block.backend \notin {"managed", "external"} /\ block.pin # "none" /\ _engine_present_on_disk
    <3>1. connect' = [pc |-> "none", dialect |-> d, engine |-> "none", outcome |-> "noop"]
      BY <1>1, <2>4 DEF provision_dbt_engine, AtRestConnect
    <3>2. QED
      BY <3>1, <2>2, <2>4
  <2>5. CASE block.backend \notin {"managed", "external"} /\ ~(block.pin # "none" /\ _engine_present_on_disk)
    <3>1. connect' = [pc |-> "install", dialect |-> d, engine |-> resolve_or_reuse(d), outcome |-> "none"]
      BY <1>1, <2>5 DEF provision_dbt_engine
    <3>2. QED
      BY <3>1, <2>1, <2>2, <2>5
  <2>6. QED
    BY <2>3, <2>4, <2>5
<1>2. CASE install_engine
  <2>1. UNCHANGED <<block, validated>> /\ connect.pc = "install"
    BY <1>2 DEF install_engine
  <2>2. CASE connect.engine = "fusion" /\ ConnectEnds("unsupported") /\ UNCHANGED venv
    BY <2>1, <2>2
  <2>3. CASE connect.engine # "fusion" /\ venv.dbt
             /\ connect' = [connect EXCEPT !.pc = "validate"] /\ UNCHANGED venv
    BY <2>1, <2>3
  <2>4. CASE connect.engine # "fusion" /\ ~venv.dbt
             /\ venv' = [venv EXCEPT !.there = TRUE] /\ connect' = [connect EXCEPT !.pc = "pip"]
    BY <2>1, <2>4
  <2>5. QED
    BY <1>2, <2>2, <2>3, <2>4 DEF install_engine
<1>3. CASE PipStep
  <2>1. UNCHANGED <<block, connect, validated>> /\ connect.pc = "pip"
    BY <1>3 DEF PipStep
  <2>2. CASE venv' = [venv EXCEPT !.dbt = TRUE]
    BY <2>1, <2>2
  <2>3. CASE venv' = [venv EXCEPT !.works = TRUE]
    BY <2>1, <2>3
  <2>4. CASE connect.dialect \notin venv.adapters
             /\ venv' = [venv EXCEPT !.adapters = @ \cup {connect.dialect}]
    BY <2>1, <2>4
  <2>5. QED
    BY <1>3, <2>2, <2>3, <2>4 DEF PipStep
<1>4. CASE PipDone
  BY <1>4 DEF PipDone
<1>5. CASE PipFails
  BY <1>5 DEF PipFails
<1>6. CASE _default_validate
  <2>1. UNCHANGED <<block, venv>> /\ connect.pc = "validate"
    BY <1>6 DEF _default_validate
  <2>2. CASE validated' = TRUE /\ connect' = [connect EXCEPT !.pc = "pin"]
    BY <2>1, <2>2
  <2>3. CASE ConnectEnds("invalid") /\ UNCHANGED validated
    BY <2>1, <2>3
  <2>4. QED
    BY <1>6, <2>2, <2>3 DEF _default_validate
<1>7. CASE pin_engine
  <2>1. UNCHANGED <<venv, validated>> /\ connect.pc = "pin"
    BY <1>7 DEF pin_engine
  <2>2. CASE block.backend = "absent"
    <3>1. UNCHANGED block /\ ConnectEnds("error")
      BY <1>7, <2>2 DEF pin_engine
    <3>2. QED
      BY <2>1, <2>2, <3>1
  <2>3. CASE block.backend # "absent"
    <3>1. block' = [block EXCEPT !.pin = "dbt-core"] /\ ConnectEnds("provisioned")
      BY <1>7, <2>1, <2>3 DEF pin_engine
    <3>2. block'.backend = block.backend /\ block'.pin = "dbt-core"
      BY <3>1
    <3>3. block.backend = "local" /\ validated
      BY <2>1, <2>3
    <3>4. connect'.pc = "none" /\ UNCHANGED <<venv, validated>>
      BY <2>1, <3>1
    <3>5. ProvisionTypeOK'
      BY <2>1, <3>1
    <3>6. QED
      BY <3>2, <3>3, <3>4, <3>5
  <2>4. QED
    BY <2>2, <2>3
<1>8. CASE InterruptConnect
  BY <1>8 DEF InterruptConnect
<1>9. CASE WipeVenv
  BY <1>9 DEF WipeVenv, NoVenv
<1>10. CASE Graduate
  BY <1>10 DEF Graduate
<1>11. CASE UNCHANGED provisionVars
  BY <1>11 DEF provisionVars
<1>12. QED
  BY <1>1, <1>2, <1>3, <1>4, <1>5, <1>6, <1>7, <1>8, <1>9, <1>10, <1>11 DEF ProvisionNext

\* carve connect never pins an engine that did not answer, and touches nothing of a
\* component whose backend is managed or external.
THEOREM BrokenIsNeverPinned == ProvisionSpec => []PinWasValidated
<1>1. ProvisionInv => PinWasValidated
  BY DEF ProvisionInv
<1>2. QED
  BY ProvisionStart, ProvisionSteps, <1>1, PTL DEF ProvisionSpec
=============================================================================
