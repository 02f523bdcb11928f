------------------------------ MODULE Telemetry -----------------------------
(***************************************************************************)
(* What a delegation session leaves in agent_invocations and skill_calls:  *)
(* _delegate_engine brackets every engine with begin_invocation and        *)
(* end_invocation of one RecordingObserver (core/observability/            *)
(* recording.py), whose writes (core/state/telemetry.py) may fail without  *)
(* failing the session, and carve metrics adds the rows up                 *)
(* (core/observability/rollups.py).                                        *)
(***************************************************************************)
EXTENDS Integers, Sequences, FiniteSets, FiniteSetsExt, SequencesExt

CONSTANTS
    MaxEngines,   \* bound: engines that the session delegates to
    MaxToolRows   \* bound: tool results of an engine

ASSUME TelemetryAssumption == MaxEngines \in Nat \ {0} /\ MaxToolRows \in Nat

VARIABLES
    invocations,   \* the rows of agent_invocations, by id
    skillCalls,    \* the rows of skill_calls
    observer,      \* _open_invocation_id; 0 is None
    engine,        \* the delegation: its place, engine, id and tool results
    lost,          \* whether a write of telemetry has failed
    spent          \* cost of every delegation that returned, by engine

telemetryVars == <<invocations, skillCalls, observer, engine, lost, spent>>

NoId == 0
SessionEngines == 1..MaxEngines

TelemetryInit ==
    /\ invocations = << >> /\ skillCalls = << >> /\ observer = NoId
    /\ engine = [pc |-> "idle", n |-> 0, id |-> NoId, tools |-> 0]
    /\ lost = FALSE
    /\ spent = [e \in SessionEngines |-> 0]

\* open_invocation inserts a running row, or raises.
open_invocation(agent) ==
    invocations' = Append(invocations, [agent |-> agent, status |-> "running", cost |-> 0])

begin_invocation ==
    /\ engine.pc = "idle" /\ engine.n < MaxEngines
    /\ \/ /\ open_invocation(engine.n + 1)
          /\ observer' = Len(invocations) + 1
          /\ UNCHANGED lost
       \/ observer' = NoId /\ lost' = TRUE /\ UNCHANGED invocations
    /\ engine' = [pc |-> "delegate", n |-> engine.n + 1, id |-> observer', tools |-> 0]
    /\ UNCHANGED <<skillCalls, spent>>

\* A result without an open invocation is dropped.
record_skill_call == skillCalls' = Append(skillCalls, [inv |-> observer, by |-> engine.n])
\* Mutant: the newest row stands in for one that was not opened.
on_tool_result_newest ==
    /\ engine.pc = "delegate" /\ engine.tools < MaxToolRows
    /\ engine' = [engine EXCEPT !.tools = @ + 1]
    /\ \/ /\ invocations # << >> /\ UNCHANGED lost
          /\ skillCalls' = Append(skillCalls, [inv |-> Len(invocations), by |-> engine.n])
       \/ lost' = TRUE /\ UNCHANGED skillCalls
    /\ UNCHANGED <<invocations, observer, spent>>
on_tool_result ==
    /\ engine.pc = "delegate" /\ engine.tools < MaxToolRows
    /\ engine' = [engine EXCEPT !.tools = @ + 1]
    /\ \/ observer # NoId /\ record_skill_call /\ UNCHANGED lost
       \/ lost' = TRUE /\ UNCHANGED skillCalls
    /\ UNCHANGED <<invocations, observer, spent>>

\* delegate returns what it cost, with whatever status, or raises.
DelegateReturns ==
    /\ engine.pc = "delegate"
    /\ \E cost \in 1..2, status \in {"succeeded", "failed", "needs_user_input"} :
          /\ spent' = [spent EXCEPT ![engine.n] = cost]
          /\ engine' = [engine EXCEPT !.pc = status]
    /\ UNCHANGED <<invocations, skillCalls, observer, lost>>
RaisesInDelegate ==
    /\ engine.pc = "delegate"
    /\ engine' = [engine EXCEPT !.pc = "raised"]
    /\ UNCHANGED <<invocations, skillCalls, observer, lost, spent>>

finalize_invocation(status) ==
    invocations' = [invocations EXCEPT ![engine.id].status = status,
                                       ![engine.id].cost = IF engine.pc = "raised" THEN 0 ELSE spent[engine.n]]

\* The session goes on after a result and ends after an exception.
end_invocation ==
    /\ engine.pc \in {"succeeded", "failed", "needs_user_input", "raised"}
    /\ observer' = IF observer = engine.id THEN NoId ELSE observer
    /\ \/ engine.id # NoId /\ finalize_invocation(IF engine.pc = "raised" THEN "failed" ELSE engine.pc)
          /\ UNCHANGED lost
       \/ lost' = TRUE /\ UNCHANGED invocations
    /\ engine' = [engine EXCEPT !.pc = IF engine.pc = "raised" THEN "over" ELSE "idle"]
    /\ UNCHANGED <<skillCalls, spent>>

\* The process is killed.
KillSession ==
    /\ engine.pc \notin {"over", "killed"}
    /\ engine' = [engine EXCEPT !.pc = "killed"]
    /\ UNCHANGED <<invocations, skillCalls, observer, lost, spent>>

TelemetryNext == 
    begin_invocation \/ on_tool_result \/ DelegateReturns \/ RaisesInDelegate \/ end_invocation \/ KillSession
TelemetrySpec == TelemetryInit /\ [][TelemetryNext]_telemetryVars

-----------------------------------------------------------------------------
\* MetricsRollups.costs and agents.
costs == [invocations |-> Len(invocations),
          cost_usd |-> FoldSeq(LAMBDA row, sum : row.cost + sum, 0, invocations)]
agents(e) ==
    LET rows == {i \in DOMAIN invocations : invocations[i].agent = e}
    IN  [invocations |-> Cardinality(rows),
         cost_usd |-> MapThenSumSet(LAMBDA i : invocations[i].cost, rows),
         skill_calls |-> Cardinality({k \in DOMAIN skillCalls : skillCalls[k].inv \in rows})]

\* The rows are what happened, whichever writes failed: a tool call is of the engine
\* that made it and never of the one before, an engine has one row and is charged for
\* no more than it cost, and at rest, if no write failed, each has its row, with its
\* whole cost, and none is left running.
RowsTrue ==
    /\ \A k \in DOMAIN skillCalls : invocations[skillCalls[k].inv].agent = skillCalls[k].by
    /\ \A i, j \in DOMAIN invocations : invocations[i].agent = invocations[j].agent => i = j
    /\ \A i \in DOMAIN invocations : invocations[i].cost <= spent[invocations[i].agent]
    /\ engine.pc \in {"idle", "over"} /\ ~lost =>
          /\ Len(invocations) = engine.n
          /\ \A i \in DOMAIN invocations :
                /\ invocations[i].status # "running"
                /\ invocations[i].cost = spent[invocations[i].agent]

\* What carve metrics add up is true as well: no engine is reported to cost more than
\* it did, and at rest, if no write failed, everything is counted.
SumsTrue ==
    /\ \A e \in SessionEngines : agents(e).cost_usd <= spent[e]
    /\ engine.pc \in {"idle", "over"} /\ ~lost =>
          costs.cost_usd = MapThenSumSet(LAMBDA e : spent[e], SessionEngines)

\* The telemetry of a delegation, and what is reported of it.
MetricsTrue == RowsTrue /\ SumsTrue
=============================================================================
