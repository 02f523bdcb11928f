------------------------------ MODULE EventLog ------------------------------
(***************************************************************************)
(* The events of one run: rows of the events table written by              *)
(* EventEmitter.emit (runtime/events.py).  An insert takes its id from the *)
(* BIGSERIAL sequence and becomes visible at its commit, so the coroutines *)
(* of a wave may commit in another order than that of their ids.           *)
(***************************************************************************)
EXTENDS Naturals, FiniteSets

CONSTANT MaxEvents  \* bound on the events of the run

ASSUME MaxEventsAssumption == MaxEvents \in Nat

VARIABLE log

Ids == 1..MaxEvents

\* A step.* event, or a terminal run.* event.
Kinds == {"step", "end"}

\* stamp: 0 while processed_at IS NULL, then the number of the fan-out that
\* stamped it, which is also the order of created_at of its deliveries.
EventRow == [state : {"absent", "open", "committed", "lost"},
             kind  : Kinds,
             stamp : Nat]

LogInit == log = [i \in Ids |-> [state |-> "absent", kind |-> "step", stamp |-> 0]]

Issued == {i \in Ids : log[i].state # "absent"}
Open == {i \in Ids : log[i].state = "open"}
Committed == {i \in Ids : log[i].state = "committed"}
Ended == {i \in Ids : log[i].kind = "end"}

\* The first n elements of a set of ids: ORDER BY id LIMIT n.
Page(S, n) == {i \in S : Cardinality({j \in S : j < i}) < n}

\* The worker emits one terminal event: _finalize after the walk, but _fail_job
\* as soon as the walk raises, while the steps beside the raising one run on and
\* emit.  So a step may emit before, beside and after it.
BeginEmit(k) ==
    /\ k = "end" => Ended = {}
    /\ \E i \in Ids \ Issued :
          /\ \A j \in Ids : j < i => j \in Issued
          /\ log' = [log EXCEPT ![i].state = "open", ![i].kind = k]

CommitEmit(i) == i \in Open /\ log' = [log EXCEPT ![i].state = "committed"]

\* Logged and swallowed; the id is gone.
EmitFails(i) == i \in Open /\ log' = [log EXCEPT ![i].state = "lost"]
=============================================================================
