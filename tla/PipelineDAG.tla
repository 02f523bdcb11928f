---------------------------- MODULE PipelineDAG -----------------------------
(***************************************************************************)
(* runtime/pipeline_dag.py: the checks and orders a pipeline run is built  *)
(* on.  A step is its position in the file, so that declaration order is   *)
(* the order of numbers; deps maps a step to its depends_on set, in which  *)
(* a number outside Steps is an unknown id.                                *)
(***************************************************************************)
EXTENDS Naturals, Sequences

CONSTANT N   \* number of steps
ASSUME NAssumption == N \in Nat \ {0}

Steps == 1..N
Elements(q) == {q[i] : i \in 1..Len(q)}
dependents(deps, s) == {t \in Steps : s \in deps[t]}

-----------------------------------------------------------------------------
(* _validate_no_cycles: depth-first search with an explicit stack.  The    *)
(* nodes on it are grey, the ones in done black, the others white.         *)

\* Mutant: a node already on the stack counts as visited.
Visit_grey_is_done(deps, d) ==
    LET top == d.stack[Len(d.stack)]
        white == {t \in deps[top] : t \notin d.done \cup Elements(d.stack)}
    IN  IF deps[top] \ Steps # {}
        THEN [d EXCEPT !.raised = TRUE]
        ELSE IF white # {}
        THEN [d EXCEPT !.stack = Append(@, CHOOSE t \in white : TRUE)]
        ELSE [d EXCEPT !.stack = SubSeq(@, 1, Len(@) - 1), !.done = @ \cup {top}]
Visit(deps, d) ==
    LET top == d.stack[Len(d.stack)]
        white == {t \in deps[top] : t \notin d.done \cup Elements(d.stack)}
    IN  IF deps[top] \ Steps # {} \/ deps[top] \cap Elements(d.stack) # {}
        THEN [d EXCEPT !.raised = TRUE]
        ELSE IF white # {}
        THEN [d EXCEPT !.stack = Append(@, CHOOSE t \in white : TRUE)]
        ELSE [d EXCEPT !.stack = SubSeq(@, 1, Len(@) - 1), !.done = @ \cup {top}]

\* The outer loop starts at the first white step; every step is pushed and
\* popped once.
Search(deps) ==
    LET D[n \in 0..(2 * N)] ==
            IF n = 0 THEN [stack |-> << >>, done |-> {}, raised |-> FALSE]
            ELSE LET d == D[n - 1]
                 IN  IF d.raised THEN d
                     ELSE IF d.stack # << >> THEN Visit(deps, d)
                     ELSE IF d.done = Steps THEN d
                     ELSE [d EXCEPT !.stack = <<CHOOSE s \in Steps \ d.done :
                                                    \A t \in Steps \ d.done : s <= t>>]
    IN  D[2 * N]
_validate_no_cycles(deps) == ~Search(deps).raised

-----------------------------------------------------------------------------
(* _compute_topological_order: Kahn's algorithm, ties by declaration.      *)

_insert_sorted(q, x) ==
    LET greater == {i \in 1..Len(q) : q[i] > x}
        at == IF greater = {} THEN Len(q) + 1
              ELSE CHOOSE i \in greater : \A j \in greater : i <= j
    IN  SubSeq(q, 1, at - 1) \o <<x>> \o SubSeq(q, at, Len(q))

\* Each item of S, in order, inserted in q.
InsertAll(q, S) ==
    LET I[k \in 0..N] == IF k = 0 THEN q
                         ELSE IF k \in S THEN _insert_sorted(I[k - 1], k) ELSE I[k - 1]
    IN  I[N]

_compute_topological_order(deps) ==
    LET K[n \in 0..N] ==
            IF n = 0
            THEN [ready |-> InsertAll(<< >>, {s \in Steps : deps[s] = {}}), order |-> << >>]
            ELSE LET k == K[n - 1]
                     node == Head(k.ready)
                     popped == Elements(k.order) \cup {node}
                     newly == {t \in dependents(deps, node) : deps[t] \subseteq popped}
                 IN  IF k.ready = << >> THEN k
                     ELSE [ready |-> InsertAll(Tail(k.ready), newly),
                           order |-> Append(k.order, node)]
    IN  K[N].order

-----------------------------------------------------------------------------
\* The positions in the topological order of the steps that may be launched.
ready_steps(order, deps, completed, failed, skipped) ==
    LET resolved == completed \cup failed \cup skipped
    IN  {i \in DOMAIN order : order[i] \notin resolved /\ deps[order[i]] \subseteq resolved}

\* The closure of the frontier under dependents.
downstream_of(deps, s) ==
    LET R[n \in 0..N] ==
            IF n = 0 THEN dependents(deps, s)
            ELSE R[n - 1] \cup UNION {dependents(deps, t) : t \in R[n - 1]}
    IN  R[N]
=============================================================================
