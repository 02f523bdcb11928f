------------------------------- MODULE Paging -------------------------------
(***************************************************************************)
(* The pages of a collection (api/pagination.py, over the list_* queries   *)
(* of the repositories): a client follows next_cursor while rows are       *)
(* inserted and archived.                                                  *)
(*                                                                         *)
(* A row has an id, the time at it was created (times tie), the page       *)
(* before which it is inserted (0: it was there) and the one before which  *)
(* it is archived.                                                         *)
(***************************************************************************)
EXTENDS Integers, Sequences, FiniteSets, SequencesExt

CONSTANTS
    MAX_LIMIT,           \* cap on the size of a page
    DEFAULT_LIMIT,       \* the size when none is asked for
    CANDIDATE_CEILING,   \* rows that a query returns at most
    MaxPages             \* pages that the client reads at most

ASSUME PagingAssumption ==
    /\ MAX_LIMIT \in Nat \ {0} /\ DEFAULT_LIMIT \in 1..MAX_LIMIT
    /\ CANDIDATE_CEILING \in Nat \ {0} /\ MaxPages \in Nat \ {0}

NoCursor == [last_id |-> -1, created_at |-> -1]
encode_cursor(row) == [last_id |-> row.id, created_at |-> row.at]

\* An optional limit is a set with at most one element.
clamp_limit(limit) ==
    IF limit = {} THEN DEFAULT_LIMIT
    ELSE LET n == CHOOSE n \in limit : TRUE
         IN  CASE n < 1 -> 1
               [] n \in 1..MAX_LIMIT -> n
               [] n > MAX_LIMIT -> MAX_LIMIT

_is_before(row, cursor) ==
    \/ row.at < cursor.created_at
    \/ row.at = cursor.created_at /\ row.id < cursor.last_id

\* Newest first, ties by id.
order_candidates(rows) ==
    LET Earlier(r) == {s \in rows : _is_before(r, encode_cursor(s))}
    IN  [i \in 1..Cardinality(rows) |-> CHOOSE r \in rows : Cardinality(Earlier(r)) = i - 1]

\* ORDER BY created_at DESC LIMIT n: of rows that tie at the end, any.
Candidates(rows) ==
    CHOOSE C \in SUBSET rows :
        /\ Cardinality(C) = IF Cardinality(rows) < CANDIDATE_CEILING
                            THEN Cardinality(rows) ELSE CANDIDATE_CEILING
        /\ \A r \in C, s \in rows \ C : s.at <= r.at

\* What is after the cursor, in order: filtering keeps the order of the list.
paginate(candidates, limit, cursor) ==
    LET filtered == order_candidates({r \in candidates : cursor = NoCursor \/ _is_before(r, cursor)})
        has_more == Len(filtered) > limit
        items == IF has_more THEN SubSeq(filtered, 1, limit) ELSE filtered
    IN  [items |-> items, has_more |-> has_more,
         next_cursor |-> IF has_more THEN encode_cursor(items[limit]) ELSE NoCursor]

-----------------------------------------------------------------------------
There(rows, k) == {r \in rows : r.from < k /\ k <= r.till}

\* What the client has after page k: it stops when there is no more.
Pages(rows, asked) ==
    LET W[k \in 0..MaxPages] ==
            IF k = 0 THEN [items |-> << >>, has_more |-> TRUE, cursor |-> NoCursor]
            ELSE LET w == W[k - 1]
                     page == paginate(Candidates(There(rows, k)), clamp_limit(asked), w.cursor)
                 IN  IF ~w.has_more THEN w
                     ELSE [items |-> w.items \o page.items, has_more |-> page.has_more,
                           cursor |-> page.next_cursor]
    IN  W[MaxPages]

\* "the cursor contract is exact and stable": however rows come and go between the
\* pages and whatever size was asked for, the walk ends, no row comes twice, and
\* each row that was there all the time comes, as long as the collection has not
\* outgrown the ceiling.
Complete(rows, asked) ==
    LET w == Pages(rows, asked)
    IN  /\ ~w.has_more
        /\ IsInjective(w.items)
        /\ (\A k \in 1..MaxPages : Cardinality(There(rows, k)) <= CANDIDATE_CEILING)
              => {r \in rows : r.from = 0 /\ r.till >= MaxPages} \subseteq ToSet(w.items)
=============================================================================
