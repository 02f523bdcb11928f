---------------------------- MODULE EventStream -----------------------------
(***************************************************************************)
(* One client's stream of a run's events over WebSocket or SSE             *)
(* (api/streams.py): a backfill, then a tail that polls for ids above the  *)
(* last one seen (core/state/events_read.py).  Pages are sent in the order *)
(* of their ids, so what was sent is a set.  Keepalives decide nothing.    *)
(***************************************************************************)
EXTENDS EventLog

CONSTANTS
    BackfillLimit,  \* 1000 in EventsReader.backfill
    TailLimit       \* 500 in EventsReader.tail_after

ASSUME LimitsAssumption == BackfillLimit \in Nat \ {0} /\ TailLimit \in Nat \ {0}

VARIABLES
    stream,    \* where iter_run_events is, last_id, and what was sent
    overtaken  \* events that committed below last_id

\* A client connects at some moment of the run, or none does.
StreamInit == /\ stream \in [pc : {"backfill", "gone"}, last : {0}, sent : {{}}]
              /\ overtaken = {}

MaxId(S) == IF S = {} THEN 0 ELSE CHOOSE i \in S : \A j \in S : j <= i

\* A page is sent; a terminal event among it ends the stream.
Send(page) ==
    stream' = [pc   |-> IF page \cap Ended # {} THEN "closed" ELSE "tail",
               last |-> MaxId(page \cup {stream.last}),
               sent |-> stream.sent \cup page]

\* The backfill returns at the first terminal event; the tail sends its page.
UpToEnd(page) == {i \in page : \A j \in Ended \cap page : i <= j}

\* Mutant: the cursor is taken from the table, not from the page.
Backfill_cursor_of_table ==
    /\ stream.pc = "backfill"
    /\ LET page == UpToEnd(Page(Committed, BackfillLimit))
       IN  stream' = [pc |-> IF page \cap Ended # {} THEN "closed" ELSE "tail",
                      last |-> MaxId(Committed), sent |-> page]
    /\ UNCHANGED <<log, overtaken>>
Backfill ==
    /\ stream.pc = "backfill"
    /\ Send(UpToEnd(Page(Committed, BackfillLimit)))
    /\ UNCHANGED <<log, overtaken>>

\* Mutant: the poll asks for the id that follows last_id.
Newer_next_id == Committed \cap {stream.last + 1}
Newer == {i \in Committed : i > stream.last}

Poll ==
    /\ stream.pc = "tail"
    /\ Newer # {}
    /\ Send(Page(Newer, TailLimit))
    /\ UNCHANGED <<log, overtaken>>

\* The client leaves, or MAX_STREAM_SECONDS are over; nobody reads its locals.
Drop ==
    /\ stream.pc \in {"backfill", "tail"}
    /\ stream' = [pc |-> "gone", last |-> 0, sent |-> {}]
    /\ overtaken' = {}
    /\ UNCHANGED log

StreamStep == Backfill \/ Poll

\* What the log's commits mean to the stream.
Overtakes(i) == overtaken' = IF i < stream.last THEN overtaken \cup {i} ELSE overtaken

-----------------------------------------------------------------------------
StreamTypeOK ==
    /\ stream \in [pc : {"backfill", "tail", "closed", "gone"}, last : 0..MaxEvents,
                   sent : SUBSET Ids]
    /\ overtaken \subseteq Ids

\* A stream that closed by itself has sent every event before the end of the
\* run but those that committed after a later id had been sent: page limits, the
\* seam between backfill and tail, ids lost by failed emits and steps that emit
\* beside the terminal event drop nothing.
BeforeEnd == {i \in Committed : \A j \in Ended : i <= j}
StreamComplete == stream.pc = "closed" => BeforeEnd \subseteq stream.sent \cup overtaken

\* Once the terminal event is committed, an open stream that it did not commit
\* behind closes.
StreamEnds ==
    ((Ended \cap Committed) \ overtaken # {}) ~> stream.pc \in {"closed", "gone"}

\* streams.py: the stream is "closing when the run reaches a terminal state".
EveryStreamEnds == (Ended \cap Committed # {}) ~> stream.pc \in {"closed", "gone"}
=============================================================================
