----------------------------- MODULE Scheduler ------------------------------
(***************************************************************************)
(* The schedules table with its audit trail (core/state/schedules.py) and  *)
(* the loop that fires due rows onto the job queue (runtime/scheduler.py). *)
(*                                                                         *)
(* Time is counted in minutes, the granularity of cron.  A cron expression *)
(* is the period c of "*/c": its ticks are the multiples of c.  A mutator  *)
(* reads the clock before it locks the row, so it is two steps; the pass   *)
(* of the scheduler is one step per transaction, and set_last_fired, which *)
(* takes no lock, is a read and a write.  target, timezone, pause_reason   *)
(* and the actor of a change decide nothing and are left out.              *)
(***************************************************************************)
EXTENDS Naturals, Sequences

CONSTANTS
    Schedulers,   \* processes that run scheduler_loop
    Users,        \* callers of the mutators, one request at a time each
    Pipelines,
    Crons,        \* the periods that may be set
    Ops,          \* the mutators in use
    FlakyLabels,  \* pipelines whose resolve_label may raise
    Timely,       \* TRUE: passes and requests keep up with the clock
    MaxTime,      \* bound on the clock
    MaxChanges,   \* bound on the audit rows of a pipeline
    MaxCrash      \* bound on the number of passes cut short

ASSUME CronsAssumption == Crons \subseteq Nat \ {0}
ASSUME OpsAssumption == Ops \subseteq {"pause", "resume", "set_cron", "seed"}
ASSUME BoundAssumption == MaxTime \in Nat /\ MaxChanges \in Nat /\ MaxCrash \in Nat

VARIABLES
    clock,
    sched,     \* the row of each pipeline; cron = 0: there is none
    changes,   \* its schedule_changes rows, in the order of their ids
    op,        \* the request each user has under way
    queued,    \* pipelines with a queued job
    pass,      \* the local state of each scheduler's pass
    crashes,
    fired,     \* <<pipeline, scheduled_for>> of the jobs enqueued
    refired,   \* those enqueued more than once
    skipped,   \* those answered by schedule.skipped
    afterPause \* fires of a paused pipeline since its latest pause, up to 2

vars == <<clock, sched, changes, op, queued, pass, crashes, fired, refired, skipped, afterPause>>
history == <<fired, refired, skipped, afterPause>>

Row == [cron : Crons, paused : BOOLEAN, next : Nat]
NoRow == [cron |-> 0, paused |-> FALSE, next |-> 0]
Exists(p) == sched[p].cron # 0

Change == [at : Nat, before : Row \cup {NoRow}, after : Row]

Upserts == {"set_cron", "seed"}
NoOp == [kind |-> "none"]
Op == [kind : Ops, p : Pipelines, cron : Crons \cup {0}, at : Nat, absent : BOOLEAN]

Due == [p : Pipelines, cron : Crons, next : Nat]
NoDue == [p |-> "none"]
Pass == [pc : {"idle", "list", "rows", "read", "write"}, now : Nat,
         due : SUBSET Due,         \* rows of list_due not yet handled
         cur : Due \cup {NoDue}]   \* the row in hand
Idle == [pc |-> "idle", now |-> 0, due |-> {}, cur |-> NoDue]

-----------------------------------------------------------------------------
(* runtime/cron.py                                                         *)

\* Mutant: get_next from an instant that is a tick returns that tick.
next_tick_after_inclusive(c, t) == ((t + c - 1) \div c) * c
next_tick_after(c, t) == ((t \div c) + 1) * c
this_tick_at(c, t) == (t \div c) * c

-----------------------------------------------------------------------------
Init == /\ clock = 1
        /\ sched = [p \in Pipelines |-> NoRow]
        /\ changes = [p \in Pipelines |-> << >>]
        /\ op = [u \in Users |-> NoOp]
        /\ queued = {}
        /\ pass = [s \in Schedulers |-> Idle]
        /\ crashes = 0
        /\ fired = {} /\ refired = {} /\ skipped = {}
        /\ afterPause = [p \in Pipelines |-> 0]

-----------------------------------------------------------------------------
(* The mutators.  now = _utcnow() comes before the transaction.            *)

Begin(u, k, p, c) ==
    /\ op[u] = NoOp
    /\ Len(changes[p]) < MaxChanges
    /\ op' = [op EXCEPT ![u] = [kind |-> k, p |-> p, at |-> clock, absent |-> ~Exists(p),
                                cron |-> IF k \in Upserts THEN c ELSE 0]]
    /\ UNCHANGED <<clock, sched, changes, queued, pass, crashes, history>>

\* Mutant: the after snapshot is taken before the pause is applied.
Commit_early_snapshot(u, row) ==
    LET o == op[u]
    IN  /\ sched' = [sched EXCEPT ![o.p] = row]
        /\ changes' = [changes EXCEPT ![o.p] =
                          Append(@, [at |-> o.at, before |-> sched[o.p],
                                     after |-> [row EXCEPT !.paused = sched[o.p].paused]])]
        /\ op' = [op EXCEPT ![u] = NoOp]
        /\ UNCHANGED <<clock, queued, pass, crashes, fired, refired, skipped>>

\* The one transaction of a mutator: the row and its audit row, both written
\* under the row lock.
Commit(u, row) ==
    LET o == op[u]
    IN  /\ sched' = [sched EXCEPT ![o.p] = row]
        /\ changes' = [changes EXCEPT ![o.p] =
                          Append(@, [at |-> o.at, before |-> sched[o.p], after |-> row])]
        /\ op' = [op EXCEPT ![u] = NoOp]
        /\ UNCHANGED <<clock, queued, pass, crashes, fired, refired, skipped>>

pause(u) ==
    /\ op[u].kind = "pause"
    /\ Exists(op[u].p)
    /\ Commit(u, [sched[op[u].p] EXCEPT !.paused = TRUE])
    /\ afterPause' = [afterPause EXCEPT ![op[u].p] = 0]

resume(u) ==
    /\ op[u].kind = "resume"
    /\ Exists(op[u].p)
    /\ Commit(u, [sched[op[u].p] EXCEPT !.paused = FALSE])
    /\ UNCHANGED afterPause

\* set_cron and seed create the row or replace its cron, keep a live pause and
\* take the first tick after the instant the request began.
Upsert(u, k) ==
    /\ op[u].kind = k
    /\ Commit(u, [cron |-> op[u].cron, paused |-> sched[op[u].p].paused,
                  next |-> next_tick_after(op[u].cron, op[u].at)])
    /\ UNCHANGED afterPause
set_cron(u) == Upsert(u, "set_cron")
seed(u) == Upsert(u, "seed")

\* ScheduleNotFound; or the INSERT of a row that was absent when the request
\* looked, and that another request has created meanwhile.
Refused(u) ==
    /\ op[u] # NoOp
    /\ \/ op[u].kind \in {"pause", "resume"} /\ ~Exists(op[u].p)
       \/ op[u].kind \in Upserts /\ op[u].absent /\ Exists(op[u].p)
    /\ op' = [op EXCEPT ![u] = NoOp]
    /\ UNCHANGED <<clock, sched, changes, queued, pass, crashes, history>>

-----------------------------------------------------------------------------
(* run_due_once                                                            *)

StartPass(s) ==
    /\ pass[s].pc = "idle"
    /\ pass' = [pass EXCEPT ![s].pc = "list", ![s].now = clock]
    /\ UNCHANGED <<clock, sched, changes, op, queued, crashes, history>>

\* Mutant: the query ignores paused.
list_due_paused_too(now) ==
    {[p |-> p, cron |-> sched[p].cron, next |-> sched[p].next] :
        p \in {q \in Pipelines : Exists(q) /\ sched[q].next <= now}}
list_due(now) ==
    {[p |-> p, cron |-> sched[p].cron, next |-> sched[p].next] :
        p \in {q \in Pipelines : Exists(q) /\ ~sched[q].paused /\ sched[q].next <= now}}

ListDue(s) ==
    /\ pass[s].pc = "list"
    /\ pass' = [pass EXCEPT ![s].pc = "rows", ![s].due = list_due(pass[s].now)]
    /\ UNCHANGED <<clock, sched, changes, op, queued, crashes, history>>

\* ORDER BY next_fires_at
Foremost(s) == {d \in pass[s].due : \A e \in pass[s].due : d.next <= e.next}

\* enqueue_scheduled on the row in hand, then set_last_fired.
Handled(s, d) == pass' = [pass EXCEPT ![s].pc = "read", ![s].due = @ \ {d}, ![s].cur = d]

\* resolve_label raises: this row is left as it is, still due.
\* Mutant: the handler advances the row instead.
LabelFails_advances(s) ==
    /\ pass[s].pc = "rows"
    /\ \E d \in Foremost(s) : d.p \in FlakyLabels /\ Handled(s, d)
    /\ UNCHANGED <<clock, sched, changes, op, queued, crashes, history>>
LabelFails(s) ==
    /\ pass[s].pc = "rows"
    /\ \E d \in Foremost(s) : /\ d.p \in FlakyLabels
                              /\ pass' = [pass EXCEPT ![s].due = @ \ {d}]
    /\ UNCHANGED <<clock, sched, changes, op, queued, crashes, history>>

\* enqueue_scheduled inserts a job: schedule.fired.
Fire(s) ==
    /\ pass[s].pc = "rows"
    /\ \E d \in Foremost(s) :
          LET job == <<d.p, this_tick_at(d.cron, pass[s].now)>>
          IN  /\ d.p \notin queued
              /\ queued' = queued \cup {d.p}
              /\ fired' = fired \cup {job}
              /\ refired' = IF job \in fired THEN refired \cup {job} ELSE refired
              /\ afterPause' = [afterPause EXCEPT ![d.p] =
                                  IF sched[d.p].paused /\ @ < 2 THEN @ + 1 ELSE @]
              /\ Handled(s, d)
    /\ UNCHANGED <<clock, sched, changes, op, crashes, skipped>>

\* QueuedJobAlreadyExists: schedule.skipped.
Skip(s) ==
    /\ pass[s].pc = "rows"
    /\ \E d \in Foremost(s) :
          /\ d.p \in queued
          /\ skipped' = skipped \cup {<<d.p, this_tick_at(d.cron, pass[s].now)>>}
          /\ Handled(s, d)
    /\ UNCHANGED <<clock, sched, changes, op, queued, crashes, fired, refired, afterPause>>

\* set_last_fired: session.get reads the row without a lock (no step deletes
\* one), and the UPDATE writes the tick computed from what was read.
ReadRow(s) ==
    /\ pass[s].pc = "read"
    /\ LET p == pass[s].cur.p
       IN  pass' = [pass EXCEPT ![s].pc = "write",
                                ![s].cur = [p |-> p, cron |-> sched[p].cron,
                                            next |-> sched[p].next]]
    /\ UNCHANGED <<clock, sched, changes, op, queued, crashes, history>>

WriteRow(s) ==
    /\ pass[s].pc = "write"
    /\ LET d == pass[s].cur
       IN  sched' = [sched EXCEPT ![d.p].next = next_tick_after(d.cron, d.next)]
    /\ pass' = [pass EXCEPT ![s].pc = "rows", ![s].cur = NoDue]
    /\ UNCHANGED <<clock, changes, op, queued, crashes, history>>

EndPass(s) ==
    /\ pass[s].pc = "rows"
    /\ pass[s].due = {}
    /\ pass' = [pass EXCEPT ![s] = Idle]
    /\ UNCHANGED <<clock, sched, changes, op, queued, crashes, history>>

\* The pass raises and scheduler_loop swallows it, or the process dies and
\* starts again: the rest of the pass is lost.
PassFails(s) ==
    /\ pass[s].pc # "idle"
    /\ crashes < MaxCrash
    /\ crashes' = crashes + 1
    /\ pass' = [pass EXCEPT ![s] = Idle]
    /\ UNCHANGED <<clock, sched, changes, op, queued, history>>

-----------------------------------------------------------------------------
\* A worker claims the queued job of p.
Claim(p) ==
    /\ p \in queued
    /\ queued' = queued \ {p}
    /\ UNCHANGED <<clock, sched, changes, op, pass, crashes, history>>

IsDue(p) == Exists(p) /\ ~sched[p].paused /\ sched[p].next <= clock

\* When Timely, no row stays due for a minute and no request takes one.
Tick ==
    /\ clock < MaxTime
    /\ Timely => /\ \A p \in Pipelines : ~IsDue(p)
                 /\ \A u \in Users : op[u] = NoOp
                 /\ \A s \in Schedulers : pass[s].pc = "idle"
    /\ clock' = clock + 1
    /\ UNCHANGED <<sched, changes, op, queued, pass, crashes, history>>

PassStep(s) == \/ StartPass(s) \/ ListDue(s) \/ Fire(s) \/ Skip(s)
               \/ ReadRow(s) \/ WriteRow(s) \/ EndPass(s)
UserStep(u) == pause(u) \/ resume(u) \/ set_cron(u) \/ seed(u) \/ Refused(u)

Next ==
    \/ \E u \in Users, k \in Ops, p \in Pipelines, c \in Crons : Begin(u, k, p, c)
    \/ \E u \in Users : UserStep(u)
    \/ \E s \in Schedulers : PassStep(s) \/ LabelFails(s) \/ PassFails(s)
    \/ \E p \in Pipelines : Claim(p)
    \/ Tick

Spec == Init /\ [][Next]_vars

\* The loop polls until shutdown and a request runs to its end.
FairSpec == /\ Spec
            /\ \A s \in Schedulers : WF_vars(PassStep(s))
            /\ \A u \in Users : WF_vars(UserStep(u))

-----------------------------------------------------------------------------
(* Properties.                                                             *)

TypeOK ==
    /\ clock \in Nat /\ crashes \in Nat
    /\ sched \in [Pipelines -> Row \cup {NoRow}]
    /\ changes \in [Pipelines -> Seq(Change)]
    /\ op \in [Users -> Op \cup {NoOp}]
    /\ queued \subseteq Pipelines
    /\ pass \in [Schedulers -> Pass]
    /\ fired \in SUBSET (Pipelines \X Nat)
    /\ refired \subseteq fired
    /\ skipped \in SUBSET (Pipelines \X Nat)
    /\ afterPause \in [Pipelines -> 0..2]

\* What a user decides about a schedule; the scheduler moves next on its own
\* without an audit row (set_last_fired).
Decided(row) == <<row.cron, row.paused>>

\* The audit trail, read in the order of its ids, is a chain that starts from
\* no row and ends in the live one, although mutators of one row interleave
\* with each other and with the scheduler's unlocked write.
AuditReplays ==
    \A p \in Pipelines :
        LET h == changes[p]
        IN  /\ h = << >> => sched[p] = NoRow
            /\ h # << >> => /\ Decided(h[1].before) = Decided(NoRow)
                            /\ Decided(h[Len(h)].after) = Decided(sched[p])
            /\ \A i \in 1..Len(h) - 1 : Decided(h[i].after) = Decided(h[i + 1].before)

\* A schedule paused while a pass is in flight may still fire in that pass,
\* and never again while it stays paused.
OneFireAfterPause == \A p \in Pipelines : afterPause[p] <= 1

\* No window is fired twice ("a healthy schedule fires exactly once per window").
OncePerWindow == refired = {}

\* Every window between the first one and the next one to fire was answered by
\* a job of its own or by schedule.skipped: a failed label resolver and a still
\* queued job lose none.
NoWindowMissed ==
    \A p \in Pipelines : Exists(p) =>
        \A t \in changes[p][1].after.next .. sched[p].next - 1 :
            t % sched[p].cron = 0 => <<p, t>> \in fired \cup skipped

\* Each window of a healthy schedule is answered, and fired once: OncePerWindow
\* and NoWindowMissed.
EveryWindowOnce == OncePerWindow /\ NoWindowMissed

\* A due row does not stay due: each pass moves it one window on, whatever the
\* mutators and lost passes do in between.
CatchesUp == \A p \in Pipelines : IsDue(p) ~> ~IsDue(p)
=============================================================================
