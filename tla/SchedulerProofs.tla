--------------------------- MODULE SchedulerProofs --------------------------
(***************************************************************************)
(* Proofs about the schedules table: the types, the audit trail, pausing   *)
(* with one scheduler, and the windows of a healthy schedule.              *)
(*                                                                         *)
(* AuditReplays is not inductive: the scheduler's unlocked write must only *)
(* ever meet a row that exists, or it would turn "no row" into something   *)
(* the trail does not explain.  PassOK carries this through a pass, from   *)
(* list_due to set_last_fired.                                             *)
(***************************************************************************)
EXTENDS Scheduler, SequenceTheorems, TLAPS

\* A request that sets a cron expression has one.
OpOK == \A u \in Users : op[u].kind \in Upserts => op[u].cron \in Crons

\* Every row a pass still has to handle, or has in hand, exists.
PassOK ==
    \A s \in Schedulers :
        /\ \A d \in pass[s].due : Exists(d.p)
        /\ pass[s].pc \in {"read", "write"} => pass[s].cur \in Due /\ Exists(pass[s].cur.p)

IInv == TypeOK /\ OpOK /\ PassOK /\ AuditReplays

-----------------------------------------------------------------------------
(* Facts about the operators.                                              *)

\* A tick of a cron expression (runtime/cron.py) is a natural number.
LEMMA TickNat ==
    ASSUME NEW c \in Crons, NEW t \in Nat
    PROVE  next_tick_after(c, t) \in Nat /\ this_tick_at(c, t) \in Nat
<1>1. c \in Nat /\ c > 0
  BY CronsAssumption
<1>2. t \div c \in Nat
  BY <1>1
<1>3. \A a, b \in Nat : a * b \in Nat
  OBVIOUS
<1> QED
  BY <1>1, <1>2, <1>3 DEF next_tick_after, this_tick_at

\* A row that exists is a Row, and no Row is NoRow.
LEMMA RowExists ==
    ASSUME TypeOK, NEW p \in Pipelines
    PROVE  /\ Exists(p) => sched[p] \in Row
           /\ sched[p] \in Row => Exists(p) /\ sched[p] # NoRow
           /\ ~Exists(p) => sched[p] = NoRow
BY CronsAssumption DEF TypeOK, Exists, Row, NoRow

\* A request under way is an Op.
LEMMA OpUnderWay ==
    ASSUME TypeOK, NEW u \in Users, op[u].kind \in {"pause", "resume", "set_cron", "seed"}
    PROVE  op[u] \in Op /\ op[u].p \in Pipelines
BY DEF TypeOK, NoOp, Op

-----------------------------------------------------------------------------
(* The steps.                                                              *)

\* The initial state satisfies the invariant.
LEMMA InitIInv == Init => IInv
<1> SUFFICES ASSUME Init PROVE IInv
  OBVIOUS
<1>1. TypeOK
  BY DEF Init, TypeOK, NoOp, Pass, Idle, NoDue
<1>2. OpOK
  BY DEF Init, OpOK, NoOp, Upserts
<1>3. PassOK
  BY DEF Init, PassOK, Idle
<1>4. AuditReplays
  BY DEF Init, AuditReplays
<1> QED
  BY <1>1, <1>2, <1>3, <1>4 DEF IInv

\* A mutator's transaction, which writes the row and its audit row together
\* (core/state/schedules.py), preserves the invariant.
LEMMA CommitIInv ==
    ASSUME IInv, NEW u \in Users, op[u] \in Op, NEW row \in Row, Commit(u, row),
           afterPause' \in [Pipelines -> 0..2]
    PROVE  IInv'
<1> DEFINE q == op[u].p
           entry == [at |-> op[u].at, before |-> sched[q], after |-> row]
<1>1. /\ q \in Pipelines
      /\ entry \in Change
      /\ changes[q] \in Seq(Change)
  BY DEF IInv, TypeOK, Op, Change
<1>2. /\ sched' = [sched EXCEPT ![q] = row]
      /\ changes' = [changes EXCEPT ![q] = Append(changes[q], entry)]
      /\ op' = [op EXCEPT ![u] = NoOp]
      /\ UNCHANGED <<clock, queued, pass, crashes, fired, refired, skipped>>
  BY DEF Commit, IInv, TypeOK
<1> HIDE DEF entry
<1>3. /\ Append(changes[q], entry) \in Seq(Change)
      /\ Append(changes[q], entry) # << >>
      /\ Len(Append(changes[q], entry)) = Len(changes[q]) + 1
      /\ \A i \in 1..Len(changes[q]) : Append(changes[q], entry)[i] = changes[q][i]
      /\ Append(changes[q], entry)[Len(changes[q]) + 1] = entry
  BY <1>1, AppendProperties
<1>4. TypeOK'
  BY <1>1, <1>2, <1>3 DEF IInv, TypeOK
<1>5. OpOK'
  BY <1>2 DEF IInv, TypeOK, OpOK, NoOp, Upserts
<1>6. PassOK'
  <2>1. \A p \in Pipelines : Exists(p) => Exists(p)'
    BY <1>1, <1>2, CronsAssumption DEF IInv, TypeOK, Exists, Row
  <2> QED
    BY <2>1, <1>2 DEF IInv, TypeOK, PassOK, Pass, Due
<1>7. AuditReplays'
  <2> SUFFICES ASSUME NEW p \in Pipelines
               PROVE  LET h == changes'[p]
                      IN  /\ h = << >> => sched'[p] = NoRow
                          /\ h # << >> => /\ Decided(h[1].before) = Decided(NoRow)
                                          /\ Decided(h[Len(h)].after) = Decided(sched'[p])
                          /\ \A i \in 1..Len(h) - 1 :
                                Decided(h[i].after) = Decided(h[i + 1].before)
    BY DEF AuditReplays
  <2>1. CASE p # q
    BY <2>1, <1>1, <1>2 DEF IInv, TypeOK, AuditReplays
  <2>2. CASE p = q
    <3> DEFINE h == changes[q]
               k == Append(h, entry)
    <3>1. changes'[p] = k /\ sched'[p] = row
      BY <2>2, <1>1, <1>2 DEF IInv, TypeOK
    <3>2. /\ h = << >> => sched[q] = NoRow
          /\ h # << >> => /\ Decided(h[1].before) = Decided(NoRow)
                          /\ Decided(h[Len(h)].after) = Decided(sched[q])
          /\ \A i \in 1..Len(h) - 1 : Decided(h[i].after) = Decided(h[i + 1].before)
      BY <1>1 DEF IInv, AuditReplays
    <3>3. Len(h) \in Nat /\ (h # << >> => Len(h) > 0) /\ (h = << >> => Len(h) = 0)
      BY <1>1, EmptySeq, LenProperties
    <3>4. entry.before = sched[q] /\ entry.after = row
      BY DEF entry
    <3> HIDE DEF h, k
    <3>5. /\ k # << >> /\ Len(k) = Len(h) + 1
          /\ \A i \in 1..Len(h) : k[i] = h[i]
          /\ k[Len(h) + 1] = entry
      BY <1>3 DEF h, k
    <3>6. Decided(k[1].before) = Decided(NoRow)
      <4>1. CASE h = << >>
        BY <4>1, <3>2, <3>3, <3>4, <3>5
      <4>2. CASE h # << >>
        BY <4>2, <3>2, <3>3, <3>5
      <4> QED
        BY <4>1, <4>2
    <3>7. Decided(k[Len(k)].after) = Decided(row)
      BY <3>4, <3>5
    <3>8. ASSUME NEW i \in 1..Len(k) - 1
          PROVE  Decided(k[i].after) = Decided(k[i + 1].before)
      <4>1. i \in 1..Len(h)
        BY <3>3, <3>5
      <4>2. CASE i = Len(h)
        <5>1. k[i] = h[Len(h)] /\ k[i + 1] = entry
          BY <4>1, <4>2, <3>5
        <5>2. h # << >>
          BY <4>1, <3>3
        <5> QED
          BY <5>1, <5>2, <3>2, <3>4
      <4>3. CASE i # Len(h)
        <5>1. i \in 1..Len(h) - 1 /\ i + 1 \in 1..Len(h)
          BY <4>1, <4>3, <3>3
        <5> QED
          BY <5>1, <4>1, <3>2, <3>5
      <4> QED
        BY <4>2, <4>3
    <3> QED
      BY <3>1, <3>5, <3>6, <3>7, <3>8
  <2> QED
    BY <2>1, <2>2
<1> QED
  BY <1>4, <1>5, <1>6, <1>7 DEF IInv

\* The mutators and the request that is refused.
LEMMA UserIInv ==
    ASSUME IInv, NEW u \in Users, UserStep(u)
    PROVE  IInv'
<1> USE DEF IInv
<1>1. CASE pause(u)
  <2>1. op[u] \in Op /\ op[u].p \in Pipelines
    BY <1>1, OpUnderWay DEF pause
  <2>2. [sched[op[u].p] EXCEPT !.paused = TRUE] \in Row
    BY <1>1, <2>1, RowExists DEF pause, Row
  <2>3. afterPause' \in [Pipelines -> 0..2]
    BY <1>1, <2>1 DEF pause, TypeOK
  <2> QED
    BY <1>1, <2>1, <2>2, <2>3, CommitIInv DEF pause
<1>2. CASE resume(u)
  <2>1. op[u] \in Op /\ op[u].p \in Pipelines
    BY <1>2, OpUnderWay DEF resume
  <2>2. [sched[op[u].p] EXCEPT !.paused = FALSE] \in Row
    BY <1>2, <2>1, RowExists DEF resume, Row
  <2>3. afterPause' \in [Pipelines -> 0..2]
    BY <1>2 DEF resume, TypeOK
  <2> QED
    BY <1>2, <2>1, <2>2, <2>3, CommitIInv DEF resume
<1>3. ASSUME NEW k \in Upserts, Upsert(u, k) PROVE IInv'
  <2> DEFINE row == [cron |-> op[u].cron, paused |-> sched[op[u].p].paused,
                     next |-> next_tick_after(op[u].cron, op[u].at)]
  <2>1. op[u] \in Op /\ op[u].p \in Pipelines
    BY <1>3, OpUnderWay DEF Upsert, Upserts
  <2>2. op[u].cron \in Crons /\ op[u].at \in Nat
    BY <1>3, <2>1 DEF Upsert, OpOK, Op
  <2>3. next_tick_after(op[u].cron, op[u].at) \in Nat
    BY <2>2, TickNat
  <2>4. sched[op[u].p].paused \in BOOLEAN
    <3>1. sched[op[u].p] \in Row \/ sched[op[u].p] = NoRow
      BY <2>1 DEF TypeOK
    <3>2. NoRow.paused = FALSE /\ \A r \in Row : r.paused \in BOOLEAN
      BY DEF Row, NoRow
    <3> QED
      BY <3>1, <3>2, Zenon
  <2>5. row \in Row
    BY <2>2, <2>3, <2>4 DEF Row
  <2>6. afterPause' \in [Pipelines -> 0..2] /\ Commit(u, row)
    BY <1>3 DEF Upsert, TypeOK
  <2> QED
    BY <2>1, <2>5, <2>6, CommitIInv
<1>4. CASE Refused(u)
  <2>1. TypeOK'
    BY <1>4 DEF Refused, TypeOK, history
  <2>2. OpOK'
    BY <1>4 DEF Refused, TypeOK, OpOK, NoOp, Upserts
  <2>3. PassOK' /\ AuditReplays'
    BY <1>4 DEF Refused, PassOK, AuditReplays, Exists
  <2> QED
    BY <2>1, <2>2, <2>3
<1> QED
  BY <1>1, <1>2, <1>3, <1>4 DEF UserStep, set_cron, seed, Upserts

\* The steps of a scheduler's pass (run_due_once in runtime/scheduler.py).
LEMMA PassIInv ==
    ASSUME IInv, NEW s \in Schedulers, PassStep(s) \/ LabelFails(s) \/ PassFails(s)
    PROVE  IInv'
<1> USE DEF IInv
<1>p. pass[s] \in Pass
  BY DEF TypeOK
<1>0. ASSUME UNCHANGED <<sched, changes>> PROVE AuditReplays'
  BY <1>0 DEF AuditReplays
<1>1. CASE StartPass(s)
  <2>1. TypeOK'
    BY <1>1 DEF StartPass, TypeOK, Pass, history
  <2>2. OpOK' /\ PassOK'
    BY <1>1, <1>p DEF StartPass, TypeOK, OpOK, PassOK, Exists, Pass
  <2> QED
    BY <1>0, <1>1, <2>1, <2>2 DEF StartPass
<1>2. CASE ListDue(s)
  <2>1. list_due(pass[s].now) \subseteq Due
    <3> SUFFICES ASSUME NEW p \in Pipelines, Exists(p)
                 PROVE  [p |-> p, cron |-> sched[p].cron, next |-> sched[p].next] \in Due
      BY DEF list_due
    <3> QED
      BY RowExists DEF Due, Row
  <2>2. \A d \in list_due(pass[s].now) : Exists(d.p)
    BY DEF list_due
  <2>3. pass' = [pass EXCEPT ![s] = [pass[s] EXCEPT !.pc = "rows",
                                                    !.due = list_due(pass[s].now)]]
    BY <1>2, <1>p DEF ListDue, TypeOK
  <2>4. TypeOK'
    <3>1. [pass[s] EXCEPT !.pc = "rows", !.due = list_due(pass[s].now)] \in Pass
      BY <1>p, <2>1 DEF Pass
    <3>2. pass' \in [Schedulers -> Pass]
      BY <2>3, <3>1 DEF TypeOK
    <3> QED
      BY <1>2, <3>2 DEF ListDue, TypeOK, history
  <2>5. OpOK'
    BY <1>2 DEF ListDue, OpOK
  <2>6. PassOK'
    BY <1>2, <1>p, <2>2, <2>3 DEF ListDue, TypeOK, PassOK, Exists, Pass
  <2> QED
    BY <1>0, <1>2, <2>4, <2>5, <2>6 DEF ListDue
<1>3. ASSUME NEW d \in Foremost(s), Handled(s, d),
             UNCHANGED <<clock, sched, changes, op, crashes>>,
             queued' \subseteq Pipelines,
             fired' \in SUBSET (Pipelines \X Nat), refired' \subseteq fired',
             skipped' \in SUBSET (Pipelines \X Nat),
             afterPause' \in [Pipelines -> 0..2]
      PROVE  IInv'
  <2>1. d \in pass[s].due /\ d \in Due /\ Exists(d.p)
    BY <1>p DEF Foremost, Pass, PassOK
  <2>2. TypeOK'
    BY <1>3, <1>p, <2>1 DEF Handled, TypeOK, Pass
  <2>3. OpOK'
    BY <1>3 DEF OpOK
  <2>4. PassOK'
    BY <1>3, <1>p, <2>1 DEF Handled, TypeOK, PassOK, Exists, Pass
  <2> QED
    BY <1>0, <1>3, <2>2, <2>3, <2>4
<1>4. CASE Fire(s)
  <2>1. PICK d \in Foremost(s) :
          LET job == <<d.p, this_tick_at(d.cron, pass[s].now)>>
          IN  /\ queued' = queued \cup {d.p}
              /\ fired' = fired \cup {job}
              /\ refired' = IF job \in fired THEN refired \cup {job} ELSE refired
              /\ afterPause' = [afterPause EXCEPT ![d.p] =
                                  IF sched[d.p].paused /\ @ < 2 THEN @ + 1 ELSE @]
              /\ Handled(s, d)
    BY <1>4 DEF Fire
  <2>2. d \in Due
    BY <1>p DEF Foremost, Pass
  <2>3. d.p \in Pipelines /\ this_tick_at(d.cron, pass[s].now) \in Nat
    BY <1>p, <2>2, TickNat DEF Due, Pass
  <2>4. UNCHANGED <<clock, sched, changes, op, crashes, skipped>>
    BY <1>4 DEF Fire
  <2>5. queued' \subseteq Pipelines
    BY <2>1, <2>3 DEF TypeOK
  <2>6. fired' \in SUBSET (Pipelines \X Nat) /\ refired' \subseteq fired'
    BY <2>1, <2>3 DEF TypeOK
  <2>7. afterPause' \in [Pipelines -> 0..2]
    BY <2>1, <2>3 DEF TypeOK
  <2>8. skipped' \in SUBSET (Pipelines \X Nat)
    BY <2>4 DEF TypeOK
  <2> QED
    BY <1>3, <2>1, <2>4, <2>5, <2>6, <2>7, <2>8
<1>5. CASE Skip(s)
  <2>1. PICK d \in Foremost(s) :
          /\ skipped' = skipped \cup {<<d.p, this_tick_at(d.cron, pass[s].now)>>}
          /\ Handled(s, d)
    BY <1>5 DEF Skip
  <2>2. d \in Due
    BY <1>p DEF Foremost, Pass
  <2>3. d.p \in Pipelines /\ this_tick_at(d.cron, pass[s].now) \in Nat
    BY <1>p, <2>2, TickNat DEF Due, Pass
  <2>4. UNCHANGED <<clock, sched, changes, op, queued, crashes, fired, refired, afterPause>>
    BY <1>5 DEF Skip
  <2>5. skipped' \in SUBSET (Pipelines \X Nat)
    BY <2>1, <2>3 DEF TypeOK
  <2>6. /\ queued' \subseteq Pipelines
        /\ fired' \in SUBSET (Pipelines \X Nat) /\ refired' \subseteq fired'
        /\ afterPause' \in [Pipelines -> 0..2]
    BY <2>4 DEF TypeOK
  <2> QED
    BY <1>3, <2>1, <2>4, <2>5, <2>6
<1>6. CASE ReadRow(s)
  <2> DEFINE q == pass[s].cur.p
             cur == [p |-> q, cron |-> sched[q].cron, next |-> sched[q].next]
  <2>1. q \in Pipelines /\ Exists(q)
    BY <1>6 DEF ReadRow, PassOK, Due
  <2>2. cur \in Due
    BY <2>1, RowExists DEF Due, Row
  <2>3. cur.p = q
    OBVIOUS
  <2>4. pass' = [pass EXCEPT ![s] = [pass[s] EXCEPT !.pc = "write", !.cur = cur]]
    BY <1>6, <1>p DEF ReadRow, TypeOK
  <2> HIDE DEF cur
  <2>5. TypeOK'
    <3>1. [pass[s] EXCEPT !.pc = "write", !.cur = cur] \in Pass
      BY <1>p, <2>2 DEF Pass
    <3>2. pass' \in [Schedulers -> Pass]
      BY <2>4, <3>1 DEF TypeOK
    <3> QED
      BY <1>6, <3>2 DEF ReadRow, TypeOK, history
  <2>6. OpOK'
    BY <1>6 DEF ReadRow, OpOK
  <2>7. PassOK'
    BY <1>6, <1>p, <2>1, <2>2, <2>3, <2>4 DEF ReadRow, TypeOK, PassOK, Exists, Pass
  <2> QED
    BY <1>0, <1>6, <2>5, <2>6, <2>7 DEF ReadRow
<1>7. CASE WriteRow(s)
  <2> DEFINE d == pass[s].cur
             n == next_tick_after(d.cron, d.next)
  <2>1. d \in Due /\ Exists(d.p)
    BY <1>7 DEF WriteRow, PassOK
  <2>2. d.p \in Pipelines /\ n \in Nat
    BY <2>1, TickNat DEF Due
  <2>3. /\ sched' = [sched EXCEPT ![d.p] = [sched[d.p] EXCEPT !.next = n]]
        /\ pass' = [pass EXCEPT ![s] = [pass[s] EXCEPT !.pc = "rows", !.cur = NoDue]]
        /\ UNCHANGED <<clock, changes, op, queued, crashes, history>>
    BY <1>7, <1>p, <2>2 DEF WriteRow, TypeOK
  <2>4. sched[d.p] \in Row
    BY <2>1, <2>2, RowExists
  <2> HIDE DEF n, d
  <2>5. /\ [sched[d.p] EXCEPT !.next = n] \in Row
        /\ Decided([sched[d.p] EXCEPT !.next = n]) = Decided(sched[d.p])
    BY <2>2, <2>4 DEF Row, Decided
  <2>6. TypeOK'
    BY <1>p, <2>2, <2>3, <2>5 DEF TypeOK, Pass, history
  <2>7. OpOK'
    BY <2>3 DEF OpOK
  <2>8. \A p \in Pipelines : /\ Exists(p)' = Exists(p)
                             /\ Decided(sched'[p]) = Decided(sched[p])
                             /\ sched[p] = NoRow => sched'[p] = NoRow
    BY <2>2, <2>3, <2>4, <2>5, RowExists DEF TypeOK, Exists, Row, Decided
  <2>9. PassOK'
    BY <1>p, <2>3, <2>8 DEF TypeOK, PassOK, Pass, Due
  <2>10. AuditReplays'
    BY <2>3, <2>8 DEF AuditReplays
  <2> QED
    BY <2>6, <2>7, <2>9, <2>10
<1>8. ASSUME pass' = [pass EXCEPT ![s] = Idle], crashes' \in Nat,
             UNCHANGED <<clock, sched, changes, op, queued, history>>
      PROVE  IInv'
  <2>1. TypeOK'
    BY <1>8 DEF TypeOK, Idle, Pass, history
  <2>2. OpOK' /\ PassOK'
    BY <1>8 DEF TypeOK, OpOK, PassOK, Exists, Idle
  <2> QED
    BY <1>0, <1>8, <2>1, <2>2
<1>9. CASE EndPass(s)
  BY <1>8, <1>9 DEF EndPass, TypeOK
<1>10. CASE PassFails(s)
  BY <1>8, <1>10 DEF PassFails, TypeOK
<1>11. CASE LabelFails(s)
  <2>1. PICK d \in Foremost(s) : pass' = [pass EXCEPT ![s].due = @ \ {d}]
    BY <1>11 DEF LabelFails
  <2>2. TypeOK'
    BY <1>11, <1>p, <2>1 DEF LabelFails, TypeOK, Pass, history
  <2>3. OpOK' /\ PassOK'
    BY <1>11, <1>p, <2>1 DEF LabelFails, TypeOK, OpOK, PassOK, Exists, Pass
  <2> QED
    BY <1>0, <1>11, <2>2, <2>3 DEF LabelFails
<1> QED
  BY <1>1, <1>2, <1>4, <1>5, <1>6, <1>7, <1>9, <1>10, <1>11 DEF PassStep

\* Every step preserves the invariant.
LEMMA NextIInv == IInv /\ [Next]_vars => IInv'
<1> SUFFICES ASSUME IInv, [Next]_vars PROVE IInv'
  OBVIOUS
<1>1. ASSUME NEW u \in Users, NEW k \in Ops, NEW p \in Pipelines, NEW c \in Crons,
             Begin(u, k, p, c)
      PROVE  IInv'
  <2> DEFINE o == [kind |-> k, p |-> p, at |-> clock, absent |-> ~Exists(p),
                   cron |-> IF k \in Upserts THEN c ELSE 0]
  <2>1. o \in Op /\ (o.kind \in Upserts => o.cron \in Crons)
    BY DEF IInv, TypeOK, Op
  <2>2. /\ op' = [op EXCEPT ![u] = o]
        /\ UNCHANGED <<clock, sched, changes, queued, pass, crashes, history>>
    BY <1>1 DEF Begin
  <2> HIDE DEF o
  <2>3. TypeOK'
    BY <2>1, <2>2 DEF IInv, TypeOK, history
  <2>4. OpOK'
    BY <2>1, <2>2 DEF IInv, TypeOK, OpOK
  <2>5. PassOK' /\ AuditReplays'
    BY <2>2 DEF IInv, PassOK, AuditReplays, Exists
  <2> QED
    BY <2>3, <2>4, <2>5 DEF IInv
<1>2. ASSUME NEW p \in Pipelines, Claim(p) PROVE IInv'
  <2>1. TypeOK'
    BY <1>2 DEF IInv, TypeOK, Claim, history
  <2> QED
    BY <1>2, <2>1 DEF IInv, Claim, OpOK, PassOK, AuditReplays, Exists
<1>3. CASE Tick
  <2>1. TypeOK'
    BY <1>3 DEF IInv, TypeOK, Tick, history
  <2> QED
    BY <1>3, <2>1 DEF IInv, Tick, OpOK, PassOK, AuditReplays, Exists
<1>4. CASE UNCHANGED vars
  BY <1>4 DEF IInv, TypeOK, OpOK, PassOK, AuditReplays, Exists, vars
<1> QED
  BY <1>1, <1>2, <1>3, <1>4, UserIInv, PassIInv DEF Next

-----------------------------------------------------------------------------
\* The schedules, their audit rows, the requests under way and the passes keep
\* their types, and every row a pass handles exists.
THEOREM ScheduleTypes == Spec => []TypeOK
<1>1. Spec => []IInv
  BY InitIInv, NextIInv, PTL DEF Spec
<1>2. IInv => TypeOK
  BY DEF IInv
<1> QED
  BY <1>1, <1>2, PTL

\* The audit trail of every schedule replays to its live row: for any number of
\* concurrent mutators and schedulers, lost passes and unlocked set_last_fired.
THEOREM AuditTrail == Spec => []AuditReplays
<1>1. Spec => []IInv
  BY InitIInv, NextIInv, PTL DEF Spec
<1>2. IInv => AuditReplays
  BY DEF IInv
<1> QED
  BY <1>1, <1>2, PTL

-----------------------------------------------------------------------------
(* Pausing.  A row a pass still has in its list was not fired since it was *)
(* paused, and is there once.                                              *)

PauseInv ==
    /\ OneFireAfterPause
    /\ \A s \in Schedulers :
        /\ \A d, e \in pass[s].due : d.p = e.p => d = e
        /\ \A d \in pass[s].due : sched[d.p].paused => afterPause[d.p] = 0

\* A step that fires nothing and lists nothing.
LEMMA PauseKept ==
    ASSUME IInv, PauseInv,
           \A s \in Schedulers : pass'[s].due \subseteq pass[s].due,
           \A p \in Pipelines : \/ afterPause'[p] = 0
                                \/ /\ afterPause'[p] = afterPause[p]
                                   /\ Exists(p) /\ sched'[p].paused => sched[p].paused
    PROVE  PauseInv'
<1>1. \A s \in Schedulers : \A d \in pass[s].due : d.p \in Pipelines /\ Exists(d.p)
  BY DEF IInv, TypeOK, Pass, Due, PassOK
<1>. QED  BY <1>1 DEF PauseInv, OneFireAfterPause

LEMMA NextPauseInv ==
    ASSUME \A s, t \in Schedulers : s = t
    PROVE  IInv /\ PauseInv /\ [Next]_vars => PauseInv'
<1>. SUFFICES ASSUME IInv, PauseInv, [Next]_vars PROVE PauseInv'
  OBVIOUS
<1>. USE DEF IInv
<1>0. /\ afterPause \in [Pipelines -> 0..2]
      /\ \A s \in Schedulers : pass[s] \in Pass
      /\ sched \in [Pipelines -> Row \cup {NoRow}]
  BY DEF TypeOK
<1>1. ASSUME NEW u \in Users, pause(u)
      PROVE  PauseInv'
  <2>1. op[u].p \in Pipelines /\ UNCHANGED pass
    BY <1>1, OpUnderWay DEF pause, Commit
  <2>2. \A p \in Pipelines : \/ afterPause'[p] = 0
                             \/ afterPause'[p] = afterPause[p] /\ sched'[p] = sched[p]
    BY <1>0, <1>1, <2>1 DEF pause, Commit
  <2>. QED  BY <2>1, <2>2, PauseKept
<1>2. ASSUME NEW u \in Users, resume(u) \/ set_cron(u) \/ seed(u)
      PROVE  PauseInv'
  <2>1. op[u].p \in Pipelines /\ UNCHANGED <<pass, afterPause>>
    BY <1>2, OpUnderWay DEF resume, set_cron, seed, Upsert, Commit
  <2>2. ASSUME NEW p \in Pipelines, Exists(p), sched'[p].paused
        PROVE  sched[p].paused
    <3>1. sched[p] \in Row
      BY <2>2, RowExists
    <3>2. CASE p # op[u].p
      BY <1>0, <1>2, <2>1, <2>2, <3>2 DEF resume, set_cron, seed, Upsert, Commit
    <3>3. CASE p = op[u].p /\ resume(u)
      <4>1. sched'[p] = [sched[p] EXCEPT !.paused = FALSE]
        BY <1>0, <2>1, <3>3 DEF resume, Commit
      <4>. QED  BY <2>2, <3>1, <4>1 DEF Row
    <3>4. CASE p = op[u].p /\ ~resume(u)
      <4>1. sched'[p].paused = sched[p].paused
        BY <1>0, <1>2, <2>1, <3>4 DEF set_cron, seed, Upsert, Commit
      <4>. QED  BY <2>2, <4>1
    <3>. QED  BY <3>2, <3>3, <3>4
  <2>. QED  BY <2>1, <2>2, PauseKept
<1>3. ASSUME NEW s \in Schedulers, ListDue(s)
      PROVE  PauseInv'
  <2>1. /\ pass'[s].due = list_due(pass[s].now) /\ UNCHANGED <<sched, afterPause>>
    BY <1>0, <1>3 DEF ListDue, TypeOK, Pass, history
  <2>2. \A d \in list_due(pass[s].now) : /\ ~sched[d.p].paused
                                         /\ d = [p |-> d.p, cron |-> sched[d.p].cron,
                                                 next |-> sched[d.p].next]
    BY DEF list_due
  <2>. QED  BY <2>1, <2>2 DEF PauseInv, OneFireAfterPause
<1>4. ASSUME NEW s \in Schedulers, Fire(s)
      PROVE  PauseInv'
  <2>1. PICK d \in Foremost(s) :
          /\ afterPause' = [afterPause EXCEPT ![d.p] =
                                  IF sched[d.p].paused /\ @ < 2 THEN @ + 1 ELSE @]
          /\ Handled(s, d)
    BY <1>4 DEF Fire
  <2>2. d \in pass[s].due /\ d.p \in Pipelines /\ UNCHANGED sched
    BY <1>0, <1>4 DEF Fire, Foremost, Pass, Due
  <2>3. pass'[s].due = pass[s].due \ {d}
    BY <1>0, <2>1 DEF Handled, TypeOK, Pass
  <2>4. /\ afterPause'[d.p] <= 1
        /\ \A p \in Pipelines : p # d.p => afterPause'[p] = afterPause[p]
    BY <1>0, <2>1, <2>2 DEF PauseInv, OneFireAfterPause
  <2>5. \A e \in pass[s].due : e.p \in Pipelines
    BY <1>0 DEF Pass, Due
  <2>. QED  BY <2>2, <2>3, <2>4, <2>5 DEF PauseInv, OneFireAfterPause
<1>5. ASSUME NEW s \in Schedulers,
             \/ StartPass(s) \/ Skip(s) \/ ReadRow(s) \/ EndPass(s) \/ LabelFails(s) \/ PassFails(s)
      PROVE  PauseInv'
  <2>1. UNCHANGED <<sched, afterPause>>
    BY <1>5 DEF StartPass, Skip, ReadRow, EndPass, LabelFails, PassFails, history
  <2>2. pass'[s].due \subseteq pass[s].due
    <3>1. CASE StartPass(s) \/ ReadRow(s)
      <4>1. CASE StartPass(s)
        BY <1>0, <4>1 DEF StartPass, TypeOK, Pass
      <4>2. ASSUME NEW cur, pass' = [pass EXCEPT ![s].pc = "write", ![s].cur = cur]
            PROVE  pass'[s].due = pass[s].due
        BY <1>0, <4>2 DEF TypeOK, Pass
      <4>. QED  BY <3>1, <4>1, <4>2 DEF ReadRow
    <3>2. CASE EndPass(s) \/ PassFails(s)
      BY <1>0, <3>2 DEF EndPass, PassFails, TypeOK, Idle
    <3>3. ASSUME NEW d, \/ Handled(s, d)
                        \/ pass' = [pass EXCEPT ![s].due = @ \ {d}]
          PROVE  pass'[s].due \subseteq pass[s].due
      BY <1>0, <3>3 DEF Handled, TypeOK, Pass
    <3>. QED  BY <1>5, <3>1, <3>2, <3>3 DEF Skip, LabelFails
  <2>. QED  BY <2>1, <2>2, PauseKept
<1>6. ASSUME NEW s \in Schedulers, WriteRow(s)
      PROVE  PauseInv'
  <2>1. /\ UNCHANGED afterPause /\ pass'[s].due = pass[s].due
        /\ pass[s].cur.p \in Pipelines
    BY <1>0, <1>6 DEF WriteRow, TypeOK, Pass, history, PassOK, Due
  <2>2. \A p \in Pipelines : Exists(p) => sched'[p].paused = sched[p].paused
    BY <1>0, <1>6, <2>1, RowExists DEF WriteRow, Row
  <2>3. \A p \in Pipelines : Exists(p) /\ sched'[p].paused => sched[p].paused
    BY <2>2
  <2>. QED  BY <2>1, <2>3, PauseKept
<1>7. CASE UNCHANGED <<sched, pass, afterPause>>
  BY <1>7, PauseKept
<1>. QED
  BY <1>1, <1>2, <1>3, <1>4, <1>5, <1>6, <1>7
  DEF Next, vars, history, PassStep, UserStep, Begin, Refused, Claim, Tick

\* With one scheduler, as carve serve starts it, a schedule paused while a pass
\* is in flight fires at most once more, for any interleaving of mutators, lost
\* passes and later passes.
THEOREM PauseHolds ==
    ASSUME \A s, t \in Schedulers : s = t
    PROVE  Spec => []OneFireAfterPause
<1>1. Init => PauseInv
  BY DEF Init, PauseInv, OneFireAfterPause, Idle
<1>2. Spec => []IInv
  BY InitIInv, NextIInv, PTL DEF Spec
<1>3. IInv /\ PauseInv /\ [Next]_vars => PauseInv'
  BY NextPauseInv
<1>4. PauseInv => OneFireAfterPause
  BY DEF PauseInv
<1>. QED  BY <1>1, <1>2, <1>3, <1>4, PTL DEF Spec
-----------------------------------------------------------------------------
(* Windows.  With the clock, the passes and the requests in step, a row's  *)
(* next tick is never behind the clock, so the tick a pass computes from   *)
(* the clock is the one the row was due at, and the one it moves on from.  *)

\* Division with remainder, and what it says of the multiples of c.
LEMMA DivMod ==
    ASSUME NEW c \in Nat \ {0}, NEW t \in Nat
    PROVE  /\ t \div c \in Nat /\ t % c \in 0..(c - 1)
           /\ t = (t \div c) * c + (t % c)
OBVIOUS

LEMMA MulMono ==
    ASSUME NEW c \in Nat \ {0}, NEW a \in Nat, NEW b \in Nat, a < b
    PROVE  a * c + c <= b * c
<1>1. PICK k \in Nat : b = a + 1 + k
  <2>. WITNESS b - a - 1 \in Nat
  <2>. QED OBVIOUS
<1>2. b * c = a * c + c + k * c
  BY <1>1
<1>3. k * c \in Nat /\ a * c \in Nat
  OBVIOUS
<1>. QED BY <1>2, <1>3

LEMMA MulMod ==
    ASSUME NEW c \in Nat \ {0}, NEW a \in Nat
    PROVE  a * c \in Nat /\ (a * c) % c = 0
OBVIOUS

\* The ticks of a cron expression.
LEMMA TickFacts ==
    ASSUME NEW c \in Nat \ {0}, NEW t \in Nat
    PROVE  /\ next_tick_after(c, t) \in Nat /\ this_tick_at(c, t) \in Nat
           /\ next_tick_after(c, t) % c = 0 /\ next_tick_after(c, t) > t
           /\ t % c = 0 => this_tick_at(c, t) = t /\ next_tick_after(c, t) = t + c
<1>1. /\ t \div c \in Nat /\ t % c \in 0..(c - 1)
      /\ t = (t \div c) * c + (t % c)
  BY DivMod
<1>0. (t \div c) + 1 \in Nat
  BY <1>1
<1>2. ((t \div c) + 1) * c = (t \div c) * c + c
  <2>1. \A q \in Nat : (q + 1) * c = q * c + c
    OBVIOUS
  <2>. QED  BY <1>1, <2>1
<1>3. (t \div c) * c \in Nat
  BY <1>1, MulMod
<1>4. next_tick_after(c, t) % c = 0
  BY <1>0, MulMod DEF next_tick_after
<1>. QED BY <1>1, <1>2, <1>3, <1>4 DEF next_tick_after, this_tick_at

LEMMA NoTickBetween ==
    ASSUME NEW c \in Nat \ {0}, NEW n \in Nat, NEW t \in Nat, n % c = 0, t % c = 0,
           n <= t, t < n + c
    PROVE  t = n
<1>1. /\ t \div c \in Nat /\ n \div c \in Nat
      /\ t = (t \div c) * c /\ n = (n \div c) * c
  BY DivMod
<1>2. ~(n \div c < t \div c)
  BY <1>1, MulMono
<1>3. ~(t \div c < n \div c)
  BY <1>1, MulMono
<1>. QED BY <1>1, <1>2, <1>3

\* The runtime the sentence "a healthy schedule fires exactly once per window"
\* is about: one scheduler whose passes keep up with the clock and are not cut
\* short, and a schedule that is set once.
Healthy == /\ Timely /\ MaxCrash = 0 /\ MaxChanges = 1
           /\ \A s, t \in Schedulers : s = t
           /\ \A u, v \in Users : u = v

RowsOnTick ==
    \A p \in Pipelines :
        /\ ~sched[p].paused /\ Len(changes[p]) <= 1
        /\ Exists(p) => /\ sched[p].next % sched[p].cron = 0
                        /\ clock <= sched[p].next
                        /\ changes[p] # << >> /\ changes[p][1].after.next \in Nat
                        /\ changes[p][1].after.next <= sched[p].next

RequestsAreFirst ==
    \A u \in Users : op[u] # NoOp => changes[op[u].p] = << >> /\ op[u].at = clock

InHand(s, p) == pass[s].pc \in {"read", "write"} /\ pass[s].cur.p = p

PassInStep ==
    \A s \in Schedulers :
        /\ IF pass[s].pc = "idle" THEN pass[s].due = {} ELSE pass[s].now = clock
        /\ \A d \in pass[s].due : /\ d.cron = sched[d.p].cron /\ d.next = sched[d.p].next
                                  /\ d.next = clock /\ ~InHand(s, d.p)
        /\ pass[s].pc \in {"read", "write"} =>
              /\ sched[pass[s].cur.p].next = clock
              /\ <<pass[s].cur.p, clock>> \in fired \cup skipped
        /\ pass[s].pc = "write" => /\ pass[s].cur.cron = sched[pass[s].cur.p].cron
                                   /\ pass[s].cur.next = clock

FiredBehind ==
    \A p \in Pipelines, t \in Nat : <<p, t>> \in fired =>
        /\ Exists(p) /\ t <= sched[p].next
        /\ t < sched[p].next \/ \E s \in Schedulers : InHand(s, p)

WindowInv == RowsOnTick /\ RequestsAreFirst /\ PassInStep /\ FiredBehind /\ EveryWindowOnce

\* A request under way is about a pipeline that has no row.
LEMMA RequestOnNoRow ==
    ASSUME IInv, WindowInv, NEW u \in Users, op[u] \in Op
    PROVE  op[u].p \in Pipelines /\ changes[op[u].p] = << >> /\ sched[op[u].p] = NoRow
<1>1. op[u] # NoOp
  BY DEF Op, NoOp
<1>. QED  BY <1>1 DEF IInv, AuditReplays, WindowInv, RequestsAreFirst, Op

LEMMA UpsertKeepsWindows ==
    ASSUME Healthy, IInv, WindowInv, NEW u \in Users, NEW k \in Upserts, Upsert(u, k)
    PROVE  WindowInv'
<1>. USE DEF IInv, WindowInv
<1>. DEFINE q == op[u].p
            c == op[u].cron
            n == next_tick_after(c, op[u].at)
            row == [cron |-> c, paused |-> sched[q].paused, next |-> n]
            entry == [at |-> op[u].at, before |-> sched[q], after |-> row]
<1>0. op[u] \in Op
  BY OpUnderWay DEF Upsert, Upserts
<1>1. q \in Pipelines /\ changes[q] = << >> /\ sched[q] = NoRow /\ ~Exists(q)
  BY <1>0, RequestOnNoRow DEF Exists, NoRow
<1>2. c \in Crons /\ c \in Nat \ {0} /\ op[u].at = clock /\ clock \in Nat
  <2>1. op[u].kind \in Upserts /\ op[u] # NoOp
    BY <1>0 DEF Upsert, Op, NoOp
  <2>2. c \in Crons
    BY <2>1 DEF OpOK
  <2>. QED  BY <2>1, <2>2, CronsAssumption DEF RequestsAreFirst, TypeOK
<1>3. n \in Nat /\ n % c = 0 /\ n > clock
  BY <1>2, TickFacts
<1>c. Commit(u, row)
  BY DEF Upsert
<1>. HIDE DEF row, n
<1>4. /\ sched' = [sched EXCEPT ![q] = row]
      /\ changes' = [changes EXCEPT ![q] = Append(changes[q], entry)]
      /\ op' = [op EXCEPT ![u] = NoOp]
      /\ UNCHANGED <<clock, pass, fired, refired, skipped>>
  BY <1>1, <1>c DEF Commit, TypeOK
<1>. HIDE DEF entry
<1>5. row.cron = c /\ row.next = n /\ row.paused = FALSE /\ entry.after = row
  BY <1>1 DEF row, entry, NoRow
<1>. HIDE DEF c
<1>6. /\ sched'[q] = row
      /\ Len(changes'[q]) = 1 /\ changes'[q] # << >> /\ changes'[q][1].after.next = n
      /\ \A p \in Pipelines : p # q => sched'[p] = sched[p] /\ changes'[p] = changes[p]
  <2>1. changes'[q] = << entry >>
    BY <1>1, <1>4 DEF TypeOK
  <2>. QED  BY <1>1, <1>4, <1>5, <2>1 DEF TypeOK
<1>7. RowsOnTick'
  <2>. SUFFICES ASSUME NEW p \in Pipelines
                PROVE  /\ ~sched'[p].paused /\ Len(changes'[p]) <= 1
                       /\ Exists(p)' => /\ sched'[p].next % sched'[p].cron = 0
                                        /\ clock <= sched'[p].next
                                        /\ changes'[p] # << >> /\ changes'[p][1].after.next \in Nat
                                        /\ changes'[p][1].after.next <= sched'[p].next
    BY <1>4 DEF RowsOnTick
  <2>1. CASE p = q
    <3>1. sched'[p] = row /\ Len(changes'[p]) = 1 /\ changes'[p] # << >>
      BY <1>6, <2>1
    <3>2. changes'[p][1].after.next = n
      BY <1>6, <2>1
    <3>3. ~row.paused /\ row.cron = c /\ row.next = n
      BY <1>5
    <3>4. n <= n /\ clock <= n /\ 1 <= 1
      BY <1>2, <1>3
    <3>. QED  BY <1>3, <3>1, <3>2, <3>3, <3>4
  <2>2. CASE p # q
    BY <1>6, <2>2 DEF RowsOnTick, Exists
  <2>. QED  BY <2>1, <2>2
<1>8. RequestsAreFirst'
  BY <1>4 DEF RequestsAreFirst, Healthy, TypeOK
<1>9. \A s \in Schedulers : /\ \A d \in pass[s].due : d.p \in Pipelines /\ d.p # q
                            /\ pass[s].pc \in {"read", "write"} =>
                                  pass[s].cur.p \in Pipelines /\ pass[s].cur.p # q
  <2>1. \A s \in Schedulers : pass[s].due \subseteq Due
    BY DEF TypeOK, Pass
  <2>2. ~Exists(q)
    BY <1>1
  <2>. QED  BY <2>1, <2>2 DEF PassOK, Due
<1>10. PassInStep'
  BY <1>4, <1>6, <1>9 DEF PassInStep, InHand
<1>11. FiredBehind'
  BY <1>1, <1>4, <1>6 DEF FiredBehind, Exists, InHand
<1>12. EveryWindowOnce'
  <2>1. ASSUME NEW p \in Pipelines, Exists(p)',
               NEW t \in changes'[p][1].after.next .. sched'[p].next - 1,
               t % sched'[p].cron = 0
        PROVE  <<p, t>> \in fired \cup skipped
    <3>1. p # q
      BY <1>3, <1>5, <1>6, <2>1
    <3>. QED  BY <1>6, <2>1, <3>1 DEF EveryWindowOnce, NoWindowMissed, Exists
  <2>. QED  BY <1>4, <2>1 DEF EveryWindowOnce, NoWindowMissed, OncePerWindow
<1>. QED  BY <1>7, <1>8, <1>10, <1>11, <1>12

\* enqueue_scheduled fires or skips the window the row is due at.
LEMMA EnqueueKeepsWindows ==
    ASSUME Healthy, IInv, WindowInv, NEW s \in Schedulers, Fire(s) \/ Skip(s)
    PROVE  WindowInv'
<1>. USE DEF IInv, WindowInv
<1>0. pass[s] \in Pass /\ pass[s].pc = "rows" /\ clock \in Nat
  BY DEF Fire, Skip, TypeOK
<1>1. PICK d \in Foremost(s) :
        LET job == <<d.p, this_tick_at(d.cron, pass[s].now)>>
        IN  /\ Handled(s, d)
            /\ \/ /\ fired' = fired \cup {job} /\ UNCHANGED skipped
                  /\ refired' = IF job \in fired THEN refired \cup {job} ELSE refired
               \/ skipped' = skipped \cup {job} /\ UNCHANGED <<fired, refired>>
  BY DEF Fire, Skip
<1>2. /\ d \in pass[s].due /\ d \in Due /\ d.p \in Pipelines /\ Exists(d.p)
      /\ d.cron = sched[d.p].cron /\ d.next = sched[d.p].next /\ d.next = clock
      /\ ~InHand(s, d.p) /\ pass[s].now = clock
  BY <1>0 DEF Foremost, Pass, Due, PassOK, PassInStep
<1>3. this_tick_at(d.cron, pass[s].now) = clock
  <2>1. d.cron \in Nat \ {0} /\ clock % d.cron = 0
    BY <1>2, CronsAssumption DEF Due, RowsOnTick
  <2>. QED  BY <1>0, <1>2, <2>1, TickFacts
<1>. DEFINE job == <<d.p, clock>>
<1>4. job \notin fired
  <2>1. \A r \in Schedulers : ~InHand(r, d.p)
    BY <1>2 DEF Healthy
  <2>2. ~(clock < sched[d.p].next)
    BY <1>0, <1>2
  <2>. HIDE DEF job
  <2>3. ASSUME NEW t \in Nat, <<d.p, t>> \in fired PROVE t < sched[d.p].next
    BY <1>2, <2>1, <2>3 DEF FiredBehind
  <2>. QED  BY <1>0, <2>2, <2>3 DEF job
<1>5. /\ fired' \in {fired, fired \cup {job}} /\ skipped' \in {skipped, skipped \cup {job}}
      /\ job \in fired' \cup skipped'
      /\ UNCHANGED <<clock, sched, changes, op, refired>>
  BY <1>1, <1>3, <1>4 DEF Fire, Skip
<1>6. /\ pass'[s].pc = "read" /\ pass'[s].due = pass[s].due \ {d} /\ pass'[s].cur = d
      /\ pass'[s].now = pass[s].now
      /\ \A r \in Schedulers : r = s
  BY <1>0, <1>1 DEF Handled, Healthy, TypeOK, Pass
<1>7. RowsOnTick' /\ RequestsAreFirst'
  BY <1>5 DEF RowsOnTick, RequestsAreFirst, Exists
<1>8. PassInStep'
  <2>1. \A e \in pass[s].due \ {d} : e.p # d.p
    <3>. SUFFICES ASSUME NEW e \in pass[s].due, e.p = d.p PROVE e = d
      OBVIOUS
    <3>1. e \in Due /\ d \in Due
      BY <1>0, <1>2 DEF Pass
    <3>2. e.cron = d.cron /\ e.next = d.next
      BY <1>2 DEF PassInStep
    <3>. QED  BY <3>1, <3>2 DEF Due
  <2>2. /\ pass'[s].now = clock
        /\ \A e \in pass'[s].due : /\ e.cron = sched[e.p].cron /\ e.next = sched[e.p].next
                                    /\ e.next = clock /\ ~InHand(s, e.p)'
    BY <1>2, <1>6, <2>1 DEF PassInStep, InHand
  <2>3. sched[pass'[s].cur.p].next = clock /\ <<pass'[s].cur.p, clock>> \in fired' \cup skipped'
    BY <1>2, <1>5, <1>6
  <2>. QED  BY <1>5, <1>6, <2>2, <2>3 DEF PassInStep
<1>13. \A p \in Pipelines, t \in Nat : <<p, t>> \in fired => t <= sched[p].next
  BY DEF FiredBehind
<1>9. FiredBehind'
  <2>. SUFFICES ASSUME NEW p \in Pipelines, NEW t \in Nat, <<p, t>> \in fired'
                PROVE  /\ Exists(p) /\ t <= sched[p].next
                       /\ t < sched[p].next \/ InHand(s, p)'
    BY <1>5, <1>6 DEF FiredBehind, Exists
  <2>1. CASE p = d.p
    <3>1. InHand(s, p)'
      BY <1>6, <2>1 DEF InHand
    <3>2. <<p, t>> \in fired \/ t = clock
      BY <1>5, <2>1
    <3>3. <<p, t>> \in fired => t <= sched[p].next
      BY <1>13
    <3>4. sched[p].next = clock
      <4>1. sched[d.p].next = clock
        BY <1>2
      <4>. QED  BY <2>1, <4>1
    <3>5. clock <= clock
      BY <1>0
    <3>. QED  BY <1>2, <2>1, <3>1, <3>2, <3>3, <3>4, <3>5
  <2>2. CASE p # d.p
    <3>1. <<p, t>> \in fired
      BY <1>5, <2>2
    <3>2. ~InHand(s, p)
      BY <1>0 DEF InHand
    <3>. QED  BY <1>6, <3>1, <3>2 DEF FiredBehind
  <2>. QED  BY <2>1, <2>2
<1>10. EveryWindowOnce'
  BY <1>5 DEF EveryWindowOnce, OncePerWindow, NoWindowMissed, Exists
<1>. QED  BY <1>7, <1>8, <1>9, <1>10

\* set_last_fired moves the row one window on.
LEMMA WriteKeepsWindows ==
    ASSUME Healthy, IInv, WindowInv, NEW s \in Schedulers, WriteRow(s)
    PROVE  WindowInv'
<1>. USE DEF IInv, WindowInv
<1>. DEFINE d == pass[s].cur
            q == d.p
            c == sched[q].cron
<1>0. /\ pass[s] \in Pass /\ pass[s].pc = "write" /\ clock \in Nat
      /\ \A r \in Schedulers : r = s
  BY DEF WriteRow, TypeOK, Healthy
<1>1. /\ q \in Pipelines /\ Exists(q) /\ sched[q] \in Row /\ c \in Nat \ {0}
      /\ d.cron = c /\ d.next = clock /\ sched[q].next = clock /\ clock % c = 0
      /\ <<q, clock>> \in fired \cup skipped
  BY <1>0, RowExists, CronsAssumption DEF PassOK, Due, PassInStep, RowsOnTick, Row
<1>2. /\ sched' = [sched EXCEPT ![q].next = next_tick_after(d.cron, d.next)]
      /\ pass' = [pass EXCEPT ![s].pc = "rows", ![s].cur = NoDue]
      /\ UNCHANGED <<clock, changes, op, fired, refired, skipped>>
  BY DEF WriteRow, history
<1>3. pass[s].cur = d
  OBVIOUS
<1>. HIDE DEF d, c
<1>4. next_tick_after(d.cron, d.next) = clock + c /\ (clock + c) % c = 0
  <2>1. next_tick_after(c, clock) = clock + c /\ next_tick_after(c, clock) % c = 0
    BY <1>0, <1>1, TickFacts
  <2>2. d.cron = c /\ d.next = clock
    BY <1>1
  <2>. QED  BY <2>1, <2>2
<1>5. /\ sched'[q].next = clock + c /\ sched'[q].cron = sched[q].cron /\ sched'[q].cron = c
      /\ sched'[q].paused = sched[q].paused
      /\ \A p \in Pipelines : p # q => sched'[p] = sched[p]
  BY <1>1, <1>2, <1>4 DEF TypeOK, Row, c
<1>14. /\ pass'[s].pc = "rows" /\ pass'[s].due = pass[s].due /\ pass'[s].now = pass[s].now
  BY <1>0, <1>2 DEF TypeOK, Pass
<1>15. clock < clock + c /\ clock + c \in Nat
  BY <1>0, <1>1
<1>6. RowsOnTick'
  <2>1. RowsOnTick
    OBVIOUS
  <2>. SUFFICES ASSUME NEW p \in Pipelines
                PROVE  /\ ~sched'[p].paused /\ Len(changes[p]) <= 1
                       /\ Exists(p)' => /\ sched'[p].next % sched'[p].cron = 0
                                        /\ clock <= sched'[p].next
                                        /\ changes[p] # << >> /\ changes[p][1].after.next \in Nat
                                        /\ changes[p][1].after.next <= sched'[p].next
    BY <1>2 DEF RowsOnTick
  <2>2. CASE p = q
    <3>1. /\ sched'[p].next = clock + c /\ sched'[p].cron = c /\ ~sched'[p].paused
          /\ (clock + c) % c = 0
      BY <1>1, <1>4, <1>5, <2>1, <2>2 DEF RowsOnTick
    <3>2. /\ Len(changes[p]) <= 1 /\ changes[p] # << >> /\ changes[p][1].after.next \in Nat
          /\ changes[p][1].after.next <= clock
      BY <1>1, <2>1, <2>2 DEF RowsOnTick
    <3>. QED  BY <1>0, <1>15, <3>1, <3>2
  <2>3. CASE p # q
    BY <1>5, <2>1, <2>3 DEF RowsOnTick, Exists
  <2>. QED  BY <2>2, <2>3
<1>7. RequestsAreFirst'
  BY <1>2 DEF RequestsAreFirst
<1>8. \A e \in pass[s].due : e.p \in Pipelines /\ e.p # q
  BY <1>0, <1>3 DEF Pass, Due, PassInStep, InHand
<1>9. PassInStep'
  <2>1. /\ pass[s].now = clock
        /\ \A e \in pass[s].due : e.cron = sched[e.p].cron /\ e.next = sched[e.p].next
                                   /\ e.next = clock
    BY <1>0 DEF PassInStep
  <2>2. \A e \in pass'[s].due : /\ e.cron = sched'[e.p].cron /\ e.next = sched'[e.p].next
                                 /\ e.next = clock
    BY <1>5, <1>8, <1>14, <2>1
  <2>3. pass'[s].pc = "rows" /\ pass'[s].now = clock
    BY <1>14, <2>1
  <2>. QED  BY <1>0, <1>2, <2>2, <2>3 DEF PassInStep, InHand
<1>10. FiredBehind'
  <2>. SUFFICES ASSUME NEW p \in Pipelines, NEW t \in Nat, <<p, t>> \in fired
                PROVE  Exists(p)' /\ t < sched'[p].next
    <3>1. \A p \in Pipelines : sched'[p].next \in Nat
      <4>1. \A p \in Pipelines : sched[p].next \in Nat
        <5>1. NoRow.next \in Nat /\ \A r \in Row : r.next \in Nat
          BY DEF Row, NoRow
        <5>. QED  BY <5>1 DEF TypeOK
      <4>. QED  BY <1>5, <1>15, <4>1
    <3>. QED  BY <1>2, <3>1 DEF FiredBehind
  <2>1. CASE p = q
    BY <1>0, <1>1, <1>5, <1>15, <2>1 DEF Exists, FiredBehind
  <2>2. CASE p # q
    BY <1>0, <1>3, <1>5, <2>2 DEF FiredBehind, Exists, InHand
  <2>. QED  BY <2>1, <2>2
<1>11. EveryWindowOnce'
  <2>1. ASSUME NEW p \in Pipelines, Exists(p)',
               NEW t \in changes'[p][1].after.next .. sched'[p].next - 1,
               t % sched'[p].cron = 0
        PROVE  <<p, t>> \in fired \cup skipped
    <3>1. CASE p # q
      BY <1>2, <1>5, <2>1, <3>1 DEF EveryWindowOnce, NoWindowMissed, Exists
    <3>2. CASE p = q
      <4>1. t \in Nat /\ t < clock + c /\ t % c = 0 /\ changes[q][1].after.next <= t
        <5>1. changes[q][1].after.next \in Nat
          BY <1>1 DEF RowsOnTick
        <5>. QED  BY <1>0, <1>1, <1>2, <1>5, <1>15, <2>1, <3>2, <5>1
      <4>2. CASE t < clock
        <5>1. t \in changes[q][1].after.next .. sched[q].next - 1
          BY <1>0, <1>1, <4>1, <4>2 DEF RowsOnTick
        <5>. QED  BY <1>1, <3>2, <4>1, <5>1 DEF EveryWindowOnce, NoWindowMissed, c
      <4>3. CASE clock <= t
        <5>1. t = clock
          BY <1>0, <1>1, <4>1, <4>3, NoTickBetween
        <5>. QED  BY <1>1, <3>2, <5>1
      <4>. QED  BY <1>0, <4>1, <4>2, <4>3
    <3>. QED  BY <3>1, <3>2
  <2>. QED  BY <1>2, <2>1 DEF EveryWindowOnce, NoWindowMissed, OncePerWindow
<1>. QED  BY <1>6, <1>7, <1>9, <1>10, <1>11

LEMMA NextWindowInv ==
    ASSUME Healthy
    PROVE  IInv /\ WindowInv /\ [Next]_vars => WindowInv'
<1>. SUFFICES ASSUME IInv, WindowInv, [Next]_vars PROVE WindowInv'
  OBVIOUS
<1>. USE DEF WindowInv
\* Steps that touch neither the rows nor the clock, and move at most the
\* bookkeeping of a pass or of a request.
<1>0. ASSUME UNCHANGED <<clock, sched, changes, fired, refired, skipped>>
      PROVE  RowsOnTick' /\ EveryWindowOnce'
  BY <1>0 DEF RowsOnTick, EveryWindowOnce, OncePerWindow, NoWindowMissed, Exists
<1>1. ASSUME UNCHANGED <<clock, changes, op>>
      PROVE  RequestsAreFirst'
  BY <1>1 DEF RequestsAreFirst
<1>2. ASSUME UNCHANGED <<clock, sched, pass, fired, skipped>>
      PROVE  PassInStep' /\ FiredBehind'
  BY <1>2 DEF PassInStep, FiredBehind, InHand, Exists
<1>3. ASSUME NEW u \in Users, NEW k \in Ops, NEW p \in Pipelines, NEW c \in Crons,
             Begin(u, k, p, c)
      PROVE  WindowInv'
  <2>1. changes[p] = << >>
    <3>1. changes[p] \in Seq(Change) /\ Len(changes[p]) < 1
      BY <1>3 DEF Begin, Healthy, IInv, TypeOK
    <3>. QED  BY <3>1, EmptySeq, LenProperties
  <2>2. op'[u].p = p /\ op'[u].at = clock /\ (\A v \in Users : v = u)
    BY <1>3 DEF Begin, Healthy, IInv, TypeOK
  <2>3. RequestsAreFirst'
    BY <1>3, <2>1, <2>2 DEF RequestsAreFirst, Begin
  <2>. QED  BY <1>0, <1>2, <1>3, <2>3 DEF Begin, history
<1>4. ASSUME NEW u \in Users, pause(u) \/ resume(u)
      PROVE  WindowInv'
  <2>1. op[u] \in Op
    BY <1>4, OpUnderWay DEF pause, resume, IInv
  <2>2. sched[op[u].p] = NoRow
    BY <2>1, RequestOnNoRow
  <2>. QED  BY <1>4, <2>2 DEF pause, resume, Exists, NoRow
<1>5. ASSUME NEW u \in Users, set_cron(u) \/ seed(u)
      PROVE  WindowInv'
  BY <1>5, UpsertKeepsWindows DEF set_cron, seed, Upserts
<1>6. ASSUME NEW u \in Users, Refused(u)
      PROVE  WindowInv'
  <2>1. RequestsAreFirst'
    BY <1>6 DEF RequestsAreFirst, Refused, IInv, TypeOK
  <2>. QED  BY <1>0, <1>2, <1>6, <2>1 DEF Refused, history
<1>7. ASSUME NEW s \in Schedulers, StartPass(s) \/ EndPass(s) \/ LabelFails(s)
      PROVE  WindowInv'
  <2>1. /\ pass'[s].pc \in {"list", "rows", "idle"}
        /\ pass'[s].due \subseteq pass[s].due
        /\ IF pass'[s].pc = "idle" THEN pass'[s].due = {} ELSE pass'[s].now = clock
        /\ pass[s].pc \notin {"read", "write"}
    <3>1. CASE StartPass(s)
      BY <3>1 DEF StartPass, IInv, TypeOK, Pass
    <3>2. CASE EndPass(s)
      BY <3>2 DEF EndPass, IInv, TypeOK, Idle
    <3>3. CASE LabelFails(s)
      <4>1. PICK d : pass' = [pass EXCEPT ![s].due = @ \ {d}]
        BY <3>3 DEF LabelFails
      <4>2. /\ pass'[s].pc = pass[s].pc /\ pass'[s].now = pass[s].now
            /\ pass'[s].due = pass[s].due \ {d} /\ pass[s].pc = "rows"
        BY <3>3, <4>1 DEF LabelFails, IInv, TypeOK, Pass
      <4>. QED  BY <4>2 DEF PassInStep
    <3>. QED  BY <1>7, <3>1, <3>2, <3>3
  <2>2. /\ \A r \in Schedulers : r = s
        /\ UNCHANGED <<clock, sched, changes, op, fired, refired, skipped>>
    BY <1>7 DEF Healthy, StartPass, EndPass, LabelFails, history
  <2>3. PassInStep' /\ FiredBehind'
    BY <2>1, <2>2 DEF PassInStep, FiredBehind, InHand, Exists
  <2>. QED  BY <1>0, <1>1, <2>2, <2>3
<1>8. ASSUME NEW s \in Schedulers, ListDue(s)
      PROVE  WindowInv'
  <2>1. /\ pass'[s].pc = "rows" /\ pass'[s].due = list_due(pass[s].now)
        /\ pass'[s].now = pass[s].now /\ pass[s].pc = "list" /\ pass[s].now = clock
        /\ \A r \in Schedulers : r = s
        /\ UNCHANGED <<clock, sched, changes, op, fired, refired, skipped>>
    BY <1>8 DEF ListDue, Healthy, IInv, TypeOK, Pass, PassInStep, history
  <2>2. \A d \in list_due(clock) : d.cron = sched[d.p].cron /\ d.next = sched[d.p].next
                                   /\ d.next = clock
    <3>. SUFFICES ASSUME NEW p \in Pipelines, Exists(p), sched[p].next <= clock
                  PROVE  sched[p].next = clock
      BY DEF list_due
    <3>1. sched[p].next \in Nat /\ clock \in Nat
      BY RowExists DEF IInv, TypeOK, Row
    <3>. QED  BY <3>1 DEF RowsOnTick
  <2>3. PassInStep' /\ FiredBehind'
    BY <2>1, <2>2 DEF PassInStep, FiredBehind, InHand, Exists
  <2>. QED  BY <1>0, <1>1, <2>1, <2>3
<1>9. ASSUME NEW s \in Schedulers, Fire(s) \/ Skip(s)
      PROVE  WindowInv'
  BY <1>9, EnqueueKeepsWindows
<1>10. ASSUME NEW s \in Schedulers, ReadRow(s)
       PROVE  WindowInv'
  <2>. DEFINE q == pass[s].cur.p
              cur == [p |-> q, cron |-> sched[q].cron, next |-> sched[q].next]
  <2>1. cur.p = q /\ cur.cron = sched[q].cron /\ cur.next = sched[q].next
    OBVIOUS
  <2>2. pass' = [pass EXCEPT ![s].pc = "write", ![s].cur = cur]
    BY <1>10 DEF ReadRow
  <2>. HIDE DEF cur
  <2>3. /\ pass'[s].pc = "write" /\ pass'[s].due = pass[s].due /\ pass'[s].now = pass[s].now
        /\ pass'[s].cur = cur /\ pass[s].pc = "read"
        /\ \A r \in Schedulers : r = s
        /\ UNCHANGED <<clock, sched, changes, op, fired, refired, skipped>>
    BY <1>10, <2>2 DEF ReadRow, Healthy, IInv, TypeOK, Pass, history
  <2>4. PassInStep' /\ FiredBehind'
    BY <2>1, <2>3 DEF PassInStep, FiredBehind, InHand, Exists
  <2>. QED  BY <1>0, <1>1, <2>3, <2>4
<1>11. ASSUME NEW s \in Schedulers, WriteRow(s)
       PROVE  WindowInv'
  BY <1>11, WriteKeepsWindows
<1>12. ASSUME NEW s \in Schedulers, PassFails(s)
       PROVE  FALSE
  BY <1>12 DEF PassFails, Healthy, IInv, TypeOK
<1>13. ASSUME NEW p \in Pipelines, Claim(p)
       PROVE  WindowInv'
  BY <1>0, <1>1, <1>2, <1>13 DEF Claim, history
<1>14. CASE Tick
  <2>1. /\ \A p \in Pipelines : ~IsDue(p)
        /\ \A u \in Users : op[u] = NoOp
        /\ \A s \in Schedulers : pass[s].pc = "idle"
        /\ clock' = clock + 1 /\ clock \in Nat
        /\ UNCHANGED <<sched, changes, op, pass, fired, refired, skipped>>
    BY <1>14 DEF Tick, Healthy, IInv, TypeOK, history
  <2>2. ASSUME NEW p \in Pipelines, Exists(p) PROVE clock + 1 <= sched[p].next
    <3>1. sched[p].next \in Nat /\ ~(sched[p].next <= clock)
      BY <2>1, <2>2, RowExists DEF IsDue, RowsOnTick, IInv, Row
    <3>. QED  BY <2>1, <3>1
  <2>3. RowsOnTick'
    BY <2>1, <2>2 DEF RowsOnTick, Exists
  <2>4. RequestsAreFirst' /\ FiredBehind'
    BY <2>1 DEF RequestsAreFirst, FiredBehind, InHand, Exists
  <2>5. \A s \in Schedulers : pass[s].due = {}
    BY <2>1 DEF PassInStep
  <2>6. PassInStep'
    BY <2>1, <2>5 DEF PassInStep
  <2>7. EveryWindowOnce'
    BY <2>1 DEF EveryWindowOnce, OncePerWindow, NoWindowMissed, Exists
  <2>. QED  BY <2>3, <2>4, <2>6, <2>7
<1>15. CASE UNCHANGED vars
  BY <1>0, <1>1, <1>2, <1>15 DEF vars
<1>. QED
  BY <1>3, <1>4, <1>5, <1>6, <1>7, <1>8, <1>9, <1>10, <1>11, <1>12, <1>13, <1>14, <1>15
  DEF Next, PassStep, UserStep

\* A healthy schedule fires or skips each of its windows, and fires none twice,
\* for any number of pipelines, periods and failing label resolvers.
THEOREM WindowsOnce ==
    ASSUME Healthy
    PROVE  Spec => []EveryWindowOnce
<1>1. Init => WindowInv
  <2>. SUFFICES ASSUME Init PROVE WindowInv
    OBVIOUS
  <2>1. RowsOnTick
    BY DEF Init, RowsOnTick, NoRow, Exists
  <2>2. RequestsAreFirst /\ PassInStep /\ FiredBehind
    BY DEF Init, RequestsAreFirst, PassInStep, FiredBehind, Idle
  <2>3. EveryWindowOnce
    BY DEF Init, EveryWindowOnce, OncePerWindow, NoWindowMissed, Exists, NoRow
  <2>. QED  BY <2>1, <2>2, <2>3 DEF WindowInv
<1>2. Spec => []IInv
  BY InitIInv, NextIInv, PTL DEF Spec
<1>3. IInv /\ WindowInv /\ [Next]_vars => WindowInv'
  BY NextWindowInv
<1>4. WindowInv => EveryWindowOnce
  BY DEF WindowInv
<1>. QED  BY <1>1, <1>2, <1>3, <1>4, PTL DEF Spec
====
