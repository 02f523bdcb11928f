---------------------------- MODULE ServeProofs -----------------------------
(***************************************************************************)
(* Proofs about carve serve: its shutdown, for any number of workers,      *)
(* loops and jobs; a client's stream of a run's events; and the webhook    *)
(* publisher, for any number of subscribers and events.                    *)
(***************************************************************************)
EXTENDS Outbox, Serve, FiniteSetTheorems, WellFoundedInduction, TLAPS

-----------------------------------------------------------------------------
(* The shutdown.                                                           *)

TaskStates == {"register", "poll", "claiming", "busy", "unregister", "done", "crashed"}
ThreadStates == {"none", "claim", "job"}

Counts ==
    /\ signals \in Nat
    /\ lateClaims \in [PoolWorkers -> Nat]
    /\ task \in [PoolWorkers -> TaskStates]
    /\ thread \in [PoolWorkers -> ThreadStates]

\* A claim that the signal finds under way is the last of its worker: none was late
\* before it, and none begins after the signal.
LateInv == \A w \in PoolWorkers :
    /\ lateClaims[w] <= 1
    /\ ~Shutdown \/ thread[w] = "claim" => lateClaims[w] = 0

\* The pool cuts jobs off once, and what made it do so is there to stay: force, the
\* end of the grace period, which begins once, or what the API server raised.
CutInv == interrupted # {} =>
    /\ pool # "serving"
    /\ Forced \/ grace = "expired" \/ api = "raised"

ServeInv == Counts /\ LateInv /\ CutInv

\* A server that starts has claimed and cut off nothing.
LEMMA ServeStart == ServeInit => ServeInv
<1> SUFFICES ASSUME ServeInit PROVE ServeInv
    OBVIOUS
<1>1. Counts
  BY DEF ServeInit, Counts, TaskStates, ThreadStates
<1>2. LateInv
  BY DEF ServeInit, LateInv
<1>3. CutInv
  BY DEF ServeInit, CutInv
<1>4. QED
  BY <1>1, <1>2, <1>3 DEF ServeInv

\* The steps of a worker's task and of its thread.
LEMMA WorkerSteps ==
    ASSUME ServeInv, NEW w \in PoolWorkers, WorkerTask(w) \/ Claimed(w) \/ JobEnds(w)
    PROVE  ServeInv'
<1> USE DEF ServeInv, Counts
<1>1. UNCHANGED <<signals, pool, grace, interrupted, api>>
  BY DEF WorkerTask, register_worker, unregister_worker, PollOrStop, Claimed, JobEnds
<1>2. CutInv'
  BY <1>1 DEF CutInv, Forced
<1>3. ASSUME task' \in [PoolWorkers -> TaskStates], thread' \in [PoolWorkers -> ThreadStates],
             \A v \in PoolWorkers : thread'[v] = "claim" => ~Shutdown \/ thread[v] = "claim",
             UNCHANGED lateClaims
      PROVE  ServeInv'
  <2>1. Counts'
    BY <1>1, <1>3
  <2>2. LateInv'
    BY <1>1, <1>3 DEF LateInv, Shutdown
  <2>3. QED
    BY <1>2, <2>1, <2>2
<1>4. CASE register_worker(w)
  <2>1. /\ task' \in [PoolWorkers -> TaskStates] /\ thread' = [thread EXCEPT ![w] = "none"]
        /\ UNCHANGED lateClaims
    BY <1>4 DEF register_worker, WorkerVars, TaskStates
  <2>2. QED
    BY <1>3, <2>1 DEF ThreadStates
<1>5. CASE unregister_worker(w)
  <2>1. /\ task' \in [PoolWorkers -> TaskStates] /\ thread' = [thread EXCEPT ![w] = thread[w]]
        /\ UNCHANGED lateClaims
    BY <1>5 DEF unregister_worker, WorkerVars, TaskStates
  <2>2. QED
    BY <1>3, <2>1 DEF ThreadStates
<1>6. CASE PollOrStop(w)
  <2>1. CASE Shutdown
    <3>1. /\ task' \in [PoolWorkers -> TaskStates] /\ thread' = [thread EXCEPT ![w] = "none"]
          /\ UNCHANGED lateClaims
      BY <1>6, <2>1 DEF PollOrStop, WorkerVars, TaskStates
    <3>2. QED
      BY <1>3, <3>1 DEF ThreadStates
  <2>2. CASE ~Shutdown
    <3>1. /\ task' \in [PoolWorkers -> TaskStates] /\ thread' = [thread EXCEPT ![w] = "claim"]
          /\ UNCHANGED lateClaims
      BY <1>6, <2>2 DEF PollOrStop, WorkerVars, TaskStates
    <3>2. QED
      BY <1>3, <2>2, <3>1 DEF ThreadStates
  <2>3. QED
    BY <2>1, <2>2
<1>7. CASE JobEnds(w)
  <2>1. /\ task' \in [PoolWorkers -> TaskStates] /\ thread' = [thread EXCEPT ![w] = "none"]
        /\ UNCHANGED lateClaims
    BY <1>7 DEF JobEnds, WorkerVars, TaskStates
  <2>2. QED
    BY <1>3, <2>1 DEF ThreadStates
<1>8. CASE Claimed(w)
  <2>1. thread[w] = "claim" /\ lateClaims[w] = 0
    BY <1>8 DEF Claimed, LateInv
  <2>2. task' \in [PoolWorkers -> TaskStates]
    BY <1>8 DEF Claimed, WorkerVars, TaskStates
  <2>3. thread' = [thread EXCEPT ![w] = "none"] \/ thread' = [thread EXCEPT ![w] = "job"]
    BY <1>8 DEF Claimed, WorkerVars
  <2>4. thread' \in [PoolWorkers -> ThreadStates] /\ thread'[w] # "claim"
        /\ \A v \in PoolWorkers \ {w} : thread'[v] = thread[v]
    BY <2>3 DEF ThreadStates
  <2>5. CASE ~(Shutdown /\ backlog > 0)
    <3>1. UNCHANGED lateClaims
      BY <1>8, <2>5 DEF Claimed
    <3>2. QED
      BY <1>3, <2>2, <2>4, <3>1
  <2>6. CASE Shutdown /\ backlog > 0
    <3>1. lateClaims' = [lateClaims EXCEPT ![w] = 1]
      BY <1>8, <2>1, <2>6 DEF Claimed
    <3>2. Counts'
      BY <1>1, <2>2, <2>4, <3>1
    <3>3. Shutdown'
      BY <1>1, <2>6 DEF Shutdown
    <3>4. LateInv'
      BY <2>4, <3>1, <3>3 DEF LateInv
    <3>5. QED
      BY <1>2, <3>2, <3>4
  <2>7. QED
    BY <2>5, <2>6
<1>9. QED
  BY <1>4, <1>5, <1>6, <1>7, <1>8 DEF WorkerTask

\* Signals, the pool, the loops and the API server.
LEMMA ServeSteps == ServeInv /\ [ServeNext]_serveVars => ServeInv'
<1> SUFFICES ASSUME ServeInv, [ServeNext]_serveVars PROVE ServeInv'
    OBVIOUS
<1> USE DEF ServeInv, Counts
<1>1. CASE _on_signal
  <2>1. LateInv'
    BY <1>1 DEF _on_signal, LateInv, Shutdown
  <2>2. CutInv'
    BY <1>1 DEF _on_signal, CutInv, Forced
  <2>3. QED
    BY <1>1, <2>1, <2>2 DEF _on_signal
<1>2. ASSUME NEW w \in PoolWorkers, WorkerTask(w) \/ Claimed(w) \/ JobEnds(w) PROVE ServeInv'
  BY <1>2, WorkerSteps
<1>3. CASE run_worker_pool
  <2>1. interrupted = {} /\ UNCHANGED interrupted
    BY <1>3 DEF run_worker_pool, CutInv
  <2>2. QED
    BY <1>3, <2>1 DEF run_worker_pool, LateInv, CutInv, Shutdown
<1>4. CASE GraceExpires
  <2>1. CutInv'
    BY <1>4 DEF GraceExpires, CutInv, Forced
  <2>2. QED
    BY <1>4, <2>1 DEF GraceExpires, LateInv, Shutdown
<1>5. ASSUME Escalate, (\A w \in PoolWorkers : Over(w)) \/ Forced \/ grace = "expired" \/ api = "raised"
      PROVE  ServeInv'
  <2>1. CutInv'
    <3>1. /\ pool' = "join" /\ interrupted' = {w \in PoolWorkers : task[w] = "busy"}
          /\ UNCHANGED <<signals, grace, api>>
      BY <1>5 DEF Escalate
    <3>2. CASE \A w \in PoolWorkers : Over(w)
      BY <3>1, <3>2 DEF Over, CutInv
    <3>3. CASE Forced \/ grace = "expired" \/ api = "raised"
      BY <3>1, <3>3 DEF CutInv, Forced
    <3>4. QED
      BY <1>5, <3>2, <3>3
  <2>2. task' \in [PoolWorkers -> TaskStates]
    <3>1. ASSUME NEW w \in PoolWorkers
          PROVE  (CASE Over(w) -> task[w] [] task[w] = "register" -> "done" [] OTHER -> "unregister")
                     \in TaskStates
      BY <3>1 DEF Over, TaskStates
    <3>2. QED
      BY <1>5, <3>1 DEF Escalate
  <2>3. UNCHANGED <<signals, thread, lateClaims>>
    BY <1>5 DEF Escalate
  <2>4. QED
    BY <2>1, <2>2, <2>3 DEF LateInv, Shutdown
<1>6. ASSUME UNCHANGED <<signals, grace, task, thread, interrupted, lateClaims>>,
             pool' = "serving" => pool = "serving", api = "raised" => api' = "raised"
      PROVE  ServeInv'
  BY <1>6 DEF LateInv, CutInv, Shutdown, Forced
<1>7. CASE _log_worker_crashes
  BY <1>6, <1>7 DEF _log_worker_crashes
<1>8. ASSUME NEW l \in Loops, LoopStops(l) PROVE ServeInv'
  BY <1>6, <1>8 DEF LoopStops
<1>9. CASE StreamOpens \/ StreamCloses \/ _run_api \/ _serve
  <2>1. UNCHANGED <<signals, grace, task, thread, interrupted, lateClaims, pool>>
        /\ (api = "raised" => api' = "raised")
    BY <1>9 DEF StreamOpens, StreamCloses, _run_api, _serve
  <2>2. QED
    BY <1>6, <2>1
<1>10. CASE UNCHANGED serveVars
  <2>1. UNCHANGED <<signals, grace, task, thread, interrupted, lateClaims, pool, api>>
    BY <1>10 DEF serveVars
  <2>2. QED
    BY <1>6, <2>1
<1>11. CASE _drain
  BY <1>5, <1>11 DEF _drain, Drained
<1>12. CASE PoolCancelled
  BY <1>5, <1>12 DEF PoolCancelled
<1>13. QED
  BY <1>1, <1>2, <1>3, <1>4, <1>7, <1>8, <1>9, <1>10, <1>11, <1>12 DEF ServeNext, PoolTask

\* However many workers, jobs and signals there are, a job in flight is cut off only
\* by a second signal, after the grace period or with an API server that raised, and
\* a worker claims at most the job it was claiming.
THEOREM DrainIsRespected == ServeSpec => []DrainRespected
<1>1. ASSUME ServeInv PROVE DrainRespected
  <2>1. interrupted # {} => (Forced \/ grace = "expired" \/ api = "raised")
    BY <1>1 DEF ServeInv, CutInv
  <2>2. \A w \in PoolWorkers : lateClaims[w] <= 1
    BY <1>1 DEF ServeInv, LateInv
  <2>3. QED
    BY <2>1, <2>2 DEF DrainRespected
<1>2. QED
  BY ServeStart, ServeSteps, <1>1, PTL DEF ServeSpec

-----------------------------------------------------------------------------
(* The event log and its pages.                                            *)

\* An event that is not issued has no kind of its own yet.
LogOK ==
    /\ log \in [Ids -> EventRow]
    /\ Ended \subseteq Issued

\* A step of the emitter changes the state of one event, and of the events that
\* are committed only adds to them.
LEMMA EmitterKeepsLog ==
    ASSUME LogOK, \/ \E k \in Kinds : BeginEmit(k)
                  \/ \E i \in Ids : CommitEmit(i)
                  \/ \E i \in Ids : EmitFails(i)
    PROVE  /\ LogOK' /\ Committed \subseteq Committed'
           /\ \A i \in Ids : log'[i].stamp = log[i].stamp
           /\ \A i \in Ids : i \in Committed \cup Ended => log'[i].kind = log[i].kind
           /\ \A i \in Committed' \ Committed : CommitEmit(i)
<1>1. log \in [Ids -> EventRow]
  BY DEF LogOK
<1>3. ASSUME NEW k \in Kinds, BeginEmit(k)
      PROVE  /\ LogOK' /\ Committed' = Committed
             /\ \A i \in Ids : log'[i].stamp = log[i].stamp
             /\ \A i \in Ids : i \in Committed \cup Ended => log'[i].kind = log[i].kind
  <2>2. PICK i \in Ids \ Issued : /\ \A j \in Ids : j < i => j \in Issued
                                  /\ log' = [log EXCEPT ![i].state = "open", ![i].kind = k]
    BY <1>3 DEF BeginEmit
  <2>3. PICK r : r = [log[i] EXCEPT !.state = "open", !.kind = k]
    OBVIOUS
  <2>4. r \in EventRow /\ r.state = "open" /\ r.kind = k /\ r.stamp = log[i].stamp
    BY <1>1, <2>3 DEF EventRow
  <2>5. log' = [log EXCEPT ![i] = r]
    <3>1. PICK T : T = [log EXCEPT ![i].state = "open"]
      OBVIOUS
    <3>2. log' = [T EXCEPT ![i].kind = k]
      BY <2>2, <3>1
    <3>. QED  BY <1>1, <2>3, <3>1, <3>2
  <2>6. log' \in [Ids -> EventRow] /\ log'[i] = r /\ \A j \in Ids : j # i => log'[j] = log[j]
    BY <1>1, <2>2, <2>4, <2>5
  <2>7. log[i].state = "absent"
    BY <2>2 DEF Issued
  <2>8. Issued' = Issued \cup {i} /\ Open' = Open \cup {i} /\ Committed' = Committed
        /\ Ended' \subseteq Ended \cup {i}
    BY <2>2, <2>4, <2>6, <2>7 DEF Issued, Open, Committed, Ended
  <2>9. LogOK'
    BY <2>6, <2>8 DEF LogOK
  <2>10. i \notin Committed \cup Ended
    BY <2>2, <2>7 DEF LogOK, Committed
  <2>. QED  BY <2>4, <2>6, <2>8, <2>9, <2>10
<1>4. ASSUME NEW i \in Open, NEW s \in {"committed", "lost"}, log' = [log EXCEPT ![i].state = s]
      PROVE  /\ LogOK' /\ Committed' = IF s = "committed" THEN Committed \cup {i} ELSE Committed
             /\ \A j \in Ids : log'[j].stamp = log[j].stamp /\ log'[j].kind = log[j].kind
  <2>1. i \in Ids /\ log[i].state = "open"
    BY <1>4 DEF Open
  <2>2. PICK r : r = [log[i] EXCEPT !.state = s]
    OBVIOUS
  <2>3. r \in EventRow /\ r.state = s /\ r.kind = log[i].kind /\ r.stamp = log[i].stamp
    BY <1>1, <2>1, <2>2 DEF EventRow
  <2>4. log' \in [Ids -> EventRow] /\ log'[i] = r /\ \A j \in Ids : j # i => log'[j] = log[j]
    BY <1>1, <1>4, <2>1, <2>2, <2>3
  <2>5. Issued' = Issued /\ Open' \subseteq Open /\ Ended' = Ended
        /\ Committed' = IF s = "committed" THEN Committed \cup {i} ELSE Committed
    BY <2>1, <2>3, <2>4 DEF Issued, Open, Committed, Ended
  <2>6. LogOK'
    BY <2>4, <2>5 DEF LogOK
  <2>. QED  BY <2>3, <2>4, <2>5, <2>6
<1>5. CASE \E k \in Kinds : BeginEmit(k)
  BY <1>3, <1>5
<1>6. CASE \E i \in Ids : CommitEmit(i)
  <2>1. PICK i \in Open : CommitEmit(i) /\ log' = [log EXCEPT ![i].state = "committed"]
    BY <1>6 DEF CommitEmit
  <2>2. /\ LogOK' /\ Committed' = Committed \cup {i}
        /\ \A j \in Ids : log'[j].stamp = log[j].stamp /\ log'[j].kind = log[j].kind
    BY <1>4, <2>1
  <2>. QED  BY <2>1, <2>2
<1>7. CASE \E i \in Ids : EmitFails(i)
  <2>1. PICK i \in Open : log' = [log EXCEPT ![i].state = "lost"]
    BY <1>7 DEF EmitFails
  <2>2. /\ LogOK' /\ Committed' = Committed
        /\ \A j \in Ids : log'[j].stamp = log[j].stamp /\ log'[j].kind = log[j].kind
    BY <1>4, <2>1
  <2>. QED  BY <2>2
<1>. QED  BY <1>5, <1>6, <1>7

\* A set of natural numbers that is not empty has a least element.
LEMMA LeastId ==
    ASSUME NEW S \in SUBSET Nat, S # {}
    PROVE  \E m \in S : \A n \in S : m <= n
<1>. DEFINE Less == {ss \in Nat \X Nat : ss[1] < ss[2]}
<1>1. IsWellFoundedOn(Less, Nat)
  BY NatLessThanWellFounded DEF OpToRel
<1>2. PICK m \in S : \A n \in S : ~ (<<n, m>> \in Less)
  <2>. HIDE DEF Less
  <2>. QED  BY <1>1, WFMin
<1>3. \A n \in S : ~(n < m)
  BY <1>2
<1>. QED  BY <1>3

\* The cursor moves to the greatest id of what it saw.
LEMMA MaxIdIsMax ==
    ASSUME NEW S \in SUBSET (0..MaxEvents), S # {}
    PROVE  MaxId(S) \in S /\ \A i \in S : i <= MaxId(S)
<1>. DEFINE Bounds == {n \in Nat : \A i \in S : i <= n}
<1>1. MaxEvents \in Bounds
  BY MaxEventsAssumption
<1>2. PICK m \in Bounds : \A n \in Bounds : m <= n
  <2>1. Bounds \in SUBSET Nat /\ Bounds # {}
    BY <1>1
  <2>. HIDE DEF Bounds
  <2>. QED  BY <2>1, LeastId
<1>3. m \in S
  <2>. SUFFICES ASSUME m \notin S PROVE FALSE
    OBVIOUS
  <2>1. \A i \in S : i \in Nat /\ i <= m /\ i # m
    BY <1>2, MaxEventsAssumption
  <2>2. m \in Nat /\ \A i \in S : i <= m - 1
    BY <1>2, <2>1
  <2>3. m - 1 \in Bounds
    <3>1. PICK i \in S : TRUE
      OBVIOUS
    <3>2. i \in Nat /\ i <= m - 1
      BY <2>1, <2>2
    <3>3. m - 1 \in Nat
      BY <2>2, <3>2
    <3>. QED  BY <2>2, <3>3
  <2>. QED  BY <1>2, <2>3
<1>4. \E i \in S : \A j \in S : j <= i
  BY <1>2, <1>3
<1>5. MaxId(S) = CHOOSE i \in S : \A j \in S : j <= i
  BY DEF MaxId
<1>. QED  BY <1>4, <1>5

\* With an id a page of the log holds every smaller one of what it pages.
LEMMA PageIsFirst ==
    ASSUME NEW S \in SUBSET Ids, NEW n \in Nat, NEW j \in Page(S, n), NEW i \in S, i <= j
    PROVE  i \in Page(S, n)
<1>. DEFINE Before(k) == {l \in S : l < k}
<1>1. IsFiniteSet(Ids)
  BY MaxEventsAssumption, FS_Interval DEF Ids
<1>2. PICK A : A = Before(i)
  OBVIOUS
<1>3. PICK B : B = Before(j)
  OBVIOUS
<1>4. j \in S /\ Cardinality(B) < n
  BY <1>3 DEF Page
<1>5. \A k \in S : k \in Nat
  BY MaxEventsAssumption DEF Ids
<1>6. A \in SUBSET B /\ B \in SUBSET Ids
  BY <1>2, <1>3, <1>4, <1>5
<1>7. IsFiniteSet(B)
  BY <1>1, <1>6, FS_Subset
<1>8. Cardinality(A) <= Cardinality(B) /\ IsFiniteSet(A)
  BY <1>6, <1>7, FS_Subset
<1>9. Cardinality(A) \in Nat /\ Cardinality(B) \in Nat
  BY <1>7, <1>8, FS_CardinalityType
<1>10. Cardinality(A) < n
  BY <1>4, <1>8, <1>9
<1>. QED  BY <1>2, <1>10 DEF Page

-----------------------------------------------------------------------------
(* One client's stream.                                                    *)

\* What the stream sent was committed, its cursor is the greatest id of that, and
\* what is committed up to the cursor was sent or came too late.
CursorOK ==
    /\ StreamTypeOK
    /\ stream.sent \subseteq Committed
    /\ \A i \in stream.sent : i <= stream.last
    /\ stream.last = 0 \/ stream.last \in stream.sent
    /\ \A i \in Committed : i <= stream.last => i \in stream.sent \cup overtaken
    /\ stream.pc = "backfill" => stream.last = 0
    /\ stream.pc = "closed" => stream.sent \cap Ended # {}

\* A closed stream has sent a terminal event, and its cursor is not before that.
LEMMA CursorSuffices == LogOK /\ CursorOK => StreamComplete
<1>. SUFFICES ASSUME LogOK, CursorOK, stream.pc = "closed", NEW i \in BeforeEnd
              PROVE  i \in stream.sent \cup overtaken
  BY DEF StreamComplete
<1>1. PICK e \in stream.sent : e \in Ended
  BY DEF CursorOK
<1>2. i \in Committed /\ i \in Ids /\ e \in Ids
  BY <1>1 DEF Ended, BeforeEnd, Committed
<1>3. i <= e
  BY <1>1 DEF BeforeEnd
<1>4. e <= stream.last
  BY <1>1 DEF CursorOK
<1>5. stream.last \in Nat /\ i \in Nat /\ e \in Nat
  BY <1>2, MaxEventsAssumption DEF CursorOK, StreamTypeOK, Ids
<1>6. i <= stream.last
  BY <1>3, <1>4, <1>5
<1>. QED  BY <1>2, <1>6 DEF CursorOK

\* A page with an id holds every smaller one that is committed above the cursor.
IsPrefix(page) ==
    /\ page \subseteq Committed
    /\ \A j \in page, i \in Committed : stream.last < i /\ i <= j => i \in page

LEMMA PageIsPrefix ==
    ASSUME NEW S, S = {i \in Committed : i > stream.last}, NEW n \in Nat
    PROVE  IsPrefix(Page(S, n)) /\ IsPrefix(UpToEnd(Page(S, n)))
<1>1. S \in SUBSET Ids /\ Page(S, n) \subseteq Committed
  BY DEF Page, Committed
<1>2. PICK page : page = Page(S, n)
  OBVIOUS
<1>3. ASSUME NEW j \in page, NEW i \in Committed, stream.last < i, i <= j PROVE i \in page
  <2>1. i > stream.last
    BY <1>3
  <2>2. i \in S
    BY <1>3, <2>1
  <2>. QED  BY <1>1, <1>2, <1>3, <2>2, PageIsFirst
<1>4. IsPrefix(page)
  BY <1>1, <1>2, <1>3 DEF IsPrefix
<1>5. \A i \in page : i \in Nat
  BY <1>1, <1>2, MaxEventsAssumption DEF Ids, Committed
<1>6. \A j \in UpToEnd(page), i \in page : i <= j => i \in UpToEnd(page)
  BY <1>5 DEF UpToEnd
<1>7. UpToEnd(page) \subseteq page
  BY DEF UpToEnd
<1>8. IsPrefix(UpToEnd(page))
  BY <1>4, <1>6, <1>7 DEF IsPrefix
<1>. QED  BY <1>2, <1>4, <1>8

\* Such a page moves the cursor without a gap.
LEMMA SendKeeps ==
    ASSUME CursorOK, NEW page, IsPrefix(page), Send(page), UNCHANGED <<log, overtaken>>
    PROVE  CursorOK'
<1>2. PICK k : k = stream
  OBVIOUS
<1>3. PICK m : m = MaxId(page \cup {k.last})
  OBVIOUS
<1>4. page \in SUBSET Ids /\ page \subseteq Committed
  BY DEF IsPrefix, Committed
<1>5. k \in [pc : {"backfill", "tail", "closed", "gone"}, last : 0..MaxEvents, sent : SUBSET Ids]
  BY <1>2 DEF CursorOK, StreamTypeOK
<1>6. page \cup {k.last} \in SUBSET (0..MaxEvents) /\ page \cup {k.last} # {}
  <2>1. Ids \subseteq 0..MaxEvents
    BY MaxEventsAssumption DEF Ids
  <2>2. k.last \in 0..MaxEvents
    BY <1>5
  <2>3. page \subseteq 0..MaxEvents
    BY <1>4, <2>1
  <2>. QED  BY <2>2, <2>3
<1>7. m \in page \cup {k.last} /\ \A i \in page \cup {k.last} : i <= m
  BY <1>3, <1>6, MaxIdIsMax
<1>8. m \in 0..MaxEvents /\ k.last <= m
  BY <1>6, <1>7
<1>9. PICK p : p = (IF page \cap Ended # {} THEN "closed" ELSE "tail")
  OBVIOUS
<1>10. stream' = [pc |-> p, last |-> m, sent |-> k.sent \cup page]
  BY <1>2, <1>3, <1>9 DEF Send
<1>11. StreamTypeOK'
  BY <1>4, <1>5, <1>8, <1>9, <1>10 DEF CursorOK, StreamTypeOK
<1>12. Committed' = Committed /\ Ended' = Ended
  BY DEF Committed, Ended
<1>13. k.sent \cup page \subseteq Committed
  BY <1>2, <1>4 DEF CursorOK
<1>14. \A i \in k.sent \cup page : i <= m
  <2>1. ASSUME NEW i \in k.sent PROVE i <= m
    <3>1. i <= k.last /\ i \in Nat
      BY <1>2, <1>5, MaxEventsAssumption DEF CursorOK, Ids
    <3>. QED  BY <1>5, <1>8, <3>1, MaxEventsAssumption
  <2>. QED  BY <1>7, <2>1
<1>15. m = 0 \/ m \in k.sent \cup page
  BY <1>2, <1>7 DEF CursorOK
<1>16. ASSUME NEW i \in Committed, i <= m PROVE i \in (k.sent \cup page) \cup overtaken
  <2>1. CASE i <= k.last
    BY <1>2, <2>1 DEF CursorOK
  <2>2. CASE ~(i <= k.last)
    <3>1. i \in Nat /\ k.last \in Nat /\ m \in Nat
      BY <1>5, <1>8, MaxEventsAssumption DEF Committed, Ids
    <3>2. k.last < i /\ m \in page
      BY <1>7, <1>16, <2>2, <3>1
    <3>3. i \in page
      BY <1>2, <1>16, <3>2 DEF IsPrefix
    <3>. QED  BY <3>3
  <2>. QED  BY <2>1, <2>2
<1>17. p = "closed" => (k.sent \cup page) \cap Ended # {}
  BY <1>9
<1>. QED  BY <1>9, <1>10, <1>11, <1>12, <1>13, <1>14, <1>15, <1>16, <1>17 DEF CursorOK

StreamInv == LogOK /\ CursorOK

LEMMA StreamStarts == Init => StreamInv
<1>. SUFFICES ASSUME Init PROVE StreamInv
  OBVIOUS
<1>1. log = [i \in Ids |-> [state |-> "absent", kind |-> "step", stamp |-> 0]]
  BY DEF Init, LogInit
<1>2. log \in [Ids -> EventRow]
  BY <1>1 DEF EventRow, Kinds
<1>3. Issued = {} /\ Committed = {} /\ Ended = {} /\ Open = {}
  BY <1>1 DEF Issued, Committed, Ended, Open
<1>4. LogOK
  BY <1>2, <1>3 DEF LogOK
<1>5. stream.pc \in {"backfill", "gone"} /\ stream.last = 0 /\ stream.sent = {} /\ overtaken = {} /\ StreamTypeOK
  BY MaxEventsAssumption DEF Init, StreamInit, StreamTypeOK
<1>6. CursorOK
  BY <1>3, <1>5 DEF CursorOK
<1>. QED  BY <1>4, <1>6 DEF StreamInv

\* The publisher stamps events and leaves the rest of the log alone.
LEMMA PublisherKeepsLog ==
    ASSUME LogOK, Publisher
    PROVE  /\ LogOK' /\ Committed' = Committed /\ Ended' = Ended
           /\ \A i \in Ids : log'[i].kind = log[i].kind
<1>1. CASE UNCHANGED log
  BY <1>1 DEF LogOK, Issued, Committed, Ended, Open
<1>2. CASE FanOutCommit
  <2>1. log' = [i \in Ids |-> IF i \in pub.events THEN [log[i] EXCEPT !.stamp = NextStamp] ELSE log[i]]
    BY <1>2 DEF FanOutCommit
  <2>2. NextStamp \in Nat
    <3>1. PICK f : f = [i \in Ids |-> log[i].stamp]
      OBVIOUS
    <3>2. PICK T : T = {log[i].stamp : i \in Ids}
      OBVIOUS
    <3>3. f \in Surjection(Ids, T)
      BY <3>1, <3>2 DEF Surjection
    <3>4. IsFiniteSet(Ids)
      BY MaxEventsAssumption, FS_Interval DEF Ids
    <3>5. IsFiniteSet(T)
      BY <3>3, <3>4, FS_Surjection
    <3>. QED  BY <3>2, <3>5, FS_CardinalityType DEF NextStamp
  <2>3. PICK x \in Nat : x = NextStamp
    BY <2>2
  <2>4. \A i \in Ids : log'[i] = IF i \in pub.events THEN [log[i] EXCEPT !.stamp = x] ELSE log[i]
    BY <2>1, <2>3
  <2>5. \A i \in Ids : log'[i] \in EventRow /\ log'[i].state = log[i].state /\ log'[i].kind = log[i].kind
    BY <2>4 DEF LogOK, EventRow
  <2>6. log' \in [Ids -> EventRow]
    BY <2>1, <2>5
  <2>7. Issued' = Issued /\ Committed' = Committed /\ Ended' = Ended /\ Open' = Open
    BY <2>5 DEF Issued, Committed, Ended, Open
  <2>. QED  BY <2>5, <2>6, <2>7 DEF LogOK
<1>3. UNCHANGED log \/ FanOutCommit
  BY DEF Publisher, HooksNext, PublisherStep, RouterStep, FanOutRead, FanOutRefused, pending_or_due_for_retry,
         Lookup, Blocked, Post, mark_delivered, mark_abandoned, mark_retry, Finish, create, update, delete, SetHook,
         PassFails, RetryDue
<1>. QED  BY <1>1, <1>2, <1>3

LEMMA StreamStepKeeps ==
    ASSUME StreamInv, [Next]_vars
    PROVE  StreamInv'
<1>1. LogOK /\ CursorOK
  BY DEF StreamInv
<1>2. CASE Emitter
  <2>1. /\ LogOK' /\ Committed \subseteq Committed'
        /\ \A i \in Ids : i \in Committed \cup Ended => log'[i].kind = log[i].kind
        /\ \A i \in Committed' \ Committed : CommitEmit(i)
    BY <1>1, <1>2, EmitterKeepsLog DEF Emitter
  <2>2. UNCHANGED stream
    BY <1>2 DEF Emitter
  <2>3. CASE UNCHANGED overtaken /\ ~ \E i \in Ids : CommitEmit(i)
    <3>1. Committed' = Committed
      BY <2>1, <2>3 DEF Committed
    <3>2. \A i \in stream.sent : i \in Ended => i \in Ended'
      BY <1>1, <2>1 DEF Ended, CursorOK, StreamTypeOK
    <3>3. CursorOK'
      BY <1>1, <2>2, <2>3, <3>1, <3>2 DEF CursorOK, StreamTypeOK
    <3>. QED  BY <2>1, <3>3 DEF StreamInv
  <2>4. CASE \E i \in Ids : CommitEmit(i) /\ Overtakes(i)
    <3>1. PICK i \in Ids : CommitEmit(i) /\ Overtakes(i)
      BY <2>4
    <3>2. i \in Open /\ log' = [log EXCEPT ![i].state = "committed"]
      BY <3>1 DEF CommitEmit
    <3>3. Committed' = Committed \cup {i} /\ i \notin Committed
      BY <1>1, <3>1, <3>2 DEF Committed, Open, LogOK, EventRow
    <3>4. \A j \in stream.sent : j \in Ended => j \in Ended'
      BY <1>1, <2>1 DEF Ended, CursorOK, StreamTypeOK
    <3>5. overtaken' = (IF i < stream.last THEN overtaken \cup {i} ELSE overtaken)
      BY <3>1 DEF Overtakes
    <3>6. i # stream.last
      BY <1>1, <3>1, <3>3, MaxEventsAssumption DEF CursorOK, Ids
    <3>7. i \in Nat /\ stream.last \in Nat
      BY <1>1, <3>1, MaxEventsAssumption DEF CursorOK, StreamTypeOK, Ids
    <3>8. i <= stream.last => i \in overtaken'
      BY <3>5, <3>6, <3>7
    <3>9. \A j \in Committed' : j <= stream.last => j \in stream.sent \cup overtaken'
      BY <1>1, <3>3, <3>5, <3>8 DEF CursorOK
    <3>10. StreamTypeOK'
      BY <1>1, <2>2, <3>1, <3>5 DEF CursorOK, StreamTypeOK
    <3>11. CursorOK'
      BY <1>1, <2>1, <2>2, <3>4, <3>9, <3>10 DEF CursorOK
    <3>. QED  BY <2>1, <3>11 DEF StreamInv
  <2>5. CASE UNCHANGED overtaken /\ \/ \E k \in Kinds : BeginEmit(k)
                                    \/ \E i \in Ids : EmitFails(i)
    <3>1. ~ \E i \in Ids : CommitEmit(i)
      <4>1. SUFFICES ASSUME NEW i \in Ids, CommitEmit(i) PROVE FALSE
        OBVIOUS
      <4>2. log[i].state = "open" /\ log'[i].state = "committed"
        BY <1>1, <4>1 DEF CommitEmit, Open, LogOK, EventRow
      <4>3. ASSUME NEW k, BeginEmit(k) PROVE FALSE
        <5>1. PICK j \in Ids \ Issued : log' = [log EXCEPT ![j].state = "open", ![j].kind = k]
          BY <4>3 DEF BeginEmit
        <5>2. j # i
          BY <4>2, <5>1 DEF Issued
        <5>. QED  BY <1>1, <4>2, <5>1, <5>2 DEF LogOK
      <4>4. ASSUME NEW j \in Ids, EmitFails(j) PROVE FALSE
        BY <1>1, <4>2, <4>4 DEF EmitFails, LogOK, EventRow
      <4>. QED  BY <2>5, <4>3, <4>4
    <3>. QED  BY <2>3, <2>5, <3>1
  <2>. QED  BY <1>2, <2>4, <2>5 DEF Emitter
<1>3. CASE Backfill
  <2>1. stream.pc = "backfill" /\ stream.last = 0
    BY <1>1, <1>3 DEF Backfill, CursorOK
  <2>2. Committed = {i \in Committed : i > stream.last}
    BY <2>1, MaxEventsAssumption DEF Committed, Ids
  <2>3. PICK page : page = UpToEnd(Page(Committed, BackfillLimit))
    OBVIOUS
  <2>4. Send(page) /\ UNCHANGED <<log, overtaken>>
    BY <1>3, <2>3 DEF Backfill
  <2>5. IsPrefix(page)
    BY <2>2, <2>3, PageIsPrefix, LimitsAssumption
  <2>6. CursorOK'
    BY <1>1, <2>4, <2>5, SendKeeps
  <2>. QED  BY <1>1, <2>4, <2>6 DEF StreamInv, LogOK, Issued, Ended, Open
<1>4. CASE Poll
  <2>1. PICK page : page = Page(Newer, TailLimit)
    OBVIOUS
  <2>2. Send(page) /\ UNCHANGED <<log, overtaken>>
    BY <1>4, <2>1 DEF Poll
  <2>3. IsPrefix(page)
    BY <2>1, PageIsPrefix, LimitsAssumption DEF Newer
  <2>4. CursorOK'
    BY <1>1, <2>2, <2>3, SendKeeps
  <2>. QED  BY <1>1, <2>2, <2>4 DEF StreamInv, LogOK, Issued, Ended, Open
<1>5. CASE Drop
  <2>1. stream' = [pc |-> "gone", last |-> 0, sent |-> {}] /\ overtaken' = {} /\ UNCHANGED log
    BY <1>5 DEF Drop
  <2>2. \A i \in Committed : ~(i <= 0)
    BY MaxEventsAssumption DEF Committed, Ids
  <2>3. Committed' = Committed /\ StreamTypeOK'
    BY <2>1, MaxEventsAssumption DEF Committed, StreamTypeOK
  <2>4. CursorOK'
    BY <2>1, <2>2, <2>3 DEF CursorOK
  <2>. QED  BY <1>1, <2>1, <2>4 DEF StreamInv, LogOK, Issued, Ended, Open
<1>6. CASE Publisher
  <2>1. LogOK' /\ Committed' = Committed /\ Ended' = Ended
    BY <1>1, <1>6, PublisherKeepsLog
  <2>2. UNCHANGED <<stream, overtaken>>
    BY <1>6 DEF Publisher
  <2>. QED  BY <1>1, <2>1, <2>2 DEF StreamInv, CursorOK, StreamTypeOK
<1>7. CASE UNCHANGED vars
  BY <1>1, <1>7 DEF vars, StreamInv, LogOK, CursorOK, StreamTypeOK, Issued, Ended, Open, Committed
<1>. QED  BY <1>2, <1>3, <1>4, <1>5, <1>6, <1>7 DEF Next, Reader, StreamStep

\* A client whose stream closed by itself has every event of the run up to its
\* terminal one, but those that committed below an id it had already seen: the pages, the seam between
\* backfill and tail and failed emits drop nothing (api/streams.py
\* iter_run_events).
THEOREM StreamsAreComplete == Spec => []StreamComplete
<1>1. StreamInv => StreamComplete
  BY CursorSuffices DEF StreamInv
<1>. QED  BY <1>1, StreamStarts, StreamStepKeeps, PTL DEF Spec

-----------------------------------------------------------------------------
(* The webhook publisher.                                                  *)

\* The publisher holds one delivery, which it took from the pass's list.
Holding == {"post", "abandon", "delivered", "failed"}
PubRow == [pc : {"idle", "fanout", "list", "next"} \cup Holding, events : SUBSET Ids, targets : SUBSET Pairs,
           due : SUBSET Pairs, cur : {<< >>} \cup (Pairs \X (0..MaxRetries))]

\* A subscriber nobody changed wants every event; one that is active had no post
\* since it was last switched off.
HookOK(h) ==
    /\ h \notin touched => hook[h].state = "absent" \/ hook[h].wants = Kinds
    /\ latePosts[h] \in {0, 1}
    /\ hook[h].state = "active" => latePosts[h] = 0

\* What a fan-out read is still unprocessed, and it read every steady subscriber.
FanOutOK ==
    pub.pc = "fanout" =>
        /\ pub.events # {} /\ \A i \in pub.events : i \in Committed /\ log[i].stamp = 0
        /\ \A d \in pub.targets : d[2] \in pub.events
        /\ \A h \in Hooks, i \in pub.events : Steady(h) => <<h, i>> \in pub.targets

\* A pending delivery was posted once for each retry it counts, and once more when
\* its answer is not recorded yet; more often only if a pass was cut short.
Posted(d) == pub.pc \in {"delivered", "failed"} /\ pub.cur[1] = d
DeliveryOK(d) ==
    /\ ledger[d].status = "none" => posts[d] = 0
    /\ ledger[d].status = "pending" /\ ~Posted(d) => posts[d] >= ledger[d].retry
    /\ ledger[d].status = "pending" /\ Posted(d) => posts[d] >= ledger[d].retry + 1
    /\ passFails = 0 =>
         /\ ledger[d].status = "pending" /\ ~Posted(d) => posts[d] <= ledger[d].retry
         /\ ledger[d].status = "pending" /\ Posted(d) => posts[d] <= ledger[d].retry + 1
         /\ posts[d] <= MaxRetries + 1
    /\ ledger[d].status = "delivered" => d \in acked
    /\ ledger[d].status = "abandoned" /\ Steady(d[1]) => posts[d] > MaxRetries

\* What the pass lists, and what it holds, is pending; what it is about to give up
\* belongs to a subscriber that was changed or refused.
PassOK ==
    /\ pub \in PubRow
    /\ \A d \in pub.due : ledger[d].status = "pending"
    /\ pub.pc \in {"idle", "fanout", "list"} => pub.due = {}
    /\ pub.pc \in Holding =>
         /\ pub.cur \in Pairs \X (0..MaxRetries)
         /\ pub.cur[1] \notin pub.due /\ ledger[pub.cur[1]].status = "pending"
         /\ pub.cur[2] = ledger[pub.cur[1]].retry
    /\ pub.pc = "post" => latePosts[pub.cur[1][1]] = 0
    /\ pub.pc = "abandon" => ~Steady(pub.cur[1][1])
    /\ pub.pc = "delivered" => pub.cur[1] \in acked

PublisherOK ==
    /\ HooksTypeOK /\ passFails \in Nat /\ updates \in Nat
    /\ FannedOut /\ FanOutOK /\ PassOK
    /\ \A h \in Hooks : HookOK(h)
    /\ \A d \in Pairs : DeliveryOK(d)

LEMMA PublisherSuffices == PublisherOK => DeliveriesKept
<1>. SUFFICES ASSUME PublisherOK PROVE DeliveriesKept
  OBVIOUS
<1>1. FullSchedule
  BY DEF PublisherOK, DeliveryOK, FullSchedule
<1>2. OnePostAfterDisable
  <2>1. \A h \in Hooks : latePosts[h] \in {0, 1}
    BY DEF PublisherOK, HookOK
  <2>. QED  BY <2>1 DEF OnePostAfterDisable
<1>. QED  BY <1>1, <1>2 DEF PublisherOK, DeliveriesKept

\* A webhook is created, changed or deleted.
LEMMA RouterKeeps ==
    ASSUME LogOK, PublisherOK, RouterStep
    PROVE  PublisherOK'
<1>1. PICK h \in Hooks, row \in HookRow :
        /\ SetHook(h, row)
        /\ row.state \in {"absent", "deleted"} => \A i \in Ids : ledger[<<h, i>>].status = "none"
  <2>1. PICK h \in Hooks : create(h) \/ update(h) \/ delete(h)
    BY DEF RouterStep
  <2>2. CASE create(h)
    <3>1. PICK f \in {{"end"}, Kinds} : SetHook(h, [state |-> "active", wants |-> f])
      BY <2>2 DEF create
    <3>2. PICK row : row = [state |-> "active", wants |-> f]
      OBVIOUS
    <3>3. row \in HookRow /\ row.state = "active" /\ SetHook(h, row)
      BY <3>1, <3>2 DEF HookRow
    <3>. QED  BY <3>3
  <2>3. CASE update(h)
    BY <2>3 DEF update
  <2>4. CASE delete(h)
    <3>1. PICK row : row = [hook[h] EXCEPT !.state = "deleted"]
      OBVIOUS
    <3>2. row \in HookRow /\ SetHook(h, row)
      BY <2>4, <3>1 DEF delete, PublisherOK, HooksTypeOK, HookRow
    <3>3. \A i \in Ids : ledger[<<h, i>>].status = "none"
      BY <2>4 DEF delete
    <3>. QED  BY <3>2, <3>3
  <2>. QED  BY <2>1, <2>2, <2>3, <2>4
<1>2. /\ updates' = updates + 1 /\ hook' = [hook EXCEPT ![h] = row] /\ touched' = touched \cup {h}
      /\ latePosts' = [latePosts EXCEPT ![h] = 0] /\ UNCHANGED <<log, ledger, pub, acked, posts, passFails>>
  BY <1>1 DEF SetHook
<1>3. hook' \in [Hooks -> HookRow] /\ \A g \in Hooks : g # h => hook'[g] = hook[g]
  BY <1>2 DEF PublisherOK, HooksTypeOK
<1>4. latePosts' \in [Hooks -> 0..2] /\ latePosts'[h] = 0 /\ \A g \in Hooks : g # h => latePosts'[g] = latePosts[g]
  BY <1>2 DEF PublisherOK, HooksTypeOK
<1>5. \A g \in Hooks : Steady(g)' => Steady(g)
  BY <1>2, <1>3 DEF Steady
<1>6. HooksTypeOK'
  BY <1>2, <1>3, <1>4 DEF PublisherOK, HooksTypeOK
<1>7. \A d \in Pairs : d[1] \in Hooks /\ d[2] \in Ids /\ d = <<d[1], d[2]>>
  BY DEF Pairs
<1>8. FannedOut'
  BY <1>2, <1>5 DEF PublisherOK, FannedOut, Committed
<1>9. FanOutOK'
  BY <1>2, <1>5 DEF PublisherOK, FanOutOK, Committed
<1>10. PassOK'
  <2>1. pub.pc \in Holding => pub.cur[1] \in Pairs
    BY DEF PublisherOK, PassOK
  <2>2. pub.pc = "post" => latePosts'[pub.cur[1][1]] = 0
    BY <1>4, <1>7, <2>1 DEF PublisherOK, PassOK, Holding
  <2>3. pub.pc = "abandon" => ~Steady(pub.cur[1][1])'
    BY <1>2, <1>5, <1>7, <2>1 DEF PublisherOK, PassOK, Holding
  <2>. QED  BY <1>2, <2>2, <2>3 DEF PublisherOK, PassOK
<1>11. \A g \in Hooks : HookOK(g)'
  BY <1>2, <1>3, <1>4 DEF PublisherOK, HookOK
<1>12. \A d \in Pairs : DeliveryOK(d)'
  BY <1>2, <1>5, <1>7 DEF PublisherOK, DeliveryOK, Posted
<1>13. updates' \in Nat
  BY <1>2 DEF PublisherOK
<1>. QED  BY <1>2, <1>6, <1>8, <1>9, <1>10, <1>11, <1>12, <1>13 DEF PublisherOK

\* The fan-out: what it reads, and what it commits.
LEMMA FanOutKeeps ==
    ASSUME LogOK, PublisherOK, FanOutRead \/ FanOutCommit \/ FanOutRefused
    PROVE  PublisherOK'
<1>1. PICK k : k = pub
  OBVIOUS
<1>2. k \in PubRow /\ k = pub
  BY <1>1 DEF PublisherOK, PassOK
<1>3. \A d \in Pairs : d[1] \in Hooks /\ d[2] \in Ids /\ d = <<d[1], d[2]>>
  BY DEF Pairs
<1>4. CASE FanOutRead
  <2>1. PICK E : E = Page(Unprocessed, FanOutBatch)
    OBVIOUS
  <2>2. PICK T : T = {d \in Pairs : hook[d[1]].state = "active" /\ d[2] \in E /\ _matches(d[1], d[2])}
    OBVIOUS
  <2>3. PICK p : p = (IF E = {} THEN "list" ELSE "fanout")
    OBVIOUS
  <2>4. pub' = [k EXCEPT !.pc = p, !.events = E, !.targets = T]
    BY <1>1, <1>4, <2>1, <2>2, <2>3 DEF FanOutRead
  <2>5. k.pc = "idle" /\ UNCHANGED <<log, hook, ledger, acked, posts, touched, latePosts, updates, passFails>>
    BY <1>1, <1>4 DEF FanOutRead, counts
  <2>6. \A i \in E : i \in Ids /\ i \in Committed /\ log[i].stamp = 0
    BY <2>1 DEF Page, Unprocessed, Committed
  <2>7. pub' \in PubRow /\ pub'.pc = p /\ pub'.events = E /\ pub'.targets = T /\ pub'.due = k.due
    <3>1. E \in SUBSET Ids /\ T \in SUBSET Pairs /\ p \in {"list", "fanout"}
      BY <2>2, <2>3, <2>6
    <3>. QED  BY <1>2, <2>4, <3>1 DEF PubRow
  <2>8. PassOK'
    BY <1>1, <2>3, <2>5, <2>7 DEF PublisherOK, PassOK, Holding
  <2>9. FanOutOK'
    <3>1. ASSUME NEW h \in Hooks, NEW i \in E, Steady(h) PROVE <<h, i>> \in T
      <4>1. hook[h].state = "active" /\ hook[h].wants = Kinds
        BY <3>1 DEF Steady, PublisherOK, HookOK
      <4>2. i \in Ids /\ log[i].kind \in Kinds
        BY <2>6 DEF LogOK, EventRow
      <4>3. PICK d : d = <<h, i>>
        OBVIOUS
      <4>4. d \in Pairs /\ d[1] = h /\ d[2] = i
        BY <4>2, <4>3 DEF Pairs
      <4>5. _matches(d[1], d[2])
        BY <4>1, <4>2, <4>4 DEF _matches
      <4>. QED  BY <2>2, <4>1, <4>3, <4>4, <4>5
    <3>2. p = "fanout" => E # {}
      BY <2>3
    <3>3. \A d \in T : d[2] \in E
      BY <2>2
    <3>. QED  BY <2>5, <2>6, <2>7, <3>1, <3>2, <3>3 DEF FanOutOK, Committed, Steady
  <2>10. \A d \in Pairs : DeliveryOK(d)'
    BY <1>1, <2>3, <2>5, <2>7 DEF PublisherOK, DeliveryOK, Posted, Steady
  <2>11. FannedOut' /\ HooksTypeOK' /\ \A h \in Hooks : HookOK(h)'
    BY <2>5 DEF PublisherOK, FannedOut, HooksTypeOK, HookOK, Steady, Committed
  <2>. QED  BY <2>5, <2>8, <2>9, <2>10, <2>11 DEF PublisherOK
<1>5. CASE FanOutCommit
  <2>1. /\ k.pc = "fanout" /\ UNCHANGED <<hook, acked, posts, touched, latePosts, updates, passFails>>
        /\ log' = [i \in Ids |-> IF i \in k.events THEN [log[i] EXCEPT !.stamp = NextStamp] ELSE log[i]]
        /\ ledger' = [d \in Pairs |-> IF d \in k.targets THEN NewDelivery ELSE ledger[d]]
        /\ pub' = [IdlePub EXCEPT !.pc = "list"]
    BY <1>1, <1>5 DEF FanOutCommit, counts
  <2>2. /\ k.events # {} /\ \A i \in k.events : i \in Committed /\ i \in Ids /\ log[i].stamp = 0
        /\ \A d \in k.targets : d \in Pairs /\ d[2] \in k.events
        /\ \A h \in Hooks, i \in k.events : Steady(h) => <<h, i>> \in k.targets
    BY <1>1, <1>2, <2>1 DEF PublisherOK, FanOutOK, PubRow
  <2>3. NextStamp # 0
    <3>1. PICK f : f = [i \in Ids |-> log[i].stamp]
      OBVIOUS
    <3>2. PICK T : T = {log[i].stamp : i \in Ids}
      OBVIOUS
    <3>3. f \in Surjection(Ids, T)
      BY <3>1, <3>2 DEF Surjection
    <3>4. IsFiniteSet(Ids)
      BY MaxEventsAssumption, FS_Interval DEF Ids
    <3>5. IsFiniteSet(T)
      BY <3>3, <3>4, FS_Surjection
    <3>6. T # {}
      BY <2>2, <3>2
    <3>7. Cardinality(T) # 0
      BY <3>5, <3>6, FS_EmptySet
    <3>. QED  BY <3>2, <3>7 DEF NextStamp
  <2>4. PICK x : x = NextStamp
    OBVIOUS
  <2>5. \A i \in Ids : log[i] \in EventRow
    BY DEF LogOK
  <2>6. \A i \in Ids : log'[i] = IF i \in k.events THEN [log[i] EXCEPT !.stamp = x] ELSE log[i]
    BY <2>1, <2>4
  <2>7. \A i \in Ids : log'[i].state = log[i].state /\ (i \notin k.events => log'[i].stamp = log[i].stamp)
        /\ (i \in k.events => log'[i].stamp = x)
    BY <2>5, <2>6 DEF EventRow
  <2>8. Committed' = Committed
    BY <2>7 DEF Committed
  <2>9. \A d \in Pairs : ledger'[d] = IF d \in k.targets THEN NewDelivery ELSE ledger[d]
    BY <2>1
  <2>10. \A d \in k.targets : ledger[d].status = "none"
    BY <2>2 DEF PublisherOK, FannedOut
  <2>11. pub' = [pc |-> "list", events |-> {}, targets |-> {}, due |-> {}, cur |-> << >>]
    BY <2>1 DEF IdlePub
  <2>12. NewDelivery.status = "pending" /\ NewDelivery.retry = 0 /\ NewDelivery \in Delivery
    BY HookBounds DEF NewDelivery, Delivery
  <2>13. PassOK'
    <3>1. pub' \in PubRow
      BY <2>11 DEF PubRow
    <3>. QED  BY <2>11, <3>1 DEF PassOK, Holding
  <2>14. FanOutOK'
    BY <2>11 DEF FanOutOK
  <2>15. FannedOut'
    <3>1. ASSUME NEW i \in Ids, NEW h \in Hooks, Steady(h), log'[i].stamp # 0
          PROVE  ledger'[<<h, i>>].status # "none"
      <4>1. <<h, i>> \in Pairs
        BY DEF Pairs
      <4>2. CASE i \in k.events
        BY <2>2, <2>9, <2>12, <3>1, <4>1, <4>2
      <4>3. CASE i \notin k.events
        <5>1. ledger[<<h, i>>].status # "none"
          BY <2>7, <3>1, <4>3 DEF PublisherOK, FannedOut
        <5>. QED  BY <2>9, <2>12, <4>1, <5>1
      <4>. QED  BY <4>2, <4>3
    <3>2. ASSUME NEW d \in Pairs, ledger'[d].status # "none"
          PROVE  d[2] \in Committed /\ log'[d[2]].stamp # 0
      <4>1. CASE d \in k.targets
        BY <2>2, <2>3, <2>4, <2>7, <4>1
      <4>2. CASE d \notin k.targets
        <5>1. d[2] \in Committed /\ log[d[2]].stamp # 0 /\ d[2] \in Ids
          BY <1>3, <2>9, <3>2, <4>2 DEF PublisherOK, FannedOut
        <5>. QED  BY <2>2, <2>7, <5>1
      <4>. QED  BY <4>1, <4>2
    <3>. QED  BY <2>1, <2>8, <3>1, <3>2 DEF FannedOut, Steady
  <2>16. HooksTypeOK'
    <3>1. ledger' \in [Pairs -> Delivery]
      BY <2>1, <2>12 DEF PublisherOK, HooksTypeOK
    <3>. QED  BY <2>1, <3>1 DEF PublisherOK, HooksTypeOK
  <2>17. \A d \in Pairs : DeliveryOK(d)'
    <3>1. ASSUME NEW d \in Pairs PROVE DeliveryOK(d)'
      <4>1. ~Posted(d) /\ ~Posted(d)'
        BY <1>1, <2>1, <2>11 DEF Posted
      <4>2. CASE d \in k.targets
        <5>1. posts[d] = 0 /\ 0 <= MaxRetries + 1
          BY <2>10, <4>2, HookBounds DEF PublisherOK, DeliveryOK
        <5>. QED  BY <2>1, <2>9, <2>12, <4>1, <4>2, <5>1 DEF DeliveryOK
      <4>3. CASE d \notin k.targets
        <5>1. ledger'[d] = ledger[d]
          BY <2>9, <4>3
        <5>. QED  BY <2>1, <4>1, <5>1 DEF PublisherOK, DeliveryOK, Steady
      <4>. QED  BY <4>2, <4>3
    <3>. QED  BY <3>1
  <2>18. \A h \in Hooks : HookOK(h)'
    BY <2>1 DEF PublisherOK, HookOK
  <2>. QED  BY <2>1, <2>13, <2>14, <2>15, <2>16, <2>17, <2>18 DEF PublisherOK
<1>6. CASE FanOutRefused
  <2>1. k.pc = "fanout" /\ UNCHANGED <<log, hook, ledger, acked, posts, touched, latePosts, updates, passFails>>
        /\ pub' = [pc |-> "idle", events |-> {}, targets |-> {}, due |-> {}, cur |-> << >>]
    BY <1>1, <1>6 DEF FanOutRefused, counts, IdlePub
  <2>2. PassOK' /\ FanOutOK'
    <3>1. pub' \in PubRow
      BY <2>1 DEF PubRow
    <3>. QED  BY <2>1, <3>1 DEF PassOK, Holding, FanOutOK
  <2>3. \A d \in Pairs : DeliveryOK(d)'
    BY <1>1, <2>1 DEF PublisherOK, DeliveryOK, Posted, Steady
  <2>4. FannedOut' /\ HooksTypeOK' /\ \A h \in Hooks : HookOK(h)'
    BY <2>1 DEF PublisherOK, FannedOut, HooksTypeOK, HookOK, Steady, Committed
  <2>. QED  BY <2>1, <2>2, <2>3, <2>4 DEF PublisherOK
<1>. QED  BY <1>4, <1>5, <1>6

\* The list of a pass, the time that passes, and a pass that is cut short.
LEMMA PassKeeps ==
    ASSUME PublisherOK, pending_or_due_for_retry \/ PassFails \/ \E d \in Pairs : RetryDue(d)
    PROVE  PublisherOK'
<1>1. PICK k : k = pub
  OBVIOUS
<1>2. k \in PubRow
  BY <1>1 DEF PublisherOK, PassOK
<1>3. CASE pending_or_due_for_retry
  <2>1. PICK D \in SUBSET DueNow : pub' = [pub EXCEPT !.pc = IF D = {} THEN "idle" ELSE "next", !.due = D]
    BY <1>3 DEF pending_or_due_for_retry
  <2>2. PICK p \in {"idle", "next"} : p = (IF D = {} THEN "idle" ELSE "next")
    OBVIOUS
  <2>3. pub' = [k EXCEPT !.pc = p, !.due = D]
    BY <1>1, <2>1, <2>2
  <2>4. k.pc = "list" /\ UNCHANGED <<log, hook, ledger, acked, posts, touched, latePosts, updates, passFails>>
    BY <1>1, <1>3 DEF pending_or_due_for_retry, counts
  <2>5. \A d \in D : d \in Pairs /\ ledger[d].status = "pending"
    BY DEF DueNow
  <2>6. pub' \in PubRow /\ pub'.pc = p /\ pub'.due = D
    BY <1>2, <2>3, <2>5 DEF PubRow
  <2>7. PassOK'
    BY <2>2, <2>4, <2>5, <2>6 DEF PassOK, Holding
  <2>8. FanOutOK'
    BY <2>6 DEF FanOutOK
  <2>9. \A d \in Pairs : DeliveryOK(d)'
    BY <1>1, <2>4, <2>6 DEF PublisherOK, DeliveryOK, Posted, Steady
  <2>10. FannedOut' /\ HooksTypeOK' /\ \A h \in Hooks : HookOK(h)'
    BY <2>4 DEF PublisherOK, FannedOut, HooksTypeOK, HookOK, Steady, Committed
  <2>. QED  BY <2>4, <2>7, <2>8, <2>9, <2>10 DEF PublisherOK
<1>4. CASE PassFails
  <2>1. /\ UNCHANGED <<log, hook, ledger, acked, posts, touched, latePosts, updates>> /\ passFails' = passFails + 1
        /\ pub' = [pc |-> "idle", events |-> {}, targets |-> {}, due |-> {}, cur |-> << >>]
    BY <1>4 DEF PassFails, IdlePub
  <2>2. passFails' \in Nat /\ passFails' # 0
    BY <2>1 DEF PublisherOK
  <2>3. PassOK' /\ FanOutOK'
    <3>1. pub' \in PubRow
      BY <2>1 DEF PubRow
    <3>. QED  BY <2>1, <3>1 DEF PassOK, Holding, FanOutOK
  <2>4. \A d \in Pairs : DeliveryOK(d)'
    <3>1. ASSUME NEW d \in Pairs PROVE DeliveryOK(d)'
      <4>1. ledger[d].retry \in Nat /\ posts[d] \in Nat
        BY HookBounds DEF PublisherOK, HooksTypeOK, Delivery
      <4>2. ~Posted(d)'
        BY <2>1 DEF Posted
      <4>. QED  BY <2>1, <2>2, <4>1, <4>2 DEF PublisherOK, DeliveryOK, Steady
    <3>. QED  BY <3>1
  <2>5. FannedOut' /\ HooksTypeOK' /\ \A h \in Hooks : HookOK(h)'
    BY <2>1 DEF PublisherOK, FannedOut, HooksTypeOK, HookOK, Steady, Committed
  <2>. QED  BY <2>1, <2>2, <2>3, <2>4, <2>5 DEF PublisherOK
<1>5. CASE \E d \in Pairs : RetryDue(d)
  <2>1. PICK d \in Pairs : ledger[d].status = "pending" /\ ledger' = [ledger EXCEPT ![d].due = TRUE]
        /\ UNCHANGED <<log, hook, pub, acked, posts, touched, latePosts, updates, passFails>>
    BY <1>5 DEF RetryDue, counts
  <2>2. ledger \in [Pairs -> Delivery]
    BY DEF PublisherOK, HooksTypeOK
  <2>3. ledger' \in [Pairs -> Delivery] /\ \A e \in Pairs : ledger'[e].status = ledger[e].status /\ ledger'[e].retry = ledger[e].retry
    BY <2>1, <2>2 DEF Delivery
  <2>4. HooksTypeOK'
    BY <2>1, <2>3 DEF PublisherOK, HooksTypeOK
  <2>5. FannedOut'
    <3>1. \A i \in Ids, h \in Hooks : <<h, i>> \in Pairs
      BY DEF Pairs
    <3>. QED  BY <2>1, <2>3, <3>1 DEF PublisherOK, FannedOut, Steady, Committed
  <2>6. FanOutOK' /\ \A h \in Hooks : HookOK(h)'
    BY <2>1 DEF PublisherOK, FanOutOK, HookOK, Steady, Committed
  <2>7. PassOK'
    <3>1. pub.due \subseteq Pairs
      BY <1>1, <1>2 DEF PubRow
    <3>2. pub.pc \in Holding => pub.cur[1] \in Pairs
      BY DEF PublisherOK, PassOK
    <3>. QED  BY <2>1, <2>3, <3>1, <3>2 DEF PublisherOK, PassOK, Steady
  <2>8. \A e \in Pairs : DeliveryOK(e)'
    BY <2>1, <2>3 DEF PublisherOK, DeliveryOK, Posted, Steady
  <2>. QED  BY <2>1, <2>4, <2>5, <2>6, <2>7, <2>8 DEF PublisherOK
<1>. QED  BY <1>3, <1>4, <1>5

\* attempt_delivery takes a delivery of the list.
LEMMA TakeKeeps ==
    ASSUME PublisherOK, NEW d \in pub.due, NEW p \in {"post", "abandon"}, Take(d, p),
           p = "post" => hook[d[1]].state = "active", p = "abandon" => hook[d[1]].state # "active" \/ d[1] \in touched',
           touched \subseteq touched', touched' \subseteq Hooks, updates' \in Nat,
           UNCHANGED <<log, hook, ledger, acked, posts, latePosts, passFails>>
    PROVE  PublisherOK'
<1>1. PICK k : k = pub
  OBVIOUS
<1>2. k \in PubRow /\ k.pc = "next" /\ d \in k.due
  BY <1>1 DEF PublisherOK, PassOK, Take
<1>3. d \in Pairs /\ d[1] \in Hooks /\ ledger[d].status = "pending" /\ ledger[d].retry \in 0..MaxRetries
  <2>1. d \in Pairs
    BY <1>2 DEF PubRow
  <2>. QED  BY <2>1 DEF PublisherOK, PassOK, HooksTypeOK, Delivery, Pairs
<1>4. PICK r \in 0..MaxRetries : r = ledger[d].retry
  BY <1>3
<1>5. PICK c : c = <<d, r>>
  OBVIOUS
<1>6. c \in Pairs \X (0..MaxRetries) /\ c[1] = d /\ c[2] = r
  BY <1>3, <1>5
<1>7. PICK D : D = k.due \ {d}
  OBVIOUS
<1>8. pub' = [k EXCEPT !.pc = p, !.due = D, !.cur = c]
  BY <1>1, <1>4, <1>5, <1>7 DEF Take
<1>9. pub' \in PubRow /\ pub'.pc = p /\ pub'.due = D /\ pub'.cur = c
  <2>1. PICK o : o = [k EXCEPT !.pc = p, !.due = D]
    OBVIOUS
  <2>2. o \in PubRow /\ o.pc = p /\ o.due = D
    BY <1>2, <1>7, <2>1 DEF PubRow, Holding
  <2>3. pub' = [o EXCEPT !.cur = c]
    BY <1>8, <2>1
  <2>. QED  BY <1>6, <2>2, <2>3 DEF PubRow
<1>10. \A h \in Hooks : Steady(h)' => Steady(h)
  BY DEF Steady
<1>11. PassOK'
  <2>1. \A e \in D : ledger[e].status = "pending" /\ e # d
    BY <1>1, <1>7 DEF PublisherOK, PassOK
  <2>2. p = "post" => latePosts[d[1]] = 0
    BY <1>3 DEF PublisherOK, HookOK
  <2>3. p = "abandon" => ~Steady(d[1])'
    BY <1>3 DEF Steady
  <2>4. d \notin D
    BY <1>7
  <2>. QED  BY <1>3, <1>4, <1>6, <1>9, <2>1, <2>2, <2>3, <2>4 DEF PassOK, Holding
<1>12. FanOutOK'
  BY <1>9 DEF FanOutOK
<1>13. HooksTypeOK'
  BY DEF PublisherOK, HooksTypeOK
<1>14. FannedOut'
  BY <1>10 DEF PublisherOK, FannedOut, Committed
<1>15. \A h \in Hooks : HookOK(h)'
  BY DEF PublisherOK, HookOK
<1>16. \A e \in Pairs : DeliveryOK(e)'
  <2>1. \A e \in Pairs : ~Posted(e) /\ ~Posted(e)'
    BY <1>1, <1>2, <1>9 DEF Posted
  <2>2. \A e \in Pairs : e[1] \in Hooks
    BY DEF Pairs
  <2>. QED  BY <1>10, <2>1, <2>2 DEF PublisherOK, DeliveryOK
<1>. QED  BY <1>11, <1>12, <1>13, <1>14, <1>15, <1>16 DEF PublisherOK

LEMMA LookupKeeps ==
    ASSUME PublisherOK, Lookup \/ Blocked
    PROVE  PublisherOK'
<1>1. CASE Lookup
  <2>1. PICK d \in pub.due : Take(d, IF hook[d[1]].state = "active" THEN "post" ELSE "abandon")
    BY <1>1 DEF Lookup
  <2>2. PICK p \in {"post", "abandon"} : p = (IF hook[d[1]].state = "active" THEN "post" ELSE "abandon")
    OBVIOUS
  <2>3. Take(d, p) /\ UNCHANGED <<log, hook, ledger, acked, posts, touched, latePosts, updates, passFails>>
    BY <1>1, <2>1, <2>2 DEF Lookup, counts
  <2>4. touched \subseteq Hooks /\ updates \in Nat
    BY DEF PublisherOK, HooksTypeOK
  <2>. QED  BY <2>2, <2>3, <2>4, TakeKeeps
<1>2. CASE Blocked
  <2>1. PICK d \in pub.due : Take(d, "abandon") /\ touched' = touched \cup {d[1]}
    BY <1>2 DEF Blocked
  <2>2. UNCHANGED <<log, hook, ledger, acked, posts, latePosts, passFails>> /\ updates' = updates + 1
    BY <1>2 DEF Blocked
  <2>3. d \in Pairs
    BY DEF PublisherOK, PassOK, PubRow
  <2>4. touched' \subseteq Hooks /\ updates' \in Nat
    BY <2>1, <2>2, <2>3 DEF PublisherOK, HooksTypeOK, Pairs
  <2>. QED  BY <2>1, <2>2, <2>4, TakeKeeps
<1>. QED  BY <1>1, <1>2

\* The post, and what its answer means for the late posts of its subscriber.
LEMMA PostKeeps ==
    ASSUME PublisherOK, Post
    PROVE  PublisherOK'
<1>1. PICK k : k = pub
  OBVIOUS
<1>2. k \in PubRow /\ k.pc = "post" /\ k.cur \in Pairs \X (0..MaxRetries)
  BY <1>1 DEF PublisherOK, PassOK, Post, Holding
<1>3. PICK d \in Pairs : d = k.cur[1]
  BY <1>2
<1>4. d[1] \in Hooks /\ d \notin k.due /\ ledger[d].status = "pending" /\ k.cur[2] = ledger[d].retry
      /\ latePosts[d[1]] = 0
  <2>1. d[1] \in Hooks
    BY DEF Pairs
  <2>. QED  BY <1>1, <1>2, <1>3, <2>1 DEF PublisherOK, PassOK, Holding
<1>5. PICK ok \in BOOLEAN :
        /\ acked' = IF ok THEN acked \cup {d} ELSE acked
        /\ posts' = [posts EXCEPT ![d] = @ + 1]
        /\ latePosts' = [latePosts EXCEPT ![d[1]] = IF hook[d[1]].state # "active" /\ @ < 2 THEN @ + 1 ELSE @]
        /\ pub' = [pub EXCEPT !.pc = IF ok THEN "delivered" ELSE "failed"]
  BY <1>1, <1>3 DEF Post
<1>6. UNCHANGED <<log, hook, ledger, touched, updates, passFails>>
  BY DEF Post
<1>7. PICK p \in {"delivered", "failed"} : p = IF ok THEN "delivered" ELSE "failed"
  OBVIOUS
<1>8. pub' = [k EXCEPT !.pc = p]
  BY <1>1, <1>5, <1>7
<1>9. pub' \in PubRow /\ pub'.pc = p /\ pub'.due = k.due /\ pub'.cur = k.cur
  BY <1>2, <1>8 DEF PubRow, Holding
<1>10. posts' \in [Pairs -> Nat] /\ posts'[d] = posts[d] + 1 /\ \A e \in Pairs : e # d => posts'[e] = posts[e]
  BY <1>5 DEF PublisherOK, HooksTypeOK
<1>11. /\ latePosts' \in [Hooks -> 0..2]
       /\ latePosts'[d[1]] = IF hook[d[1]].state # "active" THEN 1 ELSE 0
       /\ \A h \in Hooks : h # d[1] => latePosts'[h] = latePosts[h]
  BY <1>4, <1>5 DEF PublisherOK, HooksTypeOK
<1>12. acked \subseteq acked' /\ acked' \subseteq Pairs /\ (p = "delivered" => d \in acked')
  BY <1>5, <1>7 DEF PublisherOK, HooksTypeOK
<1>13. HooksTypeOK'
  BY <1>6, <1>10, <1>11, <1>12 DEF PublisherOK, HooksTypeOK
<1>14. PassOK'
  BY <1>1, <1>2, <1>3, <1>4, <1>6, <1>9, <1>12 DEF PublisherOK, PassOK, Holding
<1>15. FanOutOK'
  BY <1>9 DEF FanOutOK
<1>16. FannedOut'
  BY <1>6 DEF PublisherOK, FannedOut, Committed, Steady
<1>17. \A h \in Hooks : HookOK(h)'
  BY <1>6, <1>11 DEF PublisherOK, HookOK
<1>18. \A e \in Pairs : DeliveryOK(e)'
  <2>1. ASSUME NEW e \in Pairs, e # d PROVE DeliveryOK(e)'
    <3>1. ~Posted(e) /\ ~Posted(e)'
      BY <1>1, <1>2, <1>3, <1>9, <2>1 DEF Posted
    <3>. QED  BY <1>6, <1>10, <1>12, <2>1, <3>1 DEF PublisherOK, DeliveryOK, Steady
  <2>2. DeliveryOK(d)'
    <3>1. ~Posted(d) /\ Posted(d)'
      BY <1>1, <1>2, <1>3, <1>9 DEF Posted
    <3>2. ledger[d].retry \in Nat /\ ledger[d].retry <= MaxRetries /\ posts[d] \in Nat
      BY HookBounds DEF PublisherOK, HooksTypeOK, Delivery
    <3>3. posts[d] >= ledger[d].retry /\ (passFails = 0 => posts[d] <= ledger[d].retry)
      BY <1>4, <3>1 DEF PublisherOK, DeliveryOK
    <3>4. posts'[d] >= ledger[d].retry + 1 /\ (passFails = 0 => posts'[d] <= ledger[d].retry + 1 /\ posts'[d] <= MaxRetries + 1)
      BY <1>10, <3>2, <3>3, HookBounds
    <3>. QED  BY <1>4, <1>6, <3>1, <3>4 DEF DeliveryOK
  <2>. QED  BY <2>1, <2>2
<1>. QED  BY <1>6, <1>13, <1>14, <1>15, <1>16, <1>17, <1>18 DEF PublisherOK

\* What attempt_delivery records of the delivery it holds.
LEMMA MarkKeeps ==
    ASSUME PublisherOK, pub.pc \in {"delivered", "failed", "abandon"}, NEW d, d = pub.cur[1], NEW v \in Delivery,
           ledger' = [ledger EXCEPT ![d] = v], Continue, UNCHANGED <<log, hook, counts>>,
           v.status # "none",
           v.status = "pending" => pub.pc = "failed" /\ v.retry = ledger[d].retry + 1,
           v.status = "delivered" => d \in acked,
           v.status = "abandoned" => pub.pc = "abandon" \/ (pub.pc = "failed" /\ ledger[d].retry >= MaxRetries)
    PROVE  PublisherOK'
<1>1. PICK k : k = pub
  OBVIOUS
<1>2. k \in PubRow /\ d \in Pairs /\ d \notin k.due /\ ledger[d].status = "pending" /\ d[1] \in Hooks
  BY <1>1 DEF PublisherOK, PassOK, Holding, Pairs
<1>3. UNCHANGED <<acked, posts, touched, latePosts, updates, passFails>>
  BY DEF counts
<1>4. PICK p \in {"idle", "next"} : p = IF k.due = {} THEN "idle" ELSE "next"
  OBVIOUS
<1>5. pub' = [k EXCEPT !.pc = p, !.cur = << >>]
  BY <1>1, <1>4 DEF Continue
<1>6. pub' \in PubRow /\ pub'.pc = p /\ pub'.due = k.due
  <2>1. PICK o : o = [k EXCEPT !.pc = p]
    OBVIOUS
  <2>2. o \in PubRow /\ o.pc = p /\ o.due = k.due
    BY <1>2, <2>1 DEF PubRow
  <2>3. pub' = [o EXCEPT !.cur = << >>]
    BY <1>5, <2>1
  <2>. QED  BY <2>2, <2>3 DEF PubRow
<1>7. ledger' \in [Pairs -> Delivery] /\ ledger'[d] = v /\ \A e \in Pairs : e # d => ledger'[e] = ledger[e]
  BY <1>2 DEF PublisherOK, HooksTypeOK
<1>8. HooksTypeOK'
  BY <1>3, <1>7 DEF PublisherOK, HooksTypeOK
<1>9. PassOK'
  <2>1. \A e \in k.due : e \in Pairs /\ e # d /\ ledger[e].status = "pending"
    BY <1>1, <1>2 DEF PublisherOK, PassOK, PubRow
  <2>2. p = "idle" => k.due = {}
    BY <1>4
  <2>. QED  BY <1>6, <1>7, <2>1, <2>2 DEF PassOK, Holding
<1>10. FanOutOK'
  BY <1>6 DEF FanOutOK
<1>11. FannedOut'
  <2>1. \A i \in Ids, h \in Hooks : <<h, i>> \in Pairs
    BY DEF Pairs
  <2>2. \A e \in Pairs : ledger'[e].status = "none" <=> ledger[e].status = "none"
    BY <1>2, <1>7
  <2>. QED  BY <1>3, <2>1, <2>2 DEF PublisherOK, FannedOut, Committed, Steady
<1>12. \A h \in Hooks : HookOK(h)'
  BY <1>3 DEF PublisherOK, HookOK
<1>13. \A e \in Pairs : DeliveryOK(e)'
  <2>1. ASSUME NEW e \in Pairs, e # d PROVE DeliveryOK(e)'
    <3>1. ~Posted(e) /\ ~Posted(e)'
      BY <1>6, <2>1 DEF Posted
    <3>. QED  BY <1>3, <1>7, <2>1, <3>1 DEF PublisherOK, DeliveryOK, Steady
  <2>2. DeliveryOK(d)'
    <3>1. ~Posted(d)' /\ (pub.pc = "failed" => Posted(d))
      BY <1>6 DEF Posted
    <3>2. ledger[d].retry \in Nat /\ posts[d] \in Nat
      BY <1>2, HookBounds DEF PublisherOK, HooksTypeOK, Delivery
    <3>3. DeliveryOK(d)
      BY <1>2 DEF PublisherOK
    <3>4. pub.pc = "failed" => posts[d] >= ledger[d].retry + 1 /\ (passFails = 0 => posts[d] <= ledger[d].retry + 1)
      BY <1>2, <3>1, <3>3 DEF DeliveryOK
    <3>5. passFails = 0 => posts[d] <= MaxRetries + 1
      BY <3>3 DEF DeliveryOK
    <3>6. v.status = "abandoned" => ~Steady(d[1]) \/ posts[d] > MaxRetries
      <4>1. CASE pub.pc = "abandon"
        BY <4>1 DEF PublisherOK, PassOK
      <4>2. CASE pub.pc = "failed" /\ ledger[d].retry >= MaxRetries
        BY <3>2, <3>4, <4>2, HookBounds
      <4>. QED  BY <4>1, <4>2
    <3>7. v.status = "pending" => posts[d] >= v.retry /\ (passFails = 0 => posts[d] <= v.retry)
      BY <3>4
    <3>8. ~Steady(d[1]) => ~Steady(d[1])'
      BY <1>3 DEF Steady
    <3>. QED  BY <1>3, <1>7, <3>1, <3>5, <3>6, <3>7, <3>8 DEF DeliveryOK
  <2>. QED  BY <2>1, <2>2
<1>. QED  BY <1>3, <1>8, <1>9, <1>10, <1>11, <1>12, <1>13 DEF PublisherOK

LEMMA MarksKeep ==
    ASSUME PublisherOK, mark_delivered \/ mark_abandoned \/ mark_retry
    PROVE  PublisherOK'
<1>1. PICK d : d = pub.cur[1]
  OBVIOUS
<1>2. pub.pc \in {"delivered", "failed", "abandon"} /\ Continue /\ UNCHANGED <<log, hook, counts>>
  BY DEF mark_delivered, mark_abandoned, mark_retry, Finish
<1>3. d \in Pairs /\ pub.cur[2] = ledger[d].retry /\ ledger[d] \in Delivery
  BY <1>1, <1>2 DEF PublisherOK, PassOK, Holding, HooksTypeOK
<1>4. ledger \in [Pairs -> Delivery] /\ ledger[d].retry \in 0..MaxRetries
  BY <1>3 DEF PublisherOK, HooksTypeOK, Delivery
<1>5. ASSUME NEW s \in {"delivered", "abandoned"}, Finish(s)
      PROVE  \E v \in Delivery : v.status = s /\ ledger' = [ledger EXCEPT ![d] = v]
  <2>1. PICK v : v = [ledger[d] EXCEPT !.status = s, !.due = FALSE]
    OBVIOUS
  <2>2. v \in Delivery /\ v.status = s
    BY <1>3, <2>1 DEF Delivery
  <2>3. ledger' = [ledger EXCEPT ![d] = v]
    <3>1. PICK T : T = [ledger EXCEPT ![d].status = s]
      OBVIOUS
    <3>2. ledger' = [T EXCEPT ![d].due = FALSE]
      BY <1>1, <1>5, <3>1 DEF Finish
    <3>. QED  BY <1>3, <1>4, <2>1, <3>1, <3>2
  <2>. QED  BY <2>2, <2>3
<1>6. CASE mark_delivered
  <2>1. pub.pc = "delivered" /\ Finish("delivered")
    BY <1>6 DEF mark_delivered
  <2>2. d \in acked
    BY <1>1, <2>1 DEF PublisherOK, PassOK
  <2>3. PICK v \in Delivery : v.status = "delivered" /\ ledger' = [ledger EXCEPT ![d] = v]
    BY <1>5, <2>1
  <2>. QED  BY <1>1, <1>2, <2>2, <2>3, MarkKeeps
<1>7. CASE mark_abandoned
  <2>1. pub.pc = "abandon" \/ (pub.pc = "failed" /\ ledger[d].retry >= MaxRetries)
    BY <1>3, <1>4, <1>7, HookBounds DEF mark_abandoned, HasDelay
  <2>2. Finish("abandoned")
    BY <1>7 DEF mark_abandoned
  <2>3. PICK v \in Delivery : v.status = "abandoned" /\ ledger' = [ledger EXCEPT ![d] = v]
    BY <1>5, <2>2
  <2>. QED  BY <1>1, <1>2, <2>1, <2>3, MarkKeeps
<1>8. CASE mark_retry
  <2>1. PICK v : v = [status |-> "pending", retry |-> ledger[d].retry + 1, due |-> FALSE]
    OBVIOUS
  <2>2. ledger[d].retry < MaxRetries /\ pub.pc = "failed" /\ ledger' = [ledger EXCEPT ![d] = v]
    BY <1>1, <1>3, <1>8, <2>1 DEF mark_retry, HasDelay
  <2>3. ledger[d].retry + 1 \in 0..MaxRetries
    BY <1>4, <2>2, HookBounds
  <2>4. v \in Delivery /\ v.status = "pending" /\ v.retry = ledger[d].retry + 1
    BY <2>1, <2>3 DEF Delivery
  <2>. QED  BY <1>1, <1>2, <2>2, <2>4, MarkKeeps
<1>. QED  BY <1>6, <1>7, <1>8

PublisherInv == LogOK /\ PublisherOK

LEMMA PublisherStarts == Init => PublisherInv
<1>. SUFFICES ASSUME Init PROVE PublisherInv
  OBVIOUS
<1>1. StreamInv
  BY StreamStarts
<1>2. /\ ledger = [d \in Pairs |-> NoDelivery] /\ pub = IdlePub /\ acked = {} /\ touched = {}
      /\ posts = [d \in Pairs |-> 0] /\ latePosts = [h \in Hooks |-> 0] /\ updates = 0 /\ passFails = 0
      /\ hook \in [Hooks -> {[state |-> "absent", wants |-> {"end"}], [state |-> "active", wants |-> Kinds]}]
  BY DEF Init, HooksInit
<1>3. \A i \in Ids : log[i].stamp = 0
  BY DEF Init, LogInit
<1>4. NoDelivery \in Delivery /\ NoDelivery.status = "none"
  BY HookBounds DEF NoDelivery, Delivery
<1>5. HooksTypeOK
  <2>1. hook \in [Hooks -> HookRow]
    BY <1>2 DEF HookRow
  <2>2. ledger \in [Pairs -> Delivery] /\ posts \in [Pairs -> Nat]
    BY <1>2, <1>4
  <2>3. latePosts \in [Hooks -> 0..2]
    BY <1>2
  <2>. QED  BY <1>2, <2>1, <2>2, <2>3 DEF HooksTypeOK
<1>6. FannedOut
  BY <1>2, <1>3, <1>4 DEF FannedOut
<1>7. pub.pc = "idle" /\ pub.due = {} /\ pub \in PubRow
  BY <1>2 DEF IdlePub, PubRow
<1>8. FanOutOK /\ PassOK
  BY <1>7 DEF FanOutOK, PassOK, Holding
<1>9. \A h \in Hooks : HookOK(h)
  BY <1>2 DEF HookOK
<1>10. \A d \in Pairs : DeliveryOK(d)
  BY <1>2, <1>4, HookBounds DEF DeliveryOK
<1>. QED  BY <1>1, <1>2, <1>5, <1>6, <1>8, <1>9, <1>10 DEF PublisherInv, PublisherOK, StreamInv

LEMMA PublisherStepKeeps ==
    ASSUME PublisherInv, [Next]_vars
    PROVE  PublisherInv'
<1>1. LogOK /\ PublisherOK
  BY DEF PublisherInv
<1>2. CASE Emitter
  <2>1. /\ LogOK' /\ Committed \subseteq Committed'
        /\ \A i \in Ids : log'[i].stamp = log[i].stamp
    BY <1>1, <1>2, EmitterKeepsLog DEF Emitter
  <2>2. UNCHANGED <<hook, ledger, pub, acked, posts, touched, latePosts, updates, passFails>>
    BY <1>2 DEF Emitter, hookVars
  <2>3. HooksTypeOK' /\ PassOK' /\ (\A h \in Hooks : HookOK(h)') /\ \A d \in Pairs : DeliveryOK(d)'
    BY <1>1, <2>2 DEF PublisherOK, HooksTypeOK, PassOK, HookOK, DeliveryOK, Posted, Steady
  <2>4. FannedOut'
    <3>1. \A d \in Pairs : ledger[d].status # "none" => d[2] \in Committed' /\ log'[d[2]].stamp # 0
      BY <1>1, <2>1 DEF PublisherOK, FannedOut, Committed
    <3>. QED  BY <1>1, <2>1, <2>2, <3>1 DEF PublisherOK, FannedOut, Steady
  <2>5. FanOutOK'
    <3>1. \A i \in Committed : i \in Ids
      BY DEF Committed
    <3>. QED  BY <1>1, <2>1, <2>2, <3>1 DEF PublisherOK, FanOutOK, Steady
  <2>. QED  BY <1>1, <2>1, <2>2, <2>3, <2>4, <2>5 DEF PublisherInv, PublisherOK
<1>3. CASE UNCHANGED <<log, hookVars>>
  <2>1. UNCHANGED <<log, hook, ledger, pub, acked, posts, touched, latePosts, updates, passFails>>
    BY <1>3 DEF hookVars
  <2>2. LogOK'
    BY <1>1, <2>1 DEF LogOK, Issued, Ended, Open
  <2>3. HooksTypeOK' /\ PassOK' /\ (\A h \in Hooks : HookOK(h)') /\ \A d \in Pairs : DeliveryOK(d)'
    BY <1>1, <2>1 DEF PublisherOK, HooksTypeOK, PassOK, HookOK, DeliveryOK, Posted, Steady
  <2>4. FannedOut' /\ FanOutOK'
    BY <1>1, <2>1 DEF PublisherOK, FannedOut, FanOutOK, Committed, Steady
  <2>. QED  BY <1>1, <2>1, <2>2, <2>3, <2>4 DEF PublisherInv, PublisherOK
<1>4. CASE Reader
  BY <1>3, <1>4 DEF Reader, StreamStep, Backfill, Poll, Drop
<1>5. CASE Publisher
  <2>1. LogOK'
    BY <1>1, <1>5, PublisherKeepsLog
  <2>2. PublisherOK'
    BY <1>1, <1>5, FanOutKeeps, PassKeeps, LookupKeeps, PostKeeps, MarksKeep, RouterKeeps
       DEF Publisher, HooksNext, PublisherStep
  <2>. QED  BY <2>1, <2>2 DEF PublisherInv
<1>. QED  BY <1>2, <1>3, <1>4, <1>5 DEF Next, vars

\* The outbox keeps its promises to every subscriber, however many there are,
\* however the events commit and wherever a pass is cut short: a steady one has a
\* delivery for every processed event, nothing is delivered or given up without
\* cause, and one that is switched off gets one more post at most
\* (api/webhooks.py _drain_once, core/state/webhooks.py).
THEOREM DeliveriesAreKept == Spec => []DeliveriesKept
<1>1. PublisherInv => DeliveriesKept
  BY PublisherSuffices DEF PublisherInv
<1>. QED  BY <1>1, PublisherStarts, PublisherStepKeeps, PTL DEF Spec
=============================================================================
