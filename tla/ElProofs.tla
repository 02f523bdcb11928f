------------------------------ MODULE ElProofs ------------------------------
(***************************************************************************)
(* Proofs about carve el run and carve el deploy: what the rows of the     *)
(* runs tell and what the watch loop sees, for any script, agent and       *)
(* number of attempts; and what a deploy executes and when it is a         *)
(* success, whatever the recovery agents do to the file meanwhile.         *)
(***************************************************************************)
EXTENDS ElRun, Deploy, SequenceTheorems, TLAPS

-----------------------------------------------------------------------------
(* Deploy.                                                                 *)

Places == {"start", "refused", "created", "record", "terminal", "returned", "raised"} \cup InTry
Dep == [pc : Places, yes : BOOLEAN, fix : BOOLEAN, tool : BOOLEAN, agreed : BOOLEAN, run : Nat, child : Nat,
        stage : Stages \cup {"none"}, stmts : Seq(Statements), i : Nat \ {0}, ran : SUBSET Statements,
        attempts : Nat, status : DeployTerminal \cup {"none"}]
Agreed == {"copy", "apply", "execute", "runtime", "verify"}

\* A deploy k whose statements left w in its destination: success was verified,
\* what is about to run is classified, and what writes has been agreed to.
DepOK(k, w) ==
    /\ k \in Dep /\ w \subseteq Statements
    /\ k.status = "success" => {"table", "grant"} \subseteq w
    /\ "bad" \notin w
    /\ k.pc = "execute" => \A n \in DOMAIN k.stmts : k.stmts[n] # "bad"
    /\ w # {} => k.agreed
    /\ k.pc \in Agreed => k.agreed
    /\ k.pc \in {"recover", "agent"} => k.stage \in Stages
    /\ k.pc \in {"recover", "agent"} /\ k.stage # "preflight" => k.agreed
    /\ k.pc = "terminal" => k.status # "none"

DeployOK ==
    /\ ddl \in DdlFiles
    /\ dep \in [Deploys -> Dep] /\ wh \in [Deploys -> SUBSET Statements]
    /\ drun \in Seq([parent : Nat, status : DeployStatus])
    /\ \A d \in Deploys : DepOK(dep[d], wh[d])

\* A step of one deploy.
LEMMA OneDeploy ==
    ASSUME DeployOK, NEW d \in Deploys, NEW n, NEW w, DepOK(n, w), Set(d, n), wh' = [wh EXCEPT ![d] = w],
           ddl' \in DdlFiles, drun' \in Seq([parent : Nat, status : DeployStatus])
    PROVE  DeployOK'
<1>1. n \in Dep /\ w \in SUBSET Statements
  BY DEF DepOK
<1>2. dep' \in [Deploys -> Dep] /\ wh' \in [Deploys -> SUBSET Statements]
  BY <1>1 DEF Set, DeployOK
<1>3. ASSUME NEW e \in Deploys PROVE DepOK(dep'[e], wh'[e])
  <2>1. CASE e = d
    <3>1. dep'[e] = n /\ wh'[e] = w
      BY <2>1 DEF Set, DeployOK
    <3>. QED  BY <3>1
  <2>2. CASE e # d
    <3>1. dep'[e] = dep[e] /\ wh'[e] = wh[e]
      BY <2>2 DEF Set, DeployOK
    <3>. QED  BY <3>1 DEF DeployOK
  <2>. QED  BY <2>1, <2>2
<1>. QED  BY <1>2, <1>3 DEF DeployOK

\* A deploy that moves on or ends without having executed anything.
LEMMA Moved ==
    ASSUME NEW k, NEW w, DepOK(k, w), NEW p \in Places \ {"execute"}, p \in Agreed => k.agreed,
           p \notin {"recover", "agent", "terminal"},
           NEW n, n = [k EXCEPT !.pc = p]
    PROVE  DepOK(n, w)
<1>1. k \in Dep
  BY DEF DepOK
<1>2. n \in Dep /\ n.pc = p /\ n.stage = k.stage /\ n.agreed = k.agreed /\ n.status = k.status
  BY <1>1 DEF Dep
<1>. QED  BY <1>2 DEF DepOK

LEMMA Ended ==
    ASSUME NEW k, NEW w, DepOK(k, w), NEW s \in DeployTerminal, s = "success" => {"table", "grant"} \subseteq w,
           NEW n, n = [k EXCEPT !.pc = "terminal", !.status = s]
    PROVE  DepOK(n, w)
<1>1. k \in Dep /\ s \in DeployTerminal \cup {"none"} /\ "terminal" \in Places
  BY DEF DepOK, Places
<1>2. n \in Dep /\ n.pc = "terminal" /\ n.stage = k.stage /\ n.agreed = k.agreed /\ n.status = s
  BY <1>1 DEF Dep
<1>3. s # "none"
  BY DEF DeployTerminal, DeployStatus
<1>. QED  BY <1>2, <1>3 DEF DepOK, Agreed

\* A failure of a stage that recovery may look at.
LEMMA Recovers ==
    ASSUME DeployOK, NEW d \in Deploys, NEW stage \in Stages, stage # "preflight" => dep[d].agreed
    PROVE  /\ DepOK(_maybe_recover(d, stage), wh[d])
           /\ DepOK(Retry(d, stage), wh[d])
<1>1. PICK k, w : k = dep[d] /\ w = wh[d]
  OBVIOUS
<1>2. DepOK(k, w) /\ k \in Dep
  BY <1>1 DEF DeployOK, DepOK
<1>3. DepOK(Ending(d, "failed"), w)
  <2>1. PICK n : n = [k EXCEPT !.pc = "terminal", !.status = "failed"]
    OBVIOUS
  <2>2. DepOK(n, w)
    BY <1>2, <2>1, Ended DEF DeployTerminal, DeployStatus
  <2>. QED  BY <1>1, <2>1, <2>2 DEF Ending
<1>4. PICK n : n = [k EXCEPT !.pc = "recover", !.stage = stage]
  OBVIOUS
<1>5. n \in Dep /\ n.pc = "recover" /\ n.stage = stage /\ n.agreed = k.agreed /\ n.status = k.status
  <2>1. "recover" \in Places
    BY DEF Places, InTry
  <2>. QED  BY <1>2, <1>4, <2>1 DEF Dep
<1>6. DepOK(n, w)
  BY <1>1, <1>2, <1>5 DEF DepOK, Agreed
<1>7. _maybe_recover(d, stage) = IF k.fix THEN n ELSE Ending(d, "failed")
  BY <1>1, <1>4 DEF _maybe_recover
<1>8. PICK m : m = _maybe_recover(d, stage)
  OBVIOUS
<1>9. DepOK(m, w) /\ m \in Dep /\ m.pc # "execute"
  <2>1. CASE k.fix
    BY <1>5, <1>6, <1>7, <1>8, <2>1
  <2>2. CASE ~k.fix
    <3>1. m = Ending(d, "failed")
      BY <1>7, <1>8, <2>2
    <3>2. PICK e : e = [k EXCEPT !.pc = "terminal", !.status = "failed"]
      OBVIOUS
    <3>3. m = e /\ e.pc = "terminal"
      BY <1>1, <1>2, <3>1, <3>2 DEF Ending, Dep
    <3>. QED  BY <1>3, <3>1, <3>3 DEF DepOK
  <2>. QED  BY <2>1, <2>2
<1>10. PICK r : r = [m EXCEPT !.attempts = k.attempts + 1]
  OBVIOUS
<1>11. r \in Dep /\ r.pc = m.pc /\ r.stage = m.stage /\ r.agreed = m.agreed /\ r.status = m.status
  <2>1. k.attempts + 1 \in Nat
    BY <1>2 DEF Dep
  <2>. QED  BY <1>9, <1>10, <2>1 DEF Dep
<1>12. DepOK(r, w)
  BY <1>9, <1>11 DEF DepOK
<1>13. Retry(d, stage) = IF k.attempts < MaxFixAttempts THEN r ELSE Ending(d, "failed")
  BY <1>1, <1>8, <1>10 DEF Retry
<1>. QED  BY <1>1, <1>3, <1>8, <1>9, <1>12, <1>13

LEMMA Fails ==
    ASSUME DeployOK, NEW d \in Deploys, dep[d].agreed, NEW index \in Nat \ {0}
    PROVE  DepOK(DdlFailed(d, index), wh[d])
<1>1. PICK k, w : k = dep[d] /\ w = wh[d]
  OBVIOUS
<1>2. DepOK(k, w)
  BY <1>1 DEF DeployOK
<1>3. DepOK(Ending(d, "failed"), w)
  <2>1. PICK n : n = [k EXCEPT !.pc = "terminal", !.status = "failed"]
    OBVIOUS
  <2>2. DepOK(n, w)
    BY <1>2, <2>1, Ended DEF DeployTerminal, DeployStatus
  <2>. QED  BY <1>1, <2>1, <2>2 DEF Ending
<1>4. PICK m : m = Retry(d, "ddl_apply")
  OBVIOUS
<1>5. DepOK(m, w) /\ m \in Dep
  <2>1. "ddl_apply" \in Stages
    BY DEF Stages
  <2>2. DepOK(Retry(d, "ddl_apply"), wh[d])
    BY <2>1, Recovers
  <2>. QED  BY <1>1, <1>4, <2>2 DEF DepOK
<1>6. PICK n : n = [m EXCEPT !.i = index]
  OBVIOUS
<1>7. n \in Dep /\ n.pc = m.pc /\ n.stage = m.stage /\ n.agreed = m.agreed /\ n.status = m.status /\ n.stmts = m.stmts
  BY <1>5, <1>6 DEF Dep
<1>8. DepOK(n, w)
  BY <1>5, <1>7 DEF DepOK
<1>. QED  BY <1>1, <1>3, <1>4, <1>6, <1>8 DEF DdlFailed

LEMMA RowSet ==
    ASSUME NEW rs \in Seq([parent : Nat, status : DeployStatus]), NEW r, NEW s \in DeployStatus
    PROVE  [rs EXCEPT ![r].status = s] \in Seq([parent : Nat, status : DeployStatus])
<1>1. PICK q, T : q = [rs EXCEPT ![r].status = s] /\ T = [parent : Nat, status : DeployStatus]
  OBVIOUS
<1>2. rs \in Seq(T)
  BY <1>1
<1>3. CASE r \in DOMAIN rs
  <2>1. PICK x : x = rs[r]
    OBVIOUS
  <2>2. PICK y : y = [x EXCEPT !.status = s]
    OBVIOUS
  <2>3. x \in T
    BY <1>2, <1>3, <2>1
  <2>4. y \in T
    BY <1>1, <2>2, <2>3
  <2>5. q = [rs EXCEPT ![r] = y]
    BY <1>1, <2>1, <2>2
  <2>6. q \in Seq(T)
    BY <1>2, <1>3, <2>4, <2>5
  <2>. QED  BY <1>1, <2>6
<1>4. CASE r \notin DOMAIN rs
  <2>1. q = rs
    BY <1>1, <1>4
  <2>. QED  BY <1>1, <2>1
<1>. QED  BY <1>3, <1>4

LEMMA DeployStarts == DeployInit => DeployOK
<1>. SUFFICES ASSUME DeployInit PROVE DeployOK
  OBVIOUS
<1>1. PICK y, f, t \in BOOLEAN : dep = [d \in Deploys |-> NewDeploy(y, f, t)]
  BY DEF DeployInit
<1>2. PICK k : k = NewDeploy(y, f, t)
  OBVIOUS
<1>3. << >> \in Seq(Statements)
  OBVIOUS
<1>4. k \in Dep /\ k.pc = "start" /\ k.status = "none"
  BY <1>2, <1>3 DEF NewDeploy, Dep, Places
<1>5. DepOK(k, {})
  BY <1>4 DEF DepOK, Agreed
<1>6. dep = [d \in Deploys |-> k] /\ wh = [d \in Deploys |-> {}] /\ drun = << >> /\ ddl \in DdlFiles
  BY <1>1, <1>2 DEF DeployInit
<1>7. << >> \in Seq([parent : Nat, status : DeployStatus])
  OBVIOUS
<1>. QED  BY <1>4, <1>5, <1>6, <1>7 DEF DeployOK

\* The steps that only move a deploy on, or end it.
LEMMA PhasesKeep ==
    ASSUME DeployOK, NEW d \in Deploys,
           run_deploy(d) \/ SetDeployRunning(d) \/ run_preflight(d) \/ Confirm(d) \/ copy_artifact(d)
             \/ RuntimeConnection(d) \/ run_verify(d) \/ RaiseInDeploy(d)
    PROVE  DeployOK'
<1>1. PICK k, w : k = dep[d] /\ w = wh[d]
  OBVIOUS
<1>2. DepOK(k, w) /\ k \in Dep /\ wh = [wh EXCEPT ![d] = w] /\ drun \in Seq([parent : Nat, status : DeployStatus])
      /\ ddl \in DdlFiles
  BY <1>1 DEF DeployOK, DepOK
<1>3. ASSUME NEW n, DepOK(n, w), Set(d, n), wh' = wh, ddl' = ddl,
             drun' \in Seq([parent : Nat, status : DeployStatus])
      PROVE  DeployOK'
  BY <1>2, <1>3, OneDeploy
<1>4. ASSUME NEW t \in DeployTerminal, t = "success" => {"table", "grant"} \subseteq w
      PROVE  DepOK(Ending(d, t), w)
  <2>1. PICK n : n = [k EXCEPT !.pc = "terminal", !.status = t]
    OBVIOUS
  <2>2. DepOK(n, w)
    BY <1>2, <1>4, <2>1, Ended
  <2>. QED  BY <1>1, <2>1, <2>2 DEF Ending
<1>5. "failed" \in DeployTerminal /\ "cancelled" \in DeployTerminal /\ "crashed" \in DeployTerminal
      /\ "success" \in DeployTerminal
  BY DEF DeployTerminal, DeployStatus
<1>6. CASE run_deploy(d)
  <2>1. k.pc = "start" /\ wh' = wh /\ ddl' = ddl
    BY <1>1, <1>6 DEF run_deploy, In
  <2>2. CASE Move(d, "refused") /\ drun' = drun
    <3>1. PICK n : n = [k EXCEPT !.pc = "refused"]
      OBVIOUS
    <3>2. "refused" \in Places \ {"execute"} /\ "refused" \notin Agreed /\ "refused" \notin {"recover", "agent", "terminal"}
      BY DEF Places, Agreed
    <3>3. DepOK(n, w)
      BY <1>2, <3>1, <3>2, Moved
    <3>4. Set(d, n)
      BY <1>1, <2>2, <3>1 DEF Move
    <3>. QED  BY <1>2, <1>3, <2>1, <2>2, <3>3, <3>4
  <2>3. CASE drun' = Append(drun, Row(0)) /\ Set(d, [dep[d] EXCEPT !.pc = "created", !.run = Len(drun) + 1])
    <3>1. PICK n : n = [k EXCEPT !.pc = "created", !.run = Len(drun) + 1]
      OBVIOUS
    <3>2. "created" \in Places /\ Len(drun) + 1 \in Nat
      BY <1>2 DEF Places
    <3>3. n \in Dep /\ n.pc = "created" /\ n.stage = k.stage /\ n.agreed = k.agreed /\ n.status = k.status
      BY <1>2, <3>1, <3>2 DEF Dep
    <3>4. DepOK(n, w)
      BY <1>2, <3>3 DEF DepOK, Agreed
    <3>5. Row(0) \in [parent : Nat, status : DeployStatus]
      BY DEF Row, DeployStatus
    <3>6. drun' \in Seq([parent : Nat, status : DeployStatus])
      BY <1>2, <2>3, <3>5
    <3>. QED  BY <1>1, <1>3, <2>1, <2>3, <3>1, <3>4, <3>6
  <2>. QED  BY <1>6, <2>2, <2>3 DEF run_deploy
<1>7. CASE SetDeployRunning(d)
  <2>1. PICK n : n = [k EXCEPT !.pc = "preflight"]
    OBVIOUS
  <2>2. "preflight" \in Places \ {"execute"} /\ "preflight" \notin Agreed /\ "preflight" \notin {"recover", "agent", "terminal"}
    BY DEF Places, Agreed, InTry
  <2>3. DepOK(n, w)
    BY <1>2, <2>1, <2>2, Moved
  <2>4. Set(d, n) /\ wh' = wh /\ ddl' = ddl
    BY <1>1, <1>7, <2>1 DEF SetDeployRunning, Move
  <2>5. drun' = [drun EXCEPT ![k.run].status = "running"]
    BY <1>1, <1>7 DEF SetDeployRunning
  <2>6. drun' \in Seq([parent : Nat, status : DeployStatus])
    BY <1>2, <2>5, RowSet DEF DeployStatus
  <2>. QED  BY <1>3, <2>3, <2>4, <2>6
<1>8. CASE run_preflight(d)
  <2>1. PICK n \in {Ending(d, "failed"), [dep[d] EXCEPT !.pc = "confirm"], _maybe_recover(d, "preflight")} : Set(d, n)
    BY <1>8 DEF run_preflight
  <2>2. DepOK(_maybe_recover(d, "preflight"), w)
    <3>1. "preflight" \in Stages
      BY DEF Stages
    <3>. QED  BY <1>1, <3>1, Recovers
  <2>3. PICK m : m = [k EXCEPT !.pc = "confirm"]
    OBVIOUS
  <2>4. DepOK(m, w)
    <3>1. "confirm" \in Places \ {"execute"} /\ "confirm" \notin Agreed /\ "confirm" \notin {"recover", "agent", "terminal"}
      BY DEF Places, Agreed, InTry
    <3>. QED  BY <1>2, <2>3, <3>1, Moved
  <2>5. DepOK(n, w)
    BY <1>1, <1>4, <1>5, <2>1, <2>2, <2>3, <2>4
  <2>. QED  BY <1>2, <1>3, <1>8, <2>1, <2>5 DEF run_preflight
<1>9. CASE Confirm(d)
  <2>1. wh' = wh /\ ddl' = ddl /\ drun' = drun /\ k.pc = "confirm"
    BY <1>1, <1>9 DEF Confirm, In
  <2>2. CASE Set(d, [dep[d] EXCEPT !.pc = "copy", !.agreed = TRUE])
    <3>1. PICK n : n = [k EXCEPT !.pc = "copy", !.agreed = TRUE]
      OBVIOUS
    <3>2. "copy" \in Places
      BY DEF Places, InTry
    <3>3. n \in Dep /\ n.pc = "copy" /\ n.agreed = TRUE /\ n.status = k.status
      BY <1>2, <3>1, <3>2 DEF Dep
    <3>4. DepOK(n, w)
      BY <1>2, <3>3 DEF DepOK
    <3>. QED  BY <1>1, <1>2, <1>3, <2>1, <2>2, <3>1, <3>4
  <2>3. CASE End(d, "cancelled")
    <3>1. DepOK(Ending(d, "cancelled"), w)
      BY <1>4, <1>5
    <3>. QED  BY <1>2, <1>3, <2>1, <2>3, <3>1 DEF End
  <2>. QED  BY <1>9, <2>2, <2>3 DEF Confirm
<1>10. CASE copy_artifact(d)
  <2>1. wh' = wh /\ ddl' = ddl /\ drun' = drun /\ k.pc = "copy" /\ k.agreed
    BY <1>1, <1>2, <1>10 DEF copy_artifact, In, DepOK, Agreed
  <2>2. CASE End(d, "failed")
    <3>1. DepOK(Ending(d, "failed"), w)
      BY <1>4, <1>5
    <3>. QED  BY <1>2, <1>3, <2>1, <2>2, <3>1 DEF End
  <2>3. CASE Set(d, [dep[d] EXCEPT !.pc = IF ddl = Absent THEN "runtime" ELSE "apply"])
    <3>1. PICK p : p = IF ddl = Absent THEN "runtime" ELSE "apply"
      OBVIOUS
    <3>2. PICK n : n = [k EXCEPT !.pc = p]
      OBVIOUS
    <3>3. p \in Places \ {"execute"} /\ p \notin {"recover", "agent", "terminal"}
      BY <3>1 DEF Places, InTry
    <3>4. DepOK(n, w)
      BY <1>2, <2>1, <3>2, <3>3, Moved
    <3>5. Set(d, n)
      BY <1>1, <2>3, <3>1, <3>2
    <3>. QED  BY <1>2, <1>3, <2>1, <3>4, <3>5
  <2>. QED  BY <1>10, <2>2, <2>3 DEF copy_artifact
<1>11. CASE RuntimeConnection(d)
  <2>1. wh' = wh /\ ddl' = ddl /\ drun' = drun /\ k.pc = "runtime" /\ k.agreed
    BY <1>1, <1>2, <1>11 DEF RuntimeConnection, In, DepOK, Agreed
  <2>2. CASE End(d, "failed")
    <3>1. DepOK(Ending(d, "failed"), w)
      BY <1>4, <1>5
    <3>. QED  BY <1>2, <1>3, <2>1, <2>2, <3>1 DEF End
  <2>3. CASE Set(d, [dep[d] EXCEPT !.pc = "verify", !.stage = "none", !.attempts = 0])
    <3>1. PICK n : n = [k EXCEPT !.pc = "verify", !.stage = "none", !.attempts = 0]
      OBVIOUS
    <3>2. "verify" \in Places
      BY DEF Places, InTry
    <3>3. n \in Dep /\ n.pc = "verify" /\ n.agreed = k.agreed /\ n.status = k.status
      BY <1>2, <3>1, <3>2 DEF Dep
    <3>4. DepOK(n, w)
      BY <1>2, <2>1, <3>3 DEF DepOK
    <3>. QED  BY <1>1, <1>2, <1>3, <2>1, <2>3, <3>1, <3>4
  <2>. QED  BY <1>11, <2>2, <2>3 DEF RuntimeConnection
<1>12. CASE run_verify(d)
  <2>1. wh' = wh /\ ddl' = ddl /\ drun' = drun /\ k.pc = "verify" /\ k.agreed
    BY <1>1, <1>2, <1>12 DEF run_verify, In, DepOK, Agreed
  <2>2. CASE Verified(d) /\ End(d, "success")
    <3>1. DepOK(Ending(d, "success"), w)
      BY <1>1, <1>4, <1>5, <2>2 DEF Verified
    <3>. QED  BY <1>2, <1>3, <2>1, <2>2, <3>1 DEF End
  <2>3. CASE Set(d, Retry(d, "verify"))
    <3>1. "verify" \in Stages
      BY DEF Stages
    <3>2. DepOK(Retry(d, "verify"), w)
      BY <1>1, <2>1, <3>1, Recovers
    <3>. QED  BY <1>2, <1>3, <2>1, <2>3, <3>2
  <2>. QED  BY <1>12, <2>2, <2>3 DEF run_verify
<1>13. CASE RaiseInDeploy(d)
  <2>1. wh' = wh /\ ddl' = ddl /\ drun' = drun
    BY <1>13 DEF RaiseInDeploy
  <2>2. CASE End(d, "crashed")
    <3>1. DepOK(Ending(d, "crashed"), w)
      BY <1>4, <1>5
    <3>. QED  BY <1>2, <1>3, <2>1, <2>2, <3>1 DEF End
  <2>3. CASE Move(d, "raised")
    <3>1. PICK n : n = [k EXCEPT !.pc = "raised"]
      OBVIOUS
    <3>2. "raised" \in Places \ {"execute"} /\ "raised" \notin Agreed /\ "raised" \notin {"recover", "agent", "terminal"}
      BY DEF Places, Agreed
    <3>3. DepOK(n, w)
      BY <1>2, <3>1, <3>2, Moved
    <3>4. Set(d, n)
      BY <1>1, <2>3, <3>1 DEF Move
    <3>. QED  BY <1>2, <1>3, <2>1, <3>3, <3>4
  <2>. QED  BY <1>13, <2>2, <2>3 DEF RaiseInDeploy
<1>. QED  BY <1>6, <1>7, <1>8, <1>9, <1>10, <1>11, <1>12, <1>13

\* The DDL file: what is read is classified before any of it runs.
LEMMA ApplyKeeps == ASSUME DeployOK, NEW d \in Deploys, apply_ddl(d) \/ ExecuteStatement(d) PROVE DeployOK'
<1>1. PICK k, w : k = dep[d] /\ w = wh[d]
  OBVIOUS
<1>2. DepOK(k, w) /\ k \in Dep /\ w \subseteq Statements /\ wh = [wh EXCEPT ![d] = w]
      /\ drun \in Seq([parent : Nat, status : DeployStatus]) /\ ddl \in DdlFiles /\ k.i \in Nat \ {0}
      /\ wh \in [Deploys -> SUBSET Statements]
  BY <1>1 DEF DeployOK, DepOK, Dep
<1>3. ASSUME NEW n, NEW v, DepOK(n, v), Set(d, n), wh' = [wh EXCEPT ![d] = v], ddl' = ddl, drun' = drun
      PROVE  DeployOK'
  BY <1>2, <1>3, OneDeploy
<1>4. k.agreed => DepOK(DdlFailed(d, k.i), w) /\ DepOK(DdlFailed(d, 1), w)
  BY <1>1, <1>2, Fails
<1>5. CASE apply_ddl(d)
  <2>1. k.pc = "apply" /\ k.agreed /\ wh' = wh /\ ddl' = ddl /\ drun' = drun
    BY <1>1, <1>2, <1>5 DEF apply_ddl, In, DepOK, Agreed
  <2>2. \/ ddl = Absent /\ Set(d, DdlFailed(d, 1))
        \/ Set(d, Ending(d, "failed"))
        \/ /\ ddl # Absent /\ validate_ddl_statements(ddl, dep[d].i)
           /\ Set(d, [dep[d] EXCEPT !.pc = "execute", !.stmts = ddl])
    <3>1. CASE ddl = Absent
      BY <1>5, <3>1, Zenon DEF apply_ddl
    <3>2. CASE ddl # Absent /\ ~validate_ddl_statements(ddl, dep[d].i)
      BY <1>5, <3>2, Zenon DEF apply_ddl
    <3>3. CASE ddl # Absent /\ validate_ddl_statements(ddl, dep[d].i)
      BY <1>5, <3>3, Zenon DEF apply_ddl
    <3>. QED  BY <3>1, <3>2, <3>3
  <2>3. CASE Set(d, DdlFailed(d, 1))
    BY <1>2, <1>3, <1>4, <2>1, <2>3
  <2>4. CASE Set(d, Ending(d, "failed"))
    <3>1. PICK n : n = [k EXCEPT !.pc = "terminal", !.status = "failed"]
      OBVIOUS
    <3>2. DepOK(n, w)
      BY <1>2, <3>1, Ended DEF DeployTerminal, DeployStatus
    <3>3. Set(d, n)
      BY <1>1, <2>4, <3>1 DEF Ending
    <3>. QED  BY <1>2, <1>3, <2>1, <3>2, <3>3
  <2>5. CASE /\ ddl # Absent /\ validate_ddl_statements(ddl, dep[d].i)
             /\ Set(d, [dep[d] EXCEPT !.pc = "execute", !.stmts = ddl])
    <3>1. PICK n : n = [k EXCEPT !.pc = "execute", !.stmts = ddl]
      OBVIOUS
    <3>2. ddl \in Seq(Statements)
      <4>1. PICK m \in 0..MaxStatements : ddl \in [1..m -> Statements]
        BY <1>2, <2>5 DEF DdlFiles
      <4>2. m \in Nat
        BY <4>1
      <4>3. PICK f : f = ddl
        OBVIOUS
      <4>. QED  BY <4>1, <4>2, <4>3, SeqDef
    <3>3. n \in Dep /\ n.pc = "execute" /\ n.agreed = k.agreed /\ n.status = k.status /\ n.stmts = ddl
      <4>1. "execute" \in Places
        BY DEF Places, InTry
      <4>. QED  BY <1>2, <3>1, <3>2, <4>1 DEF Dep
    <3>4. \A j \in DOMAIN ddl : ddl[j] # "bad"
      BY <2>5 DEF validate_ddl_statements, _classify_statement
    <3>5. DepOK(n, w)
      BY <1>2, <2>1, <3>3, <3>4 DEF DepOK
    <3>6. Set(d, n)
      BY <1>1, <2>5, <3>1
    <3>. QED  BY <1>2, <1>3, <2>1, <3>5, <3>6
  <2>. QED  BY <2>2, <2>3, <2>4, <2>5
<1>6. CASE ExecuteStatement(d)
  <2>1. /\ k.pc = "execute" /\ k.agreed /\ ddl' = ddl /\ drun' = drun /\ k.stmts \in Seq(Statements)
        /\ \A j \in DOMAIN k.stmts : k.stmts[j] # "bad"
    BY <1>1, <1>2, <1>6 DEF ExecuteStatement, In, DepOK, Agreed, Dep
  <2>2. CASE k.i > Len(k.stmts)
    <3>1. PICK p : p = DdlDone(d)
      OBVIOUS
    <3>2. p \in {"verify", "runtime"} /\ p \in Places
      BY <3>1 DEF DdlDone, Places, InTry
    <3>3. PICK n : n = [k EXCEPT !.pc = p, !.i = 1]
      OBVIOUS
    <3>4. n \in Dep /\ n.pc = p /\ n.agreed = k.agreed /\ n.status = k.status
      <4>1. PICK m : m = [k EXCEPT !.pc = p]
        OBVIOUS
      <4>2. m \in Dep /\ m.pc = p /\ m.agreed = k.agreed /\ m.status = k.status
        BY <1>2, <3>2, <4>1 DEF Dep
      <4>3. n = [m EXCEPT !.i = 1]
        BY <3>3, <4>1
      <4>. QED  BY <4>2, <4>3 DEF Dep
    <3>5. DepOK(n, w)
      BY <1>2, <2>1, <3>2, <3>4 DEF DepOK
    <3>6. Set(d, n) /\ wh' = wh
      BY <1>1, <1>6, <2>2, <3>1, <3>3 DEF ExecuteStatement
    <3>. QED  BY <1>2, <1>3, <2>1, <3>5, <3>6
  <2>3. CASE ~(k.i > Len(k.stmts))
    <3>1. PICK s : s = k.stmts[k.i]
      OBVIOUS
    <3>2. k.i \in DOMAIN k.stmts /\ s \in Statements /\ s # "bad"
      BY <1>2, <2>1, <2>3, <3>1
    <3>3. \/ /\ wh' = [wh EXCEPT ![d] = @ \cup {s}]
             /\ Set(d, [dep[d] EXCEPT !.i = @ + 1, !.ran = @ \cup {s}])
          \/ Set(d, DdlFailed(d, k.i)) /\ wh' = wh
      BY <1>1, <1>6, <2>3, <3>1 DEF ExecuteStatement
    <3>4. CASE /\ wh' = [wh EXCEPT ![d] = @ \cup {s}]
               /\ Set(d, [dep[d] EXCEPT !.i = @ + 1, !.ran = @ \cup {s}])
      <4>1. PICK n, v : n = [k EXCEPT !.i = k.i + 1, !.ran = k.ran \cup {s}] /\ v = w \cup {s}
        OBVIOUS
      <4>2. k.i + 1 \in Nat \ {0} /\ k.ran \cup {s} \in SUBSET Statements
        BY <1>2, <3>2 DEF Dep
      <4>3. n \in Dep /\ n.pc = k.pc /\ n.agreed = k.agreed /\ n.status = k.status /\ n.stmts = k.stmts
        BY <1>2, <4>1, <4>2 DEF Dep
      <4>4. DepOK(n, v)
        BY <1>2, <2>1, <3>2, <4>1, <4>3 DEF DepOK
      <4>5. wh' = [wh EXCEPT ![d] = v]
        BY <1>1, <3>4, <4>1
      <4>6. Set(d, n)
        BY <1>1, <3>4, <4>1
      <4>. QED  BY <1>3, <2>1, <4>4, <4>5, <4>6
    <3>5. CASE Set(d, DdlFailed(d, k.i)) /\ wh' = wh
      BY <1>2, <1>3, <1>4, <2>1, <3>5
    <3>. QED  BY <3>3, <3>4, <3>5
  <2>. QED  BY <2>2, <2>3
<1>. QED  BY <1>5, <1>6

\* The recovery agent: it reaches a destination only with the DDL tool, which
\* pre-flight does not give it and which classifies what it is asked to run.
LEMMA AgentKeeps ==
    ASSUME DeployOK, NEW d \in Deploys,
           StartRecovery(d) \/ AgentWritesDdl(d) \/ run_snowflake_ddl(d) \/ attempt(d)
    PROVE  DeployOK'
<1>1. PICK k, w : k = dep[d] /\ w = wh[d]
  OBVIOUS
<1>2. DepOK(k, w) /\ k \in Dep /\ w \subseteq Statements /\ wh = [wh EXCEPT ![d] = w]
      /\ dep = [dep EXCEPT ![d] = k]
      /\ drun \in Seq([parent : Nat, status : DeployStatus]) /\ ddl \in DdlFiles
      /\ wh \in [Deploys -> SUBSET Statements]
  BY <1>1 DEF DeployOK, DepOK
<1>3. ASSUME NEW n, NEW v, DepOK(n, v), Set(d, n), wh' = [wh EXCEPT ![d] = v], ddl' \in DdlFiles,
             drun' \in Seq([parent : Nat, status : DeployStatus])
      PROVE  DeployOK'
  BY <1>3, OneDeploy
<1>4. CASE StartRecovery(d)
  <2>1. k.pc = "recover" /\ wh' = wh /\ ddl' = ddl
    BY <1>1, <1>4 DEF StartRecovery, In
  <2>2. PICK c \in Nat : Set(d, [dep[d] EXCEPT !.pc = "agent", !.child = c])
                         /\ (drun' = drun \/ drun' = Append(drun, [Row(dep[d].run) EXCEPT !.status = "running"]))
    <3>1. Len(drun) + 1 \in Nat
      BY <1>2
    <3>. QED  BY <1>4, <3>1 DEF StartRecovery
  <2>3. PICK n : n = [k EXCEPT !.pc = "agent", !.child = c]
    OBVIOUS
  <2>4. "agent" \in Places
    BY DEF Places, InTry
  <2>5. n \in Dep /\ n.pc = "agent" /\ n.stage = k.stage /\ n.agreed = k.agreed /\ n.status = k.status
    BY <1>2, <2>3, <2>4 DEF Dep
  <2>6. DepOK(n, w)
    BY <1>2, <2>1, <2>5 DEF DepOK, Agreed
  <2>7. Set(d, n)
    BY <1>1, <2>2, <2>3
  <2>8. drun' \in Seq([parent : Nat, status : DeployStatus])
    <3>1. PICK r : r = k.run
      OBVIOUS
    <3>2. [Row(r) EXCEPT !.status = "running"] = [parent |-> r, status |-> "running"]
      BY DEF Row
    <3>3. [parent |-> r, status |-> "running"] \in [parent : Nat, status : DeployStatus]
      BY <1>2, <3>1 DEF Dep, DeployStatus
    <3>4. PICK x : x = [parent |-> r, status |-> "running"]
      OBVIOUS
    <3>5. drun' = drun \/ drun' = Append(drun, x)
      BY <1>1, <2>2, <3>1, <3>2, <3>4
    <3>6. PICK T : T = [parent : Nat, status : DeployStatus]
      OBVIOUS
    <3>7. drun \in Seq(T) /\ x \in T
      BY <1>2, <3>3, <3>4, <3>6
    <3>8. drun' \in Seq(T)
      BY <3>5, <3>7
    <3>. QED  BY <3>6, <3>8
  <2>. QED  BY <1>2, <1>3, <2>1, <2>6, <2>7, <2>8
<1>5. CASE AgentWritesDdl(d)
  <2>1. dep' = dep /\ wh' = wh /\ drun' = drun /\ ddl' \in DdlFiles
    BY <1>5 DEF AgentWritesDdl
  <2>. QED  BY <2>1 DEF DeployOK
<1>6. CASE run_snowflake_ddl(d)
  <2>1. /\ k.pc = "agent" /\ dep' = dep /\ drun' = drun /\ ddl' = ddl /\ k.stage # "preflight"
    BY <1>1, <1>6 DEF run_snowflake_ddl, In, _allowed_tools
  <2>2. PICK s \in Statements : _classify_statement(s) = "allowed" /\ wh' = [wh EXCEPT ![d] = @ \cup {s}]
    BY <1>6 DEF run_snowflake_ddl
  <2>3. s # "bad"
    BY <2>2 DEF _classify_statement
  <2>4. PICK v : v = w \cup {s}
    OBVIOUS
  <2>5. DepOK(k, v)
    BY <1>2, <2>1, <2>3, <2>4 DEF DepOK
  <2>6. wh' = [wh EXCEPT ![d] = v] /\ Set(d, k)
    BY <1>1, <1>2, <2>1, <2>2, <2>4 DEF Set
  <2>. QED  BY <1>2, <1>3, <2>1, <2>5, <2>6
<1>7. CASE attempt(d)
  <2>1. k.pc = "agent" /\ wh' = wh /\ ddl' = ddl
    BY <1>1, <1>7 DEF attempt, In
  <2>2. PICK fixed \in BOOLEAN :
            /\ drun' = IF dep[d].child = 0 THEN drun
                       ELSE [drun EXCEPT ![dep[d].child].status = IF fixed THEN "success" ELSE "failed"]
            /\ Set(d, [(IF fixed THEN AfterFix(d) ELSE Ending(d, "failed")) EXCEPT !.child = 0])
    BY <1>7 DEF attempt
  <2>3. drun' \in Seq([parent : Nat, status : DeployStatus])
    BY <1>2, <2>2, RowSet DEF DeployStatus
  <2>4. DepOK(Ending(d, "failed"), w)
    <3>1. PICK n : n = [k EXCEPT !.pc = "terminal", !.status = "failed"]
      OBVIOUS
    <3>2. DepOK(n, w)
      BY <1>2, <3>1, Ended DEF DeployTerminal, DeployStatus
    <3>. QED  BY <1>1, <3>1, <3>2 DEF Ending
  <2>5. k.stage \in Stages => DepOK(AfterFix(d), w)
    <3>1. CASE k.stage = "preflight"
      <4>1. AfterFix(d) = [dep[d] EXCEPT !.pc = "confirm"]
        BY <1>1, <3>1, Zenon DEF AfterFix
      <4>2. PICK n : n = [k EXCEPT !.pc = "confirm"]
        OBVIOUS
      <4>3. "confirm" \in Places \ {"execute"} /\ "confirm" \notin Agreed /\ "confirm" \notin {"recover", "agent", "terminal"}
        BY DEF Places, Agreed, InTry
      <4>4. DepOK(n, w)
        BY <1>2, <4>2, <4>3, Moved
      <4>. QED  BY <1>1, <4>1, <4>2, <4>4
    <3>2. CASE k.stage = "ddl_apply"
      <4>1. AfterFix(d) = [dep[d] EXCEPT !.pc = "apply"]
        BY <1>1, <3>2, Zenon DEF AfterFix
      <4>2. PICK n : n = [k EXCEPT !.pc = "apply"]
        OBVIOUS
      <4>3. "apply" \in Places \ {"execute"} /\ "apply" \notin {"recover", "agent", "terminal"} /\ k.agreed
        BY <1>2, <2>1, <3>2 DEF Places, InTry, DepOK
      <4>4. DepOK(n, w)
        BY <1>2, <4>2, <4>3, Moved
      <4>. QED  BY <1>1, <4>1, <4>2, <4>4
    <3>3. CASE k.stage = "verify"
      <4>1. AfterFix(d) = [dep[d] EXCEPT !.pc = "apply", !.i = 1]
        BY <1>1, <3>3, Zenon DEF AfterFix
      <4>2. PICK m, n : m = [k EXCEPT !.pc = "apply"] /\ n = [k EXCEPT !.pc = "apply", !.i = 1]
        OBVIOUS
      <4>3. "apply" \in Places /\ k.agreed
        BY <1>2, <2>1, <3>3 DEF Places, InTry, DepOK
      <4>4. m \in Dep /\ m.pc = "apply" /\ m.agreed = k.agreed /\ m.status = k.status
        BY <1>2, <4>2, <4>3 DEF Dep
      <4>5. n = [m EXCEPT !.i = 1]
        BY <4>2
      <4>6. n \in Dep /\ n.pc = "apply" /\ n.agreed = k.agreed /\ n.status = k.status
        BY <4>4, <4>5 DEF Dep
      <4>7. DepOK(n, w)
        BY <1>2, <4>3, <4>6 DEF DepOK
      <4>. QED  BY <1>1, <4>1, <4>2, <4>7
    <3>. QED  BY <3>1, <3>2, <3>3 DEF Stages
  <2>6. k.stage \in Stages
    BY <1>2, <2>1 DEF DepOK
  <2>7. PICK m : m = IF fixed THEN AfterFix(d) ELSE Ending(d, "failed")
    OBVIOUS
  <2>8. DepOK(m, w) /\ m \in Dep
    BY <2>4, <2>5, <2>6, <2>7 DEF DepOK
  <2>9. PICK n : n = [m EXCEPT !.child = 0]
    OBVIOUS
  <2>10. n \in Dep /\ n.pc = m.pc /\ n.stage = m.stage /\ n.agreed = m.agreed /\ n.status = m.status /\ n.stmts = m.stmts
    BY <2>8, <2>9 DEF Dep
  <2>11. DepOK(n, w)
    BY <2>8, <2>10 DEF DepOK
  <2>12. Set(d, n)
    BY <2>2, <2>7, <2>9
  <2>. QED  BY <1>2, <1>3, <2>1, <2>3, <2>11, <2>12
<1>. QED  BY <1>4, <1>5, <1>6, <1>7

LEMMA EndKeeps == ASSUME DeployOK, NEW d \in Deploys, EndRow(d) \/ RecordRun(d) PROVE DeployOK'
<1>1. PICK k, w : k = dep[d] /\ w = wh[d]
  OBVIOUS
<1>2. DepOK(k, w) /\ k \in Dep /\ wh = [wh EXCEPT ![d] = w]
      /\ drun \in Seq([parent : Nat, status : DeployStatus]) /\ ddl \in DdlFiles
  BY <1>1 DEF DeployOK, DepOK
<1>3. PICK p \in {"record", "returned"} : Move(d, p)
  BY DEF EndRow, RecordRun
<1>4. wh' = wh /\ ddl' = ddl
  BY DEF EndRow, RecordRun
<1>5. drun' \in Seq([parent : Nat, status : DeployStatus])
  <2>1. CASE EndRow(d)
    <3>1. k.pc = "terminal" /\ drun' = [drun EXCEPT ![k.run].status = k.status]
      BY <1>1, <2>1 DEF EndRow, In
    <3>2. k.status \in DeployStatus
      <4>1. k.status \in DeployTerminal
        BY <1>2, <3>1 DEF DepOK, Dep
      <4>. QED  BY <4>1 DEF DeployTerminal
    <3>. QED  BY <1>2, <3>1, <3>2, RowSet
  <2>2. CASE RecordRun(d)
    BY <1>2, <2>2 DEF RecordRun
  <2>. QED  BY <2>1, <2>2
<1>6. PICK n : n = [k EXCEPT !.pc = p]
  OBVIOUS
<1>7. p \in Places \ {"execute"} /\ p \notin Agreed /\ p \notin {"recover", "agent", "terminal"}
  BY <1>3 DEF Places, Agreed
<1>8. DepOK(n, w)
  BY <1>2, <1>6, <1>7, Moved
<1>9. Set(d, n)
  BY <1>1, <1>3, <1>6 DEF Move
<1>. QED  BY <1>2, <1>4, <1>5, <1>8, <1>9, OneDeploy

LEMMA DeployStepKeeps == DeployOK /\ [DeployNext]_deployVars => DeployOK'
<1>. SUFFICES ASSUME DeployOK, [DeployNext]_deployVars PROVE DeployOK'
  OBVIOUS
<1>1. CASE Commit \/ OtherDeployWrites
  <2>1. dep' = dep /\ wh' = wh /\ drun' = drun /\ ddl' \in DdlFiles
    BY <1>1 DEF Commit, OtherDeployWrites, DeployOK
  <2>. QED  BY <2>1 DEF DeployOK
<1>2. ASSUME NEW d \in Deploys, DeployStep(d) PROVE DeployOK'
  BY <1>2, PhasesKeep, ApplyKeeps, AgentKeeps, EndKeeps DEF DeployStep
<1>3. CASE UNCHANGED deployVars
  BY <1>3 DEF deployVars, DeployOK
<1>. QED  BY <1>1, <1>2, <1>3 DEF DeployNext

\* A run is recorded as a success only if its destination passed verification.
THEOREM SuccessesAreVerified == DeploySpec => []SuccessIsVerified
<1>1. DeployOK => SuccessIsVerified
  BY DEF DeployOK, DepOK, SuccessIsVerified, Verified
<1>. QED  BY <1>1, DeployStarts, DeployStepKeeps, PTL DEF DeploySpec

\* No forbidden statement reaches a destination, and nothing before its user agreed.
THEOREM DdlIsSafe == DeploySpec => []SafeDdl
<1>1. DeployOK => SafeDdl
  BY DEF DeployOK, DepOK, SafeDdl, OnlySafeDdl, ConsentFirst
<1>. QED  BY <1>1, DeployStarts, DeployStepKeeps, PTL DEF DeploySpec

-----------------------------------------------------------------------------
(* carve el run: the processes and the threads of a run.                   *)

\* A run: every line its processes wrote is in the pipe or in the logs or failed, the
\* streamer goes on to finalise when nobody holds the pipe any more, and only a
\* run that was never started or whose streamer is done is terminal.
JobOK(j) ==
    /\ j \in Job
    /\ j.written = j.pipe + j.logs + j.unlogged
    /\ j.streamer \in {"final", "done"} => j.pipe = 0 /\ j.child = "exited" /\ ~j.helper
    /\ j.streamer = "none" => j.child = "none" /\ ~j.helper /\ j.written = 0
    /\ j.child = "none" => j.streamer = "none"
    /\ j.status \in Terminal => j.streamer \in {"none", "done"}
    /\ j.status = "pending" => j.streamer = "none"
JobsOK == job \in Seq(Job) /\ Len(job) <= MaxJobs /\ \A r \in DOMAIN job : JobOK(job[r])

ExitCodes == {-9, -15, 0, 1, 2}
Exit(j, c) == [j EXCEPT !.child = "exited", !.code = c]
\* A process that ends leaves the rest of its run alone.
LEMMA Exited ==
    ASSUME NEW j \in Job, NEW c \in ExitCodes, NEW k, k = Exit(j, c)
    PROVE  k \in Job /\ k.pipe = j.pipe /\ k.written = j.written /\ k.logs = j.logs /\ k.unlogged = j.unlogged /\ k.streamer = j.streamer
           /\ k.child = "exited" /\ k.helper = j.helper /\ k.status = j.status /\ k.parent = j.parent
<1>1. PICK m : m = [j EXCEPT !.child = "exited"]
  OBVIOUS
<1>2. m \in Job /\ m.pipe = j.pipe /\ m.written = j.written /\ m.logs = j.logs /\ m.unlogged = j.unlogged /\ m.streamer = j.streamer
      /\ m.child = "exited" /\ m.helper = j.helper /\ m.status = j.status /\ m.parent = j.parent
  BY <1>1 DEF Job
<1>3. k = [m EXCEPT !.code = c]
  BY <1>1 DEF Exit
<1>. QED  BY <1>2, <1>3 DEF Job, ExitCodes

\* Threads and scripts touch neither a run that has not started nor one that has
\* ended, nor any run's parent.
Kept(j, k) == /\ k.parent = j.parent
              /\ j.status \in Terminal \/ j.streamer = "none" => k = j
LEMMA JobSteps ==
    ASSUME NEW r \in DOMAIN job, job \in Seq(Job), JobOK(job[r]), ThreadStep(r) \/ ScriptStep(r)
    PROVE  \E k \in Job : JobOK(k) /\ Kept(job[r], k) /\ job' = [job EXCEPT ![r] = k]
<1>. PICK j : j = job[r]
  OBVIOUS
<1>1. j \in Job /\ JobOK(j)
  OBVIOUS
<1>2. j.pipe \in Nat /\ j.logs \in Nat /\ j.written \in Nat /\ j.unlogged \in Nat
      /\ j.written = j.pipe + j.logs + j.unlogged /\ j.written <= MaxLines
  <2>1. j.pipe \in 0..MaxLines /\ j.logs \in 0..MaxLines /\ j.written \in 0..MaxLines /\ j.unlogged \in 0..MaxLines
    BY <1>1, ZenonT(60) DEF Job
  <2>2. j.written = j.pipe + j.logs + j.unlogged
    BY <1>1 DEF JobOK
  <2>. QED  BY <2>1, <2>2, LocalVenvAssumption
<1>3. CASE ChildWrites(r)
  <2>1. PICK k : k = [j EXCEPT !.pipe = @ + 1, !.written = @ + 1]
    OBVIOUS
  <2>2. job' = [job EXCEPT ![r] = k]
    BY <1>3, <2>1 DEF ChildWrites
  <2>3. j.written < MaxLines /\ (j.child = "alive" \/ j.helper)
    BY <1>3 DEF ChildWrites
  <2>4. j.pipe + 1 \in 0..MaxLines /\ j.written + 1 \in 0..MaxLines
    BY <1>2, <2>3, LocalVenvAssumption
  <2>5. k \in Job /\ k.pipe = j.pipe + 1 /\ k.written = j.written + 1 /\ k.logs = j.logs /\ k.unlogged = j.unlogged /\ k.streamer = j.streamer
        /\ k.child = j.child /\ k.helper = j.helper /\ k.status = j.status /\ k.parent = j.parent
    BY <1>1, <2>1, <2>4, ZenonT(60) DEF Job
  <2>6. JobOK(k)
    <3>1. k.written = k.pipe + k.logs + k.unlogged
      BY <1>2, <2>5
    <3>. QED  BY <1>1, <2>3, <2>5, <3>1 DEF JobOK
  <2>7. Kept(j, k)
    BY <1>1, <2>3, <2>5 DEF JobOK, Kept
  <2>. QED  BY <2>2, <2>5, <2>6, <2>7
<1>4. CASE ChildForks(r)
  <2>1. PICK k : k = [j EXCEPT !.helper = TRUE]
    OBVIOUS
  <2>2. job' = [job EXCEPT ![r] = k] /\ j.child = "alive"
    BY <1>4, <2>1 DEF ChildForks
  <2>5. k \in Job /\ k.pipe = j.pipe /\ k.written = j.written /\ k.logs = j.logs /\ k.unlogged = j.unlogged /\ k.streamer = j.streamer
        /\ k.child = j.child /\ k.status = j.status /\ k.parent = j.parent
    BY <1>1, <2>1, ZenonT(60) DEF Job
  <2>6. JobOK(k)
    BY <1>1, <2>2, <2>5 DEF JobOK
  <2>7. Kept(j, k)
    BY <1>1, <2>2, <2>5 DEF JobOK, Kept
  <2>. QED  BY <2>2, <2>5, <2>6, <2>7
<1>5. CASE ChildExits(r)
  <2>. PICK c : c = ExitCode(j.defect)
    OBVIOUS
  <2>1. PICK k : k = Exit(j, c)
    OBVIOUS
  <2>2. job' = [job EXCEPT ![r] = k] /\ j.child = "alive"
    BY <1>5, <2>1 DEF ChildExits, Dies, Exit
  <2>3. c \in ExitCodes
    BY Zenon DEF ExitCode, ExitCodes
  <2>5. k \in Job /\ k.pipe = j.pipe /\ k.written = j.written /\ k.logs = j.logs /\ k.unlogged = j.unlogged /\ k.streamer = j.streamer
        /\ k.child = "exited" /\ k.helper = j.helper /\ k.status = j.status /\ k.parent = j.parent
    BY <1>1, <2>1, <2>3, Exited
  <2>6. JobOK(k)
    BY <1>1, <2>2, <2>5 DEF JobOK
  <2>7. Kept(j, k)
    BY <1>1, <2>2, <2>5 DEF JobOK, Kept
  <2>. QED  BY <2>2, <2>5, <2>6, <2>7
<1>6. CASE HelperExits(r)
  <2>1. PICK k : k = [j EXCEPT !.helper = FALSE]
    OBVIOUS
  <2>2. job' = [job EXCEPT ![r] = k] /\ j.helper
    BY <1>6, <2>1 DEF HelperExits
  <2>5. k \in Job /\ k.pipe = j.pipe /\ k.written = j.written /\ k.logs = j.logs /\ k.unlogged = j.unlogged /\ k.streamer = j.streamer
        /\ k.child = j.child /\ ~k.helper /\ k.status = j.status /\ k.parent = j.parent
    BY <1>1, <2>1, ZenonT(60) DEF Job
  <2>6. JobOK(k)
    BY <1>1, <2>2, <2>5 DEF JobOK
  <2>7. Kept(j, k)
    BY <1>1, <2>2, <2>5 DEF JobOK, Kept
  <2>. QED  BY <2>2, <2>5, <2>6, <2>7
<1>7. CASE StreamLine(r)
  <2>10. PICK a : a = [j EXCEPT !.pipe = @ - 1, !.logs = @ + 1]
    OBVIOUS
  <2>11. PICK b : b = [j EXCEPT !.pipe = @ - 1, !.unlogged = @ + 1]
    OBVIOUS
  <2>12. job' = [job EXCEPT ![r] = a] \/ job' = [job EXCEPT ![r] = b]
    BY <1>7, <2>10, <2>11 DEF StreamLine
  <2>1. PICK k : /\ k = a \/ k = b
                 /\ job' = [job EXCEPT ![r] = k]
    BY <2>12
  <2>2. j.streamer = "reading" /\ j.pipe > 0
    BY <1>7 DEF StreamLine
  <2>4. j.pipe - 1 \in 0..MaxLines /\ j.logs + 1 \in 0..MaxLines /\ j.unlogged + 1 \in 0..MaxLines
    <3>1. ASSUME NEW p \in Nat, NEW l \in Nat, NEW u \in Nat, NEW w \in Nat, NEW m \in Nat,
                 w = p + l + u, w <= m, p > 0
          PROVE  p - 1 \in 0..m /\ l + 1 \in 0..m /\ u + 1 \in 0..m
      BY <3>1
    <3>. QED  BY <1>2, <2>2, <3>1, LocalVenvAssumption
  <2>5. k \in Job /\ k.pipe = j.pipe - 1 /\ k.written = j.written /\ k.streamer = j.streamer
        /\ k.child = j.child /\ k.helper = j.helper /\ k.status = j.status /\ k.parent = j.parent
        /\ \/ k.logs = j.logs + 1 /\ k.unlogged = j.unlogged
           \/ k.logs = j.logs /\ k.unlogged = j.unlogged + 1
    <3>1. CASE k = a
      BY <1>1, <2>10, <2>4, <3>1, ZenonT(60) DEF Job
    <3>2. CASE k = b
      BY <1>1, <2>11, <2>4, <3>2, ZenonT(60) DEF Job
    <3>. QED  BY <2>1, <3>1, <3>2
  <2>8. k.written = k.pipe + k.logs + k.unlogged
    <3>1. PICK p \in Nat : p = j.pipe
      BY <1>2
    <3>2. PICK l \in Nat : l = j.logs
      BY <1>2
    <3>3. PICK u \in Nat : u = j.unlogged
      BY <1>2
    <3>4. j.written = p + l + u /\ k.written = p + l + u /\ k.pipe = p - 1
      BY <1>2, <2>5, <3>1, <3>2, <3>3, Zenon
    <3>5. \/ k.logs = l + 1 /\ k.unlogged = u
          \/ k.logs = l /\ k.unlogged = u + 1
      BY <2>5, <3>2, <3>3, Zenon
    <3>6. p + l + u = (p - 1) + (l + 1) + u /\ p + l + u = (p - 1) + l + (u + 1)
      OBVIOUS
    <3>. QED  BY <3>4, <3>5, <3>6, Zenon
  <2>6. JobOK(k)
    BY <1>1, <2>2, <2>5, <2>8 DEF JobOK
  <2>7. Kept(j, k)
    BY <1>1, <2>2, <2>5 DEF JobOK, Kept
  <2>. QED  BY <2>1, <2>5, <2>6, <2>7
<1>8. CASE StreamEnd(r)
  <2>1. PICK k : k = [j EXCEPT !.streamer = "final"]
    OBVIOUS
  <2>2. job' = [job EXCEPT ![r] = k] /\ j.streamer = "reading" /\ j.pipe = 0 /\ j.child = "exited" /\ ~j.helper
    BY <1>8, <2>1 DEF StreamEnd
  <2>5. k \in Job /\ k.pipe = j.pipe /\ k.written = j.written /\ k.logs = j.logs /\ k.unlogged = j.unlogged /\ k.streamer = "final"
        /\ k.child = j.child /\ k.helper = j.helper /\ k.status = j.status /\ k.parent = j.parent
    BY <1>1, <2>1, ZenonT(60) DEF Job
  <2>6. JobOK(k)
    BY <1>1, <2>2, <2>5 DEF JobOK
  <2>7. Kept(j, k)
    BY <1>1, <2>2, <2>5 DEF JobOK, Kept
  <2>. QED  BY <2>2, <2>5, <2>6, <2>7
<1>9. CASE _finalize_run(r)
  <2>1. PICK s : s = Status(j.code)
    OBVIOUS
  <2>2. PICK e : e = ErrorText(j.code)
    OBVIOUS
  <2>3. s \in Terminal
    BY <2>1, Zenon DEF Status, Terminal
  <2>4. e \in {"", "signal", "code_1", "code_2", "bad_script"}
    BY <2>2, Zenon DEF ErrorText
  <2>5. PICK k : k = [j EXCEPT !.streamer = "done", !.watchdog = "none", !.status = s, !.error = e]
    OBVIOUS
  <2>10. PICK x : x = [j EXCEPT !.streamer = "done", !.watchdog = "none"]
    OBVIOUS
  <2>6. j.streamer = "final" /\ (job' = [job EXCEPT ![r] = k] \/ job' = [job EXCEPT ![r] = x])
    BY <1>9, <2>1, <2>2, <2>5, <2>10 DEF _finalize_run
  <2>7. k \in Job /\ k.pipe = j.pipe /\ k.written = j.written /\ k.logs = j.logs /\ k.unlogged = j.unlogged /\ k.streamer = "done"
        /\ k.child = j.child /\ k.helper = j.helper /\ k.status = s /\ k.parent = j.parent
    <3>1. PICK m : m = [j EXCEPT !.streamer = "done", !.watchdog = "none"]
      OBVIOUS
    <3>2. m \in Job /\ m.pipe = j.pipe /\ m.written = j.written /\ m.logs = j.logs /\ m.unlogged = j.unlogged /\ m.streamer = "done"
          /\ m.child = j.child /\ m.helper = j.helper /\ m.parent = j.parent
      BY <1>1, <3>1, ZenonT(60) DEF Job
    <3>3. PICK o : o = [m EXCEPT !.status = s]
      OBVIOUS
    <3>4. o \in Job /\ o.pipe = j.pipe /\ o.written = j.written /\ o.logs = j.logs /\ o.unlogged = j.unlogged /\ o.streamer = "done"
          /\ o.child = j.child /\ o.helper = j.helper /\ o.parent = j.parent /\ o.status = s
      BY <2>3, <3>2, <3>3, ZenonT(60) DEF Job
    <3>5. k = [o EXCEPT !.error = e]
      BY <2>5, <3>1, <3>3
    <3>. QED  BY <2>4, <3>4, <3>5 DEF Job
  <2>8. JobOK(k)
    BY <1>1, <2>3, <2>6, <2>7 DEF JobOK, Terminal
  <2>9. Kept(j, k)
    BY <1>1, <2>6, <2>7 DEF JobOK, Kept
  <2>11. x \in Job /\ x.pipe = j.pipe /\ x.written = j.written /\ x.logs = j.logs /\ x.unlogged = j.unlogged
         /\ x.streamer = "done" /\ x.child = j.child /\ x.helper = j.helper /\ x.status = j.status /\ x.parent = j.parent
    BY <1>1, <2>10, ZenonT(60) DEF Job
  <2>12. JobOK(x)
    BY <1>1, <2>6, <2>11 DEF JobOK
  <2>13. Kept(j, x)
    BY <1>1, <2>6, <2>11 DEF JobOK, Kept
  <2>. QED  BY <2>6, <2>7, <2>8, <2>9, <2>11, <2>12, <2>13
<1>10. CASE WatchdogFires(r)
  <2>1. PICK gone \in {Dies(r, -15), Dies(r, 0), job[r]}, h \in BOOLEAN :
            job' = [job EXCEPT ![r] = [gone EXCEPT !.watchdog = "waiting", !.helper = h /\ job[r].helper]]
    BY <1>10 DEF WatchdogFires
  <2>2. j.streamer = "reading" /\ j.child = "alive"
    BY <1>10 DEF WatchdogFires
  <2>3. gone \in Job /\ gone.pipe = j.pipe /\ gone.written = j.written /\ gone.logs = j.logs /\ gone.unlogged = j.unlogged /\ gone.streamer = j.streamer
        /\ gone.child # "none" /\ gone.status = j.status /\ gone.parent = j.parent
    BY <1>1, <2>1, <2>2 DEF Job, Dies
  <2>4. PICK g \in BOOLEAN : g = (h /\ job[r].helper)
    BY <1>1, <2>1, ZenonT(60) DEF Job
  <2>5. PICK k : k = [gone EXCEPT !.watchdog = "waiting", !.helper = g]
    OBVIOUS
  <2>6. job' = [job EXCEPT ![r] = k]
    BY <2>1, <2>4, <2>5
  <2>7. k \in Job /\ k.pipe = j.pipe /\ k.written = j.written /\ k.logs = j.logs /\ k.unlogged = j.unlogged /\ k.streamer = j.streamer
        /\ k.child # "none" /\ k.status = j.status /\ k.parent = j.parent
    BY <2>3, <2>4, <2>5 DEF Job
  <2>8. JobOK(k)
    BY <1>1, <2>2, <2>7 DEF JobOK
  <2>9. Kept(j, k)
    BY <1>1, <2>2, <2>7 DEF JobOK, Kept
  <2>. QED  BY <2>6, <2>7, <2>8, <2>9
<1>11. CASE WatchdogKills(r)
  <2>1. PICK k : k = [j EXCEPT !.child = "exited", !.code = -9, !.watchdog = "none", !.helper = FALSE]
    OBVIOUS
  <2>2. job' = [job EXCEPT ![r] = k] /\ j.child = "alive"
    BY <1>11, <2>1 DEF WatchdogKills, Dies
  <2>3. k \in Job /\ k.pipe = j.pipe /\ k.written = j.written /\ k.logs = j.logs /\ k.unlogged = j.unlogged /\ k.streamer = j.streamer
        /\ k.child = "exited" /\ ~k.helper /\ k.status = j.status /\ k.parent = j.parent
    <3>. PICK c : c = -9
      OBVIOUS
    <3>0. c \in ExitCodes
      BY DEF ExitCodes
    <3>1. PICK m : m = Exit(j, c)
      OBVIOUS
    <3>2. m \in Job /\ m.pipe = j.pipe /\ m.written = j.written /\ m.logs = j.logs /\ m.unlogged = j.unlogged /\ m.streamer = j.streamer
          /\ m.child = "exited" /\ m.status = j.status /\ m.parent = j.parent
      BY <1>1, <3>0, <3>1, Exited
    <3>3. k = [m EXCEPT !.watchdog = "none", !.helper = FALSE]
      BY <2>1, <3>1 DEF Exit
    <3>. QED  BY <3>2, <3>3 DEF Job
  <2>4. JobOK(k)
    BY <1>1, <2>2, <2>3 DEF JobOK
  <2>5. Kept(j, k)
    BY <1>1, <2>2, <2>3 DEF JobOK, Kept
  <2>. QED  BY <2>2, <2>3, <2>4, <2>5
<1>. QED  BY <1>3, <1>4, <1>5, <1>6, <1>7, <1>8, <1>9, <1>10, <1>11 DEF ThreadStep, ScriptStep

-----------------------------------------------------------------------------
(* carve el run: the command.                                              *)

RunPlaces == {"start", "execute", "spawn", "logs", "status", "record", "result", "agent",
              "end", "waiting", "returned", "raised"}
Outcomes == {"none", "recovered", "failed", "repeated_error", "refused", "exhausted", "aborted"}
RunErrors == {"", "signal", "code_1", "code_2", "bad_script"}
Cmd == [pc : RunPlaces, fix : BOOLEAN, watching : BOOLEAN, attempt : 0..MaxAttempts, run : 0..MaxJobs,
        failed : 0..MaxJobs, error : RunErrors, history : SUBSET Diagnoses, seen : 0..MaxLines,
        quiet : BOOLEAN, outcome : Outcomes]

Starting == {"execute", "spawn"}
Following == {"logs", "status", "record"}
Lost(J, r) == J[r].status \in Terminal \ {"success"}
Unretried(J, r) == \A q \in DOMAIN J : J[q].parent # r

\* A run that has a parent is the one retry of a run that ended without success.
Chained(J) ==
    \A r \in DOMAIN J :
        J[r].parent # 0 =>
            /\ J[r].parent \in DOMAIN J /\ Lost(J, J[r].parent)
            /\ \A q \in DOMAIN J : J[q].parent = J[r].parent => q = r

\* A command c over the runs J: its run is not retried while it follows it, and
\* what it goes on to retry has ended without success and has no retry yet.
CmdOK(c, J) ==
    /\ c \in Cmd
    /\ c.run \in 0..Len(J) /\ c.failed \in 0..Len(J)
    /\ c.pc \in {"agent", "start"} /\ c.failed # 0 => Lost(J, c.failed) /\ Unretried(J, c.failed)
    /\ c.pc \in Starting \cup Following => c.run # 0
    /\ c.pc \in Starting => J[c.run].status = "pending"
    /\ c.pc \in Starting \cup Following \cup {"result"} /\ c.run # 0 => Unretried(J, c.run)
    /\ c.pc \in {"record", "result"} /\ c.run # 0 => J[c.run].status \in Terminal

RunsOK == JobsOK /\ Chained(job) /\ CmdOK(cmd, job) /\ script \in Scripts

LEMMA RunsRecordedByOK == RunsOK => RunsRecorded
<1>. SUFFICES ASSUME RunsOK PROVE RunsRecorded
  OBVIOUS
<1>1. cmd.attempt \in 0..MaxAttempts
  BY DEF RunsOK, CmdOK, Cmd
<1>2. cmd.attempt <= MaxAttempts
  BY <1>1, ElRunAssumption
<1>3. RetryChain
  BY <1>2 DEF RunsOK, Chained, Lost, RetryChain
<1>4. ASSUME NEW r \in DOMAIN job, job[r].status \in Terminal PROVE job[r].logs + job[r].unlogged = job[r].written
  <2>1. PICK j : j = job[r]
    OBVIOUS
  <2>2. JobOK(j) /\ j.status \in Terminal
    BY <1>4, <2>1 DEF RunsOK, JobsOK
  <2>3. /\ j.pipe \in 0..MaxLines /\ j.logs \in 0..MaxLines /\ j.unlogged \in 0..MaxLines
        /\ j.written \in 0..MaxLines /\ j.written = j.pipe + j.logs + j.unlogged
    BY <2>2 DEF JobOK, Job
  <2>4. j.pipe = 0 \/ j.written = 0
    BY <2>2 DEF JobOK
  <2>. QED  BY <2>1, <2>3, <2>4, LocalVenvAssumption
<1>. QED  BY <1>3, <1>4 DEF RunsRecorded, OutputInLogs

\* A step of a run's process or threads disturbs neither the chain nor the command.
LEMMA JobStepsKeep ==
    ASSUME RunsOK, NEW r \in DOMAIN job, NEW k \in Job, JobOK(k), Kept(job[r], k), job' = [job EXCEPT ![r] = k],
           UNCHANGED <<cmd, script>>
    PROVE  RunsOK'
<1>1. job \in Seq(Job) /\ Len(job) <= MaxJobs /\ \A q \in DOMAIN job : JobOK(job[q])
  BY DEF RunsOK, JobsOK
<1>2. job' \in Seq(Job) /\ Len(job') = Len(job) /\ DOMAIN job' = DOMAIN job
  BY <1>1
<1>3. \A q \in DOMAIN job : job'[q] = IF q = r THEN k ELSE job[q]
  BY <1>1
<1>4. \A q \in DOMAIN job : JobOK(job'[q])
  BY <1>1, <1>3
<1>5. \A q \in DOMAIN job : job'[q].parent = job[q].parent
  BY <1>3 DEF Kept
<1>6. \A q \in DOMAIN job : job[q].status \in Terminal \/ job[q].status = "pending" => job'[q] = job[q]
  BY <1>1, <1>3 DEF Kept, JobOK
<1>7. JobsOK'
  BY <1>1, <1>2, <1>4 DEF JobsOK
<1>8. Chained(job)'
  BY <1>2, <1>5, <1>6 DEF RunsOK, Chained, Lost
<1>9. CmdOK(cmd, job)'
  <2>1. PICK c : c = cmd
    OBVIOUS
  <2>2. PICK J : J = job'
    OBVIOUS
  <2>3. CmdOK(c, job)
    BY <2>1 DEF RunsOK
  <2>4. \A n \in 0..Len(job) : Unretried(job, n) => Unretried(J, n)
    BY <1>2, <1>5, <2>2 DEF Unretried
  <2>5. \A n \in 0..Len(job) : n # 0 => n \in DOMAIN job
    BY <1>1
  <2>6. CmdOK(c, J)
    BY <1>2, <1>6, <2>2, <2>3, <2>4, <2>5 DEF CmdOK, Lost
  <2>. QED  BY <2>1, <2>2, <2>6
<1>. QED  BY <1>7, <1>8, <1>9 DEF RunsOK

\* A command that moves to p.
LEMMA RunMoves ==
    ASSUME NEW k \in Cmd, NEW p \in RunPlaces, NEW n, n = [k EXCEPT !.pc = p]
    PROVE  n \in Cmd /\ n.pc = p /\ n.run = k.run /\ n.failed = k.failed /\ n.outcome = k.outcome
           /\ n.watching = k.watching
BY DEF Cmd

\* A command whose recovery loop is over.
LEMMA EndsKeep ==
    ASSUME RunsOK, NEW o \in Outcomes, cmd' = Ends(o), UNCHANGED <<job, script>>
    PROVE  RunsOK' /\ cmd'.pc = "end" /\ cmd'.outcome = o /\ cmd'.watching = cmd.watching
<1>1. PICK k : k = cmd
  OBVIOUS
<1>2. PICK n : n = [k EXCEPT !.pc = "end", !.outcome = o, !.history = {}]
  OBVIOUS
<1>3. CmdOK(k, job) /\ k \in Cmd
  BY <1>1 DEF RunsOK, CmdOK
<1>4. n \in Cmd /\ n.pc = "end" /\ n.run = k.run /\ n.failed = k.failed /\ n.outcome = o /\ n.watching = k.watching
  BY <1>2, <1>3 DEF Cmd, RunPlaces
<1>5. CmdOK(n, job)
  BY <1>3, <1>4 DEF CmdOK, Starting, Following
<1>6. cmd' = n
  BY <1>1, <1>2 DEF Ends
<1>. QED  BY <1>1, <1>4, <1>5, <1>6 DEF RunsOK, JobsOK

\* StartRun appends a run whose parent, if it has one, had no retry.
LEMMA StartKeeps ==
    ASSUME RunsOK, StartRun
    PROVE  RunsOK' /\ cmd'.outcome = cmd.outcome /\ cmd'.watching = cmd.watching
<1>1. PICK k : k = cmd
  OBVIOUS
<1>2. CmdOK(k, job) /\ k \in Cmd /\ k.pc = "start"
  BY <1>1 DEF RunsOK, CmdOK, StartRun, At
<1>3. job \in Seq(Job) /\ Len(job) \in Nat /\ Len(job) <= MaxJobs /\ \A r \in DOMAIN job : JobOK(job[r])
  BY DEF RunsOK, JobsOK
<1>4. CASE script = "missing"
  <2>1. PICK n : n = [k EXCEPT !.pc = "result", !.run = 0]
    OBVIOUS
  <2>2. cmd' = n /\ UNCHANGED <<job, script>>
    BY <1>1, <1>4, <2>1 DEF StartRun
  <2>3. n \in Cmd /\ n.pc = "result" /\ n.run = 0 /\ n.failed = k.failed /\ n.outcome = k.outcome
        /\ n.watching = k.watching
    <3>1. PICK m : m = [k EXCEPT !.pc = "result"]
      OBVIOUS
    <3>2. m \in Cmd /\ m.pc = "result" /\ m.failed = k.failed /\ m.outcome = k.outcome /\ m.watching = k.watching
      BY <1>2, <3>1 DEF Cmd, RunPlaces
    <3>3. n = [m EXCEPT !.run = 0] /\ 0 \in 0..MaxJobs
      BY <2>1, <3>1, LocalVenvAssumption
    <3>. QED  BY <3>2, <3>3 DEF Cmd
  <2>4. CmdOK(n, job)
    BY <1>2, <1>3, <2>3 DEF CmdOK, Starting, Following
  <2>. QED  BY <1>1, <2>2, <2>3, <2>4 DEF RunsOK, JobsOK
<1>5. CASE script # "missing"
  <2>1. PICK n : n = [k EXCEPT !.pc = "execute", !.run = Len(job) + 1, !.seen = 0]
    OBVIOUS
  <2>2. PICK j : j = NewJob(k.failed)
    OBVIOUS
  <2>3. cmd' = n /\ job' = Append(job, j) /\ Len(job) < MaxJobs /\ UNCHANGED script
    BY <1>1, <1>5, <2>1, <2>2 DEF StartRun
  <2>4. k.failed \in 0..Len(job) /\ k.failed \in 0..MaxJobs
    BY <1>2 DEF CmdOK, Cmd
  <2>5. j \in Job /\ j.parent = k.failed /\ j.status = "pending" /\ j.streamer = "none" /\ j.child = "none" /\ ~j.helper
        /\ j.written = 0 /\ j.pipe = 0 /\ j.logs = 0 /\ j.unlogged = 0
    <3>1. 0 \in 0..MaxLines
      BY LocalVenvAssumption
    <3>2. 0 \in {-9, -15, 0, 1, 2} /\ "none" \in Defects
      BY DEF Defects
    <3>3. PICK p \in 0..MaxJobs : p = k.failed
      BY <2>4
    <3>. QED  BY <2>2, <3>1, <3>2, <3>3 DEF NewJob, Job
  <2>6. JobOK(j)
    BY <2>5 DEF JobOK, Terminal
  <2>7. job' \in Seq(Job) /\ Len(job') = Len(job) + 1 /\ DOMAIN job' = DOMAIN job \cup {Len(job) + 1}
        /\ job'[Len(job) + 1] = j /\ \A q \in DOMAIN job : job'[q] = job[q]
    BY <1>3, <2>3, <2>5
  <2>8. JobsOK'
    <3>1. \A q \in DOMAIN job' : JobOK(job'[q])
      BY <1>3, <2>6, <2>7
    <3>2. Len(job') <= MaxJobs
      BY <1>3, <2>3, <2>7, LocalVenvAssumption
    <3>. QED  BY <2>7, <3>1, <3>2 DEF JobsOK
  <2>9. k.failed # 0 => Lost(job, k.failed) /\ Unretried(job, k.failed) /\ k.failed \in DOMAIN job
    BY <1>2, <1>3, <2>4 DEF CmdOK
  <2>10. Chained(job)'
    <3>1. PICK J : J = job'
      OBVIOUS
    <3>2. \A r \in DOMAIN J : r = Len(job) + 1 \/ r \in DOMAIN job
      BY <2>7, <3>1
    <3>3. \A q \in DOMAIN job : J[q].parent = job[q].parent /\ J[q].status = job[q].status
      BY <2>7, <3>1
    <3>4. J[Len(job) + 1].parent = k.failed
      BY <2>5, <2>7, <3>1
    <3>5. Chained(job)
      BY DEF RunsOK
    <3>6. \A r \in DOMAIN job : J[r].parent # 0 => J[r].parent \in DOMAIN job /\ Lost(J, J[r].parent)
      BY <3>3, <3>5 DEF Chained, Lost
    <3>7. k.failed # 0 => k.failed \in DOMAIN job /\ Lost(J, k.failed) /\ \A q \in DOMAIN job : J[q].parent # k.failed
      BY <2>9, <3>3 DEF Lost, Unretried
    <3>8. \A r, q \in DOMAIN job : J[r].parent # 0 /\ J[q].parent = J[r].parent => q = r
      BY <3>3, <3>5 DEF Chained
    <3>9. DOMAIN job \subseteq DOMAIN J
      BY <2>7, <3>1
    <3>10. Chained(J)
      BY <3>2, <3>4, <3>6, <3>7, <3>8, <3>9 DEF Chained
    <3>. QED  BY <3>1, <3>10
  <2>11. Len(job) + 1 \in 0..MaxJobs
    BY <1>3, <2>3, LocalVenvAssumption
  <2>12. n \in Cmd /\ n.pc = "execute" /\ n.run = Len(job) + 1 /\ n.failed = k.failed /\ n.outcome = k.outcome
         /\ n.watching = k.watching
    <3>1. PICK m : m = [k EXCEPT !.pc = "execute", !.run = Len(job) + 1]
      OBVIOUS
    <3>2. m \in Cmd /\ m.pc = "execute" /\ m.run = Len(job) + 1 /\ m.failed = k.failed /\ m.outcome = k.outcome
          /\ m.watching = k.watching
      BY <1>2, <2>11, <3>1 DEF Cmd, RunPlaces
    <3>3. n = [m EXCEPT !.seen = 0]
      BY <2>1, <3>1
    <3>. QED  BY <3>2, <3>3, LocalVenvAssumption DEF Cmd
  <2>13. Unretried(job', Len(job) + 1)
    <3>1. \A q \in DOMAIN job : job[q].parent # Len(job) + 1
      <4>1. ASSUME NEW q \in DOMAIN job PROVE job[q].parent # Len(job) + 1
        <5>1. job[q].parent = 0 \/ job[q].parent \in DOMAIN job
          BY DEF RunsOK, Chained
        <5>2. DOMAIN job = 1..Len(job)
          BY <1>3
        <5>. QED  BY <1>3, <5>1, <5>2
      <4>. QED  BY <4>1
    <3>2. k.failed # Len(job) + 1
      BY <1>3, <2>4
    <3>. QED  BY <2>5, <2>7, <3>1, <3>2 DEF Unretried
  <2>14. CmdOK(n, job')
    BY <1>3, <2>4, <2>5, <2>7, <2>12, <2>13 DEF CmdOK, Starting, Following
  <2>15. CmdOK(cmd, job)'
    BY <2>3, <2>14
  <2>. QED  BY <1>1, <2>3, <2>8, <2>10, <2>12, <2>15 DEF RunsOK
<1>. QED  BY <1>4, <1>5

\* The command changes the row of the run it starts.
LEMMA OwnRunChanges ==
    ASSUME RunsOK, cmd.pc = "spawn", NEW k \in Job, JobOK(k), k.parent = job[cmd.run].parent,
           job' = [job EXCEPT ![cmd.run] = k], UNCHANGED script,
           NEW n \in Cmd, cmd' = n, n.run = cmd.run, n.failed = cmd.failed, n.pc \in Following \cup {"result"},
           n.pc \in {"record", "result"} => k.status \in Terminal
    PROVE  RunsOK'
<1>1. job \in Seq(Job) /\ Len(job) \in Nat /\ Len(job) <= MaxJobs /\ \A q \in DOMAIN job : JobOK(job[q])
  BY DEF RunsOK, JobsOK
<1>2. CmdOK(cmd, job) /\ cmd.run # 0 /\ cmd.run \in 0..Len(job) /\ Unretried(job, cmd.run)
      /\ job[cmd.run].status = "pending"
  BY DEF RunsOK, CmdOK, Starting
<1>3. PICK r \in DOMAIN job : r = cmd.run
  BY <1>1, <1>2
<1>4. job' \in Seq(Job) /\ Len(job') = Len(job) /\ DOMAIN job' = DOMAIN job
      /\ \A q \in DOMAIN job : job'[q] = IF q = r THEN k ELSE job[q]
  BY <1>1, <1>3
<1>5. JobsOK'
  BY <1>1, <1>4 DEF JobsOK
<1>6. \A q \in DOMAIN job : job'[q].parent = job[q].parent
  BY <1>3, <1>4
<1>7. \A q \in DOMAIN job : Lost(job, q) => Lost(job', q)
  BY <1>2, <1>3, <1>4 DEF Lost, Terminal
<1>8. Chained(job)'
  <2>1. PICK J : J = job'
    OBVIOUS
  <2>2. DOMAIN J = DOMAIN job /\ \A q \in DOMAIN job : J[q].parent = job[q].parent
    BY <1>4, <1>6, <2>1
  <2>3. \A q \in DOMAIN job : Lost(job, q) => Lost(J, q)
    BY <1>7, <2>1
  <2>4. Chained(job)
    BY DEF RunsOK
  <2>5. Chained(J)
    BY <2>2, <2>3, <2>4 DEF Chained
  <2>. QED  BY <2>1, <2>5
<1>9. Unretried(job', r)
  BY <1>2, <1>3, <1>4, <1>6 DEF Unretried
<1>10. CmdOK(n, job')
  BY <1>2, <1>3, <1>4, <1>9 DEF CmdOK, Starting, Following
<1>. QED  BY <1>5, <1>8, <1>10 DEF RunsOK

\* What the command does while it executes and follows its run.
LEMMA FollowKeeps ==
    ASSUME RunsOK, Execute \/ SpawnScript \/ SpawnRefused \/ TailLogs \/ TailStatus \/ record_pipeline_run
    PROVE  RunsOK' /\ cmd'.outcome = cmd.outcome /\ cmd'.watching = cmd.watching /\ cmd'.pc # "waiting"
           /\ cmd'.pc # "end"
<1>1. PICK k : k = cmd
  OBVIOUS
<1>2. CmdOK(k, job) /\ k \in Cmd
  BY <1>1 DEF RunsOK, CmdOK
<1>3. job \in Seq(Job) /\ Len(job) \in Nat /\ Len(job) <= MaxJobs /\ \A r \in DOMAIN job : JobOK(job[r])
  BY DEF RunsOK, JobsOK
<1>4. CASE Execute
  <2>1. PICK p \in {"spawn", "raised"} : cmd' = [k EXCEPT !.pc = p]
    BY <1>1, <1>4 DEF Execute, Goto
  <2>2. k.pc = "execute" /\ UNCHANGED <<job, script>>
    BY <1>1, <1>4 DEF Execute, At
  <2>3. PICK n : n = [k EXCEPT !.pc = p]
    OBVIOUS
  <2>4. n \in Cmd /\ n.pc = p /\ n.run = k.run /\ n.failed = k.failed /\ n.outcome = k.outcome /\ n.watching = k.watching
    BY <1>2, <2>3 DEF Cmd, RunPlaces
  <2>5. CmdOK(n, job)
    BY <1>2, <2>2, <2>4 DEF CmdOK, Starting, Following
  <2>. QED  BY <1>1, <2>1, <2>2, <2>3, <2>4, <2>5 DEF RunsOK, JobsOK
<1>5. CASE SpawnScript
  <2>1. PICK n : n = [k EXCEPT !.pc = "logs"]
    OBVIOUS
  <2>2. cmd' = n /\ k.pc = "spawn" /\ UNCHANGED script
    BY <1>1, <1>5, <2>1 DEF SpawnScript, At, Goto
  <2>3. n \in Cmd /\ n.pc = "logs" /\ n.run = k.run /\ n.failed = k.failed /\ n.outcome = k.outcome
        /\ n.watching = k.watching
    BY <1>2, <2>1 DEF Cmd, RunPlaces
  <2>4. k.run \in DOMAIN job /\ job[k.run].status = "pending"
    BY <1>2, <1>3, <2>2 DEF CmdOK, Starting
  <2>5. PICK j : j = job[k.run]
    OBVIOUS
  <2>6. j \in Job /\ JobOK(j) /\ j.status = "pending"
    BY <1>3, <2>4, <2>5
  <2>7. PICK d : d = (IF venv = "partial" THEN "bug1" ELSE IF script = "missing" THEN "usage" ELSE script)
    OBVIOUS
  <2>8. d \in Defects
    BY <2>7, ElRunAssumption DEF RunsOK, Scripts, Defects
  <2>9. PICK m : m = [j EXCEPT !.status = "running", !.defect = d, !.child = "alive", !.streamer = "reading",
                               !.watchdog = "armed"]
    OBVIOUS
  <2>10. job' = [job EXCEPT ![k.run] = m]
    BY <1>1, <1>5, <2>5, <2>7, <2>9 DEF SpawnScript, Spawn
  <2>11. m \in Job /\ m.parent = j.parent /\ m.status = "running" /\ m.streamer = "reading" /\ m.child = "alive"
         /\ m.written = j.written /\ m.pipe = j.pipe /\ m.logs = j.logs /\ m.unlogged = j.unlogged
    <3>1. PICK o : o = [j EXCEPT !.status = "running", !.defect = d]
      OBVIOUS
    <3>2. o \in Job /\ o.parent = j.parent /\ o.status = "running"
          /\ o.written = j.written /\ o.pipe = j.pipe /\ o.logs = j.logs /\ o.unlogged = j.unlogged
      BY <2>6, <2>8, <3>1 DEF Job
    <3>3. m = [o EXCEPT !.child = "alive", !.streamer = "reading", !.watchdog = "armed"]
      BY <2>9, <3>1
    <3>. QED  BY <3>2, <3>3 DEF Job
  <2>12. JobOK(m)
    BY <2>6, <2>11 DEF JobOK, Terminal
  <2>13. RunsOK'
    BY <1>1, <2>2, <2>3, <2>5, <2>10, <2>11, <2>12, OwnRunChanges DEF Following
  <2>. QED  BY <1>1, <2>2, <2>3, <2>13
<1>6. CASE SpawnRefused
  <2>1. PICK n : n = [k EXCEPT !.pc = "result"]
    OBVIOUS
  <2>2. cmd' = n /\ k.pc = "spawn" /\ UNCHANGED script
    BY <1>1, <1>6, <2>1 DEF SpawnRefused, At, Goto
  <2>3. n \in Cmd /\ n.pc = "result" /\ n.run = k.run /\ n.failed = k.failed /\ n.outcome = k.outcome
        /\ n.watching = k.watching
    BY <1>2, <2>1 DEF Cmd, RunPlaces
  <2>4. k.run \in DOMAIN job /\ job[k.run].status = "pending"
    BY <1>2, <1>3, <2>2 DEF CmdOK, Starting
  <2>5. PICK j : j = job[k.run]
    OBVIOUS
  <2>6. j \in Job /\ JobOK(j) /\ j.status = "pending"
    BY <1>3, <2>4, <2>5
  <2>7. PICK m : m = [j EXCEPT !.status = "failed", !.error = "bad_script"]
    OBVIOUS
  <2>8. job' = [job EXCEPT ![k.run] = m]
    <3>1. job' = [job EXCEPT ![k.run].status = "failed", ![k.run].error = "bad_script"]
      BY <1>1, <1>6 DEF SpawnRefused
    <3>2. PICK T : T = [job EXCEPT ![k.run].status = "failed"]
      OBVIOUS
    <3>3. job' = [T EXCEPT ![k.run].error = "bad_script"]
      BY <3>1, <3>2
    <3>. QED  BY <1>3, <2>4, <2>5, <2>7, <3>2, <3>3
  <2>9. m \in Job /\ m.parent = j.parent /\ m.status = "failed" /\ m.streamer = j.streamer /\ m.child = j.child
        /\ m.written = j.written /\ m.pipe = j.pipe /\ m.logs = j.logs /\ m.unlogged = j.unlogged /\ m.helper = j.helper
    BY <2>6, <2>7 DEF Job, Terminal
  <2>10. JobOK(m)
    BY <2>6, <2>9 DEF JobOK, Terminal
  <2>11. RunsOK'
    BY <1>1, <2>2, <2>3, <2>5, <2>8, <2>9, <2>10, OwnRunChanges DEF Following, Terminal
  <2>. QED  BY <1>1, <2>2, <2>3, <2>11
<1>7. CASE TailLogs
  <2>1. PICK l : l = job[k.run].logs
    OBVIOUS
  <2>2. PICK b \in BOOLEAN : b = (l = k.seen)
    OBVIOUS
  <2>3. PICK n : n = [k EXCEPT !.pc = "status", !.quiet = b, !.seen = l]
    OBVIOUS
  <2>4. cmd' = n /\ k.pc = "logs" /\ UNCHANGED <<job, script>>
    BY <1>1, <1>7, <2>1, <2>2, <2>3 DEF TailLogs, At
  <2>5. k.run \in DOMAIN job
    BY <1>2, <1>3, <2>4 DEF CmdOK, Following
  <2>6. l \in 0..MaxLines
    <3>1. PICK j : j = job[k.run]
      OBVIOUS
    <3>2. j \in Job
      BY <1>3, <2>5, <3>1 DEF JobOK
    <3>. QED  BY <2>1, <3>1, <3>2 DEF Job
  <2>7. n \in Cmd /\ n.pc = "status" /\ n.run = k.run /\ n.failed = k.failed /\ n.outcome = k.outcome
        /\ n.watching = k.watching
    <3>1. PICK o : o = [k EXCEPT !.pc = "status", !.quiet = b]
      OBVIOUS
    <3>2. o \in Cmd /\ o.pc = "status" /\ o.run = k.run /\ o.failed = k.failed /\ o.outcome = k.outcome
          /\ o.watching = k.watching
      BY <1>2, <3>1 DEF Cmd, RunPlaces
    <3>3. n = [o EXCEPT !.seen = l]
      BY <2>3, <3>1
    <3>. QED  BY <2>6, <3>2, <3>3 DEF Cmd
  <2>8. CmdOK(n, job)
    BY <1>2, <2>4, <2>7 DEF CmdOK, Starting, Following
  <2>. QED  BY <1>1, <2>4, <2>7, <2>8 DEF RunsOK, JobsOK
<1>8. CASE TailStatus
  <2>1. PICK p \in {"record", "logs"} : cmd' = [k EXCEPT !.pc = p] /\ (p = "record" => job[k.run].status \in Terminal)
    BY <1>1, <1>8 DEF TailStatus, Goto
  <2>2. k.pc = "status" /\ UNCHANGED <<job, script>>
    BY <1>1, <1>8 DEF TailStatus, At
  <2>3. PICK n : n = [k EXCEPT !.pc = p]
    OBVIOUS
  <2>4. n \in Cmd /\ n.pc = p /\ n.run = k.run /\ n.failed = k.failed /\ n.outcome = k.outcome /\ n.watching = k.watching
    BY <1>2, <2>3 DEF Cmd, RunPlaces
  <2>5. CmdOK(n, job)
    BY <1>2, <2>1, <2>2, <2>4 DEF CmdOK, Starting, Following
  <2>. QED  BY <1>1, <2>1, <2>2, <2>3, <2>4, <2>5 DEF RunsOK, JobsOK
<1>9. CASE record_pipeline_run
  <2>1. PICK n : n = [k EXCEPT !.pc = "result", !.seen = 0, !.quiet = FALSE]
    OBVIOUS
  <2>2. cmd' = n /\ k.pc = "record" /\ UNCHANGED <<job, script>>
    BY <1>1, <1>9, <2>1 DEF record_pipeline_run, At
  <2>3. n \in Cmd /\ n.pc = "result" /\ n.run = k.run /\ n.failed = k.failed /\ n.outcome = k.outcome
        /\ n.watching = k.watching
    <3>1. PICK o : o = [k EXCEPT !.pc = "result", !.quiet = FALSE]
      OBVIOUS
    <3>2. o \in Cmd /\ o.pc = "result" /\ o.run = k.run /\ o.failed = k.failed /\ o.outcome = k.outcome
          /\ o.watching = k.watching
      BY <1>2, <3>1 DEF Cmd, RunPlaces
    <3>3. n = [o EXCEPT !.seen = 0]
      BY <2>1, <3>1
    <3>. QED  BY <3>2, <3>3, LocalVenvAssumption DEF Cmd
  <2>4. CmdOK(n, job)
    BY <1>2, <2>2, <2>3 DEF CmdOK, Starting, Following
  <2>. QED  BY <1>1, <2>2, <2>3, <2>4 DEF RunsOK, JobsOK
<1>. QED  BY <1>4, <1>5, <1>6, <1>7, <1>8, <1>9

\* After a run the command ends, or retries the run that did not succeed.
LEMMA ResultEnds ==
    \/ \E o \in Outcomes : AfterRun = Ends(o)
    \/ /\ ~Succeeded /\ cmd.attempt # MaxAttempts
       /\ AfterRun = [cmd EXCEPT !.pc = "agent", !.attempt = @ + 1, !.failed = cmd.run, !.error = Error]
<1>1. "recovered" \in Outcomes /\ "failed" \in Outcomes /\ "repeated_error" \in Outcomes
      /\ "refused" \in Outcomes /\ "exhausted" \in Outcomes
  BY DEF Outcomes
<1>. DEFINE retry == [cmd EXCEPT !.pc = "agent", !.attempt = @ + 1, !.failed = cmd.run, !.error = Error]
<1>2. AfterRun \in {Ends("recovered"), Ends("failed"), Ends("repeated_error"), Ends("refused"), Ends("exhausted")}
                   \cup {v \in {retry} : ~Succeeded /\ cmd.attempt # MaxAttempts}
  BY Zenon DEF AfterRun
<1>. QED  BY <1>1, <1>2, Zenon

LEMMA DiagnosisEnds ==
    ASSUME NEW c, NEW refused, NEW d
    PROVE  \/ \E o \in Outcomes : AfterDiagnosis(c, refused, d) = Ends(o)
           \/ AfterDiagnosis(c, refused, d) = [cmd EXCEPT !.pc = "start", !.history = @ \cup {d}]
<1>1. "refused" \in Outcomes /\ "exhausted" \in Outcomes
  BY DEF Outcomes
<1>. DEFINE retry == [cmd EXCEPT !.pc = "start", !.history = @ \cup {d}]
<1>2. AfterDiagnosis(c, refused, d) \in {Ends("refused"), Ends("exhausted"), retry}
  BY Zenon DEF AfterDiagnosis
<1>. QED  BY <1>1, <1>2, Zenon

\* The recovery loop after a run, and after a diagnosis.
LEMMA RecoveryKeeps ==
    ASSUME RunsOK, Result \/ Diagnose
    PROVE  RunsOK' /\ cmd'.watching = cmd.watching
           /\ \/ cmd'.pc = "end"
              \/ cmd'.pc \in {"agent", "start", "raised"} /\ cmd'.outcome = cmd.outcome
<1>1. PICK k : k = cmd
  OBVIOUS
<1>2. CmdOK(k, job) /\ k \in Cmd
  BY <1>1 DEF RunsOK, CmdOK
<1>3. job \in Seq(Job) /\ Len(job) \in Nat /\ Len(job) <= MaxJobs /\ \A r \in DOMAIN job : JobOK(job[r])
  BY DEF RunsOK, JobsOK
<1>4. UNCHANGED <<job, script>>
  BY DEF Result, Diagnose
<1>5. CASE Result
  <2>1. cmd' = AfterRun /\ k.pc = "result"
    BY <1>1, <1>5 DEF Result, At
  <2>2. CASE \E o \in Outcomes : AfterRun = Ends(o)
    BY <1>4, <2>1, <2>2, EndsKeep
  <2>3. CASE /\ ~Succeeded /\ cmd.attempt # MaxAttempts
             /\ AfterRun = [cmd EXCEPT !.pc = "agent", !.attempt = @ + 1, !.failed = cmd.run, !.error = Error]
    <3>1. PICK e : e = Error
      OBVIOUS
    <3>2. e \in RunErrors
      <4>1. CASE k.run = 0
        BY <1>1, <3>1, <4>1 DEF Error, RunErrors
      <4>2. CASE k.run # 0
        <5>1. PICK j : j = job[k.run]
          OBVIOUS
        <5>2. k.run \in DOMAIN job
          BY <1>2, <1>3, <4>2 DEF CmdOK
        <5>3. j \in Job
          BY <1>3, <5>1, <5>2 DEF JobOK
        <5>4. e = j.error
          BY <1>1, <3>1, <4>2, <5>1 DEF Error
        <5>. QED  BY <5>3, <5>4 DEF Job, RunErrors
      <4>. QED  BY <4>1, <4>2
    <3>3. PICK n : n = [k EXCEPT !.pc = "agent", !.attempt = @ + 1, !.failed = k.run, !.error = e]
      OBVIOUS
    <3>4. cmd' = n
      BY <1>1, <2>1, <2>3, <3>1, <3>3
    <3>5. k.attempt \in 0..MaxAttempts /\ k.run \in 0..MaxJobs
      BY <1>2 DEF Cmd
    <3>6. k.attempt + 1 \in 0..MaxAttempts
      BY <1>1, <2>3, <3>5, ElRunAssumption
    <3>7. n \in Cmd /\ n.pc = "agent" /\ n.run = k.run /\ n.failed = k.run /\ n.outcome = k.outcome
          /\ n.watching = k.watching
      <4>1. PICK o : o = [k EXCEPT !.pc = "agent", !.attempt = @ + 1]
        OBVIOUS
      <4>2. o \in Cmd /\ o.pc = "agent" /\ o.run = k.run /\ o.outcome = k.outcome /\ o.watching = k.watching
        BY <1>2, <3>6, <4>1 DEF Cmd, RunPlaces
      <4>3. n = [o EXCEPT !.failed = k.run, !.error = e]
        BY <3>3, <4>1
      <4>. QED  BY <3>2, <3>5, <4>2, <4>3 DEF Cmd
    <3>8. k.run # 0 => Lost(job, k.run)
      BY <1>1, <1>2, <2>1, <2>3 DEF CmdOK, Succeeded, Lost
    <3>9. CmdOK(n, job)
      BY <1>2, <2>1, <3>7, <3>8 DEF CmdOK, Starting, Following
    <3>. QED  BY <1>1, <1>4, <3>4, <3>7, <3>9 DEF RunsOK, JobsOK
  <2>. QED  BY <2>2, <2>3, ResultEnds
<1>6. CASE Diagnose
  <2>1. k.pc = "agent"
    BY <1>1, <1>6 DEF Diagnose, At
  <2>2. "exhausted" \in Outcomes
    BY DEF Outcomes
  <2>3. CASE \E o \in Outcomes : cmd' = Ends(o)
    BY <1>4, <2>3, EndsKeep
  <2>4. ASSUME NEW d \in Diagnoses, cmd' = [cmd EXCEPT !.pc = "start", !.history = @ \cup {d}]
        PROVE  RunsOK' /\ cmd'.watching = cmd.watching /\ cmd'.pc = "start" /\ cmd'.outcome = cmd.outcome
    <3>1. PICK n : n = [k EXCEPT !.pc = "start", !.history = @ \cup {d}]
      OBVIOUS
    <3>2. cmd' = n
      BY <1>1, <2>4, <3>1
    <3>3. k.history \cup {d} \in SUBSET Diagnoses
      BY <1>2 DEF Cmd
    <3>4. n \in Cmd /\ n.pc = "start" /\ n.run = k.run /\ n.failed = k.failed /\ n.outcome = k.outcome
          /\ n.watching = k.watching
      BY <1>2, <3>1, <3>3 DEF Cmd, RunPlaces
    <3>5. CmdOK(n, job)
      BY <1>2, <2>1, <3>4 DEF CmdOK, Starting, Following
    <3>. QED  BY <1>1, <1>4, <3>2, <3>4, <3>5 DEF RunsOK, JobsOK
  <2>5. CASE Goto("raised")
    <3>1. PICK n : n = [k EXCEPT !.pc = "raised"]
      OBVIOUS
    <3>2. cmd' = n
      BY <1>1, <2>5, <3>1 DEF Goto
    <3>3. n \in Cmd /\ n.pc = "raised" /\ n.run = k.run /\ n.failed = k.failed /\ n.outcome = k.outcome
          /\ n.watching = k.watching
      BY <1>2, <3>1 DEF Cmd, RunPlaces
    <3>4. CmdOK(n, job)
      BY <1>2, <3>3 DEF CmdOK, Starting, Following
    <3>. QED  BY <1>1, <1>4, <3>2, <3>3, <3>4 DEF RunsOK, JobsOK
  <2>6. CASE \E c \in Categories, refused \in BOOLEAN, d \in Diagnoses : cmd' = AfterDiagnosis(c, refused, d)
    <3>1. PICK c \in Categories, refused \in BOOLEAN, d \in Diagnoses : cmd' = AfterDiagnosis(c, refused, d)
      BY <2>6
    <3>2. CASE \E o \in Outcomes : AfterDiagnosis(c, refused, d) = Ends(o)
      <4>1. \E o \in Outcomes : cmd' = Ends(o)
        BY <3>1, <3>2, Zenon
      <4>. QED  BY <2>3, <4>1, Zenon
    <3>3. CASE AfterDiagnosis(c, refused, d) = [cmd EXCEPT !.pc = "start", !.history = @ \cup {d}]
      <4>1. cmd' = [cmd EXCEPT !.pc = "start", !.history = @ \cup {d}]
        BY <3>1, <3>3, Zenon
      <4>. QED  BY <2>4, <4>1
    <3>. QED  BY <3>2, <3>3, DiagnosisEnds, Zenon
  <2>. QED  BY <1>6, <2>2, <2>3, <2>5, <2>6 DEF Diagnose
<1>. QED  BY <1>5, <1>6

-----------------------------------------------------------------------------
(* carve el run: the watch loop.                                           *)

\* An observed edit that no run has looked at is on its way to the next run: the
\* timer or the trigger holds it, or the run is about to start.
Watches == [on : BOOLEAN, timer : BOOLEAN, trigger : BOOLEAN]
WatchOK ==
    /\ watch \in Watches /\ fresh \in BOOLEAN
    /\ cmd.pc \notin {"end", "waiting", "returned", "raised"} => cmd.outcome = "none"
    /\ watch.on => \/ watch.timer \/ watch.trigger \/ fresh
                   \/ cmd.pc \in {"start", "returned", "raised"} \/ cmd.outcome = "aborted"

RunInv == RunsOK /\ WatchOK

LEMMA RunInvStarts == ElRunInit => RunInv
<1>. SUFFICES ASSUME ElRunInit PROVE RunInv
  OBVIOUS
<1>1. PICK c \in Commands : cmd = Command("auto_fix" \in c, "watch" \in c)
  BY DEF ElRunInit
<1>11. ("auto_fix" \in c) \in BOOLEAN /\ ("watch" \in c) \in BOOLEAN
  BY SMT
<1>12. PICK f : f = ("auto_fix" \in c)
  BY Zenon
<1>13. PICK w : w = ("watch" \in c)
  BY Zenon
<1>2. f \in BOOLEAN /\ w \in BOOLEAN /\ f = ("auto_fix" \in c) /\ w = ("watch" \in c)
  BY <1>11, <1>12, <1>13, Zenon
<1>3. PICK k : k = cmd
  OBVIOUS
<1>4. 0 \in 0..MaxAttempts /\ 0 \in 0..MaxJobs /\ 0 \in 0..MaxLines
  BY ElRunAssumption, LocalVenvAssumption
<1>5. k \in Cmd /\ k.pc = "start" /\ k.run = 0 /\ k.failed = 0 /\ k.outcome = "none" /\ k.watching = w
  <2>1. "start" \in RunPlaces /\ "" \in RunErrors /\ "none" \in Outcomes /\ {} \in SUBSET Diagnoses
    BY DEF RunPlaces, RunErrors, Outcomes
  <2>2. k = Command(f, w)
    BY <1>1, <1>2, <1>3
  <2>. QED  BY <1>2, <1>4, <2>1, <2>2 DEF Command, Cmd
<1>6. job = << >> /\ << >> \in Seq(Job) /\ Len(job) = 0 /\ DOMAIN job = {}
  BY DEF ElRunInit, VenvInit
<1>7. JobsOK
  BY <1>6, LocalVenvAssumption DEF JobsOK
<1>8. Chained(job)
  BY <1>6 DEF Chained
<1>9. CmdOK(k, job)
  BY <1>5, <1>6 DEF CmdOK, Starting, Following
<1>10. script \in Scripts /\ fresh = FALSE /\ watch \in Watches
  <2>1. k.watching \in BOOLEAN
    BY <1>5 DEF Cmd
  <2>2. watch \in [on : {k.watching, FALSE}, timer : {FALSE}, trigger : {FALSE}]
    BY <1>3 DEF ElRunInit
  <2>3. watch \in Watches
    BY <2>1, <2>2 DEF Watches
  <2>. QED  BY <2>3 DEF ElRunInit
<1>14. WatchOK
  BY <1>3, <1>5, <1>10 DEF WatchOK
<1>. QED  BY <1>3, <1>7, <1>8, <1>9, <1>10, <1>14 DEF RunInv, RunsOK

\* What the watch loop, the user and Ctrl-C do.
LEMMA WatchKeeps ==
    ASSUME RunInv, Finish \/ Rerun \/ Interrupt \/ AgentEdits \/ UserEdits \/ _fire
    PROVE  RunInv'
<1>1. PICK k : k = cmd
  OBVIOUS
<1>2. CmdOK(k, job) /\ k \in Cmd /\ RunsOK
  BY <1>1 DEF RunInv, RunsOK, CmdOK
<1>3. k.watching \in BOOLEAN /\ k.fix \in BOOLEAN
  BY <1>2 DEF Cmd
<1>4. PICK w : w = watch
  OBVIOUS
<1>5. w \in Watches
  BY <1>4 DEF RunInv, WatchOK
<1>6. UNCHANGED job
  BY DEF Finish, Rerun, Interrupt, AgentEdits, UserEdits, _fire
<1>7. CASE Finish
  <2>1. PICK p \in {"waiting", "returned"} : cmd' = [k EXCEPT !.pc = p] /\ (p = "waiting" <=> k.watching)
    BY <1>1, <1>7 DEF Finish, Goto
  <2>2. k.pc = "end" /\ UNCHANGED <<script, fresh, watch>>
    BY <1>1, <1>7 DEF Finish, At
  <2>3. PICK n : n = [k EXCEPT !.pc = p]
    OBVIOUS
  <2>4. n \in Cmd /\ n.pc = p /\ n.run = k.run /\ n.failed = k.failed /\ n.outcome = k.outcome /\ n.watching = k.watching
    BY <1>2, <2>3 DEF Cmd, RunPlaces
  <2>5. CmdOK(n, job)
    BY <1>2, <2>4 DEF CmdOK, Starting, Following
  <2>6. RunsOK'
    BY <1>2, <1>6, <2>1, <2>2, <2>3, <2>5 DEF RunsOK, JobsOK
  <2>7. WatchOK'
    BY <1>1, <2>1, <2>2, <2>3, <2>4 DEF RunInv, WatchOK
  <2>. QED  BY <2>6, <2>7 DEF RunInv
<1>8. CASE Rerun
  <2>1. PICK f \in BOOLEAN : f = k.fix
    BY <1>3
  <2>2. PICK n : n = Command(f, TRUE)
    OBVIOUS
  <2>3. cmd' = n /\ UNCHANGED <<script, fresh>> /\ watch' = [w EXCEPT !.trigger = FALSE]
    BY <1>1, <1>4, <1>8, <2>1, <2>2 DEF Rerun
  <2>4. n \in Cmd /\ n.pc = "start" /\ n.run = 0 /\ n.failed = 0 /\ n.outcome = "none" /\ n.watching
    <3>1. "start" \in RunPlaces /\ "" \in RunErrors /\ "none" \in Outcomes /\ {} \in SUBSET Diagnoses
      BY DEF RunPlaces, RunErrors, Outcomes
    <3>2. 0 \in 0..MaxAttempts /\ 0 \in 0..MaxJobs /\ 0 \in 0..MaxLines
      BY ElRunAssumption, LocalVenvAssumption
    <3>. QED  BY <2>2, <3>1, <3>2 DEF Command, Cmd
  <2>5. CmdOK(n, job)
    BY <1>2, <2>4 DEF CmdOK, Starting, Following
  <2>6. RunsOK'
    BY <1>2, <1>6, <2>3, <2>5 DEF RunsOK, JobsOK
  <2>7. WatchOK'
    BY <1>5, <2>3, <2>4 DEF RunInv, WatchOK, Watches
  <2>. QED  BY <2>6, <2>7 DEF RunInv
<1>9. CASE Interrupt
  <2>1. UNCHANGED <<script, fresh, watch>> /\ k.pc \notin {"end", "returned", "raised"}
    BY <1>1, <1>9 DEF Interrupt
  <2>2. CASE k.fix /\ k.pc # "waiting"
    <3>1. cmd' = Ends("aborted") /\ "aborted" \in Outcomes
      BY <1>1, <1>9, <2>2 DEF Interrupt, Outcomes
    <3>2. RunsOK' /\ cmd'.pc = "end" /\ cmd'.outcome = "aborted"
      BY <1>2, <1>6, <2>1, <3>1, EndsKeep
    <3>. QED  BY <2>1, <3>2 DEF RunInv, WatchOK
  <2>3. CASE ~(k.fix /\ k.pc # "waiting")
    <3>1. PICK n : n = [k EXCEPT !.pc = "returned", !.outcome = "aborted"]
      OBVIOUS
    <3>2. cmd' = n
      BY <1>1, <1>9, <2>3, <3>1 DEF Interrupt
    <3>3. n \in Cmd /\ n.pc = "returned" /\ n.run = k.run /\ n.failed = k.failed /\ n.outcome = "aborted"
      BY <1>2, <3>1 DEF Cmd, RunPlaces, Outcomes
    <3>4. CmdOK(n, job)
      BY <1>2, <3>3 DEF CmdOK, Starting, Following
    <3>5. RunsOK'
      BY <1>2, <1>6, <2>1, <3>2, <3>4 DEF RunsOK, JobsOK
    <3>. QED  BY <2>1, <3>2, <3>3, <3>5 DEF RunInv, WatchOK
  <2>. QED  BY <2>2, <2>3
<1>10. CASE AgentEdits
  <2>1. PICK s \in Edited \ {script} : script' = s /\ fresh' = FALSE /\ watch' = [w EXCEPT !.timer = w.on]
    BY <1>1, <1>4, <1>10 DEF AgentEdits
  <2>2. UNCHANGED <<job, cmd>>
    BY <1>10 DEF AgentEdits
  <2>3. RunsOK'
    BY <1>2, <2>1, <2>2 DEF RunsOK, JobsOK, Scripts
  <2>4. watch' \in Watches /\ watch'.timer = w.on /\ watch'.on = w.on
    BY <1>5, <2>1 DEF Watches
  <2>5. WatchOK'
    BY <2>1, <2>2, <2>4 DEF RunInv, WatchOK
  <2>. QED  BY <2>3, <2>5 DEF RunInv
<1>11. CASE UserEdits
  <2>1. PICK s \in Scripts : script' = s /\ fresh' = FALSE /\ watch' = [w EXCEPT !.timer = w.on]
    BY <1>1, <1>4, <1>11 DEF UserEdits
  <2>2. UNCHANGED <<job, cmd>>
    BY <1>11 DEF UserEdits
  <2>3. RunsOK'
    BY <1>2, <2>1, <2>2 DEF RunsOK, JobsOK
  <2>4. watch' \in Watches /\ watch'.timer = w.on /\ watch'.on = w.on
    BY <1>5, <2>1 DEF Watches
  <2>5. WatchOK'
    BY <2>1, <2>2, <2>4 DEF RunInv, WatchOK
  <2>. QED  BY <2>3, <2>5 DEF RunInv
<1>12. CASE _fire
  <2>1. UNCHANGED <<job, cmd, script, fresh>> /\ watch' = [w EXCEPT !.timer = FALSE, !.trigger = TRUE]
    BY <1>4, <1>12 DEF _fire
  <2>2. RunsOK'
    BY <1>2, <2>1 DEF RunsOK, JobsOK
  <2>3. watch' \in Watches /\ watch'.trigger
    BY <1>5, <2>1 DEF Watches
  <2>4. WatchOK'
    BY <2>1, <2>3 DEF RunInv, WatchOK
  <2>. QED  BY <2>2, <2>4 DEF RunInv
<1>. QED  BY <1>7, <1>8, <1>9, <1>10, <1>11, <1>12

LEMMA RunStepKeeps ==
    ASSUME RunInv, [ElRunNext]_elVars
    PROVE  RunInv'
<1>0. RunsOK
  BY DEF RunInv
<1>1. CASE StartRun
  <2>1. UNCHANGED <<script, watch>> /\ fresh' = TRUE /\ cmd.pc = "start"
    BY <1>1 DEF StartRun, At
  <2>2. RunsOK' /\ cmd'.outcome = cmd.outcome /\ cmd'.watching = cmd.watching
    BY <1>0, <1>1, StartKeeps
  <2>3. cmd'.pc # "waiting"
    <3>1. PICK k : k = cmd
      OBVIOUS
    <3>2. k \in Cmd
      BY <1>0, <3>1 DEF RunsOK, CmdOK
    <3>3. cmd' = [k EXCEPT !.pc = "result", !.run = 0] \/ cmd' = [k EXCEPT !.pc = "execute", !.run = Len(job) + 1, !.seen = 0]
      BY <1>1, <3>1 DEF StartRun
    <3>. QED  BY <3>2, <3>3 DEF Cmd
  <2>. QED  BY <2>1, <2>2, <2>3 DEF RunInv, WatchOK
<1>2. CASE Execute \/ SpawnScript \/ SpawnRefused \/ TailLogs \/ TailStatus \/ record_pipeline_run
  <2>1. UNCHANGED <<watch, fresh>> /\ cmd.pc \in Starting \cup Following
    BY <1>2 DEF Execute, SpawnScript, SpawnRefused, TailLogs, TailStatus, record_pipeline_run, At, Starting, Following
  <2>2. RunsOK' /\ cmd'.outcome = cmd.outcome /\ cmd'.watching = cmd.watching /\ cmd'.pc # "waiting" /\ cmd'.pc # "end"
    BY <1>0, <1>2, FollowKeeps
  <2>. QED  BY <2>1, <2>2 DEF RunInv, WatchOK, Starting, Following
<1>3. CASE Result \/ Diagnose
  <2>1. UNCHANGED <<watch, fresh>> /\ cmd.pc \in {"result", "agent"}
    BY <1>3 DEF Result, Diagnose, At
  <2>2. /\ RunsOK' /\ cmd'.watching = cmd.watching
        /\ \/ cmd'.pc = "end"
           \/ cmd'.pc \in {"agent", "start", "raised"} /\ cmd'.outcome = cmd.outcome
    BY <1>0, <1>3, RecoveryKeeps
  <2>. QED  BY <2>1, <2>2 DEF RunInv, WatchOK
<1>4. CASE Finish \/ Rerun \/ Interrupt \/ AgentEdits \/ UserEdits \/ _fire
  BY <1>4, WatchKeeps
<1>5. CASE Threads \/ ScriptRuns
  <2>1. PICK r \in DOMAIN job : ThreadStep(r) \/ ScriptStep(r)
    BY <1>5 DEF Threads, ScriptRuns
  <2>2. UNCHANGED <<script, fresh, watch, cmd>>
    BY <1>5 DEF Threads, ScriptRuns
  <2>3. job \in Seq(Job) /\ JobOK(job[r])
    BY <1>0, <2>1 DEF RunsOK, JobsOK
  <2>4. PICK k \in Job : JobOK(k) /\ Kept(job[r], k) /\ job' = [job EXCEPT ![r] = k]
    BY <2>1, <2>3, JobSteps
  <2>5. RunsOK'
    BY <1>0, <2>1, <2>2, <2>4, JobStepsKeep
  <2>. QED  BY <2>2, <2>5 DEF RunInv, WatchOK
<1>6. CASE UNCHANGED elVars
  BY <1>6 DEF elVars, RunInv, RunsOK, JobsOK, WatchOK
<1>. QED  BY <1>1, <1>2, <1>3, <1>4, <1>5, <1>6 DEF ElRunNext, CommandStep

\* The rows of the runs tell the truth: a terminal run has its whole output in its
\* logs but for the lines that could not be logged, and the retries of a failure form
\* a chain within max_attempts
\* (runner.run_with_recovery, LocalVenvRunner._finalize_run).
THEOREM RetriesAreRecorded == ElRunSpec => []RunsRecorded
<1>1. RunInv => RunsRecorded
  BY RunsRecordedByOK DEF RunInv
<1>. QED  BY <1>1, RunInvStarts, RunStepKeeps, PTL DEF ElRunSpec

\* carve el run --watch misses no edit of a directory it observes, of the user or of
\* the recovery agent, whenever it comes: the command waits only when the run before it looked at
\* the directory after the edit, or the edit's trigger is pending (el run's
\* watch loop, _schedule_fire).
THEOREM EditsAreRun == ElRunSpec => []NoEditMissed
<1>1. RunInv => NoEditMissed
  BY DEF RunInv, WatchOK, NoEditMissed, Idle, At
<1>. QED  BY <1>1, RunInvStarts, RunStepKeeps, PTL DEF ElRunSpec
=============================================================================
