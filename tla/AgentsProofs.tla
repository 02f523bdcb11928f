---------------------------- MODULE AgentsProofs ----------------------------
(***************************************************************************)
(* What holds of the agents for every value of the constants: the authoring*)
(* commands settle their builds and implement the ledger (Authoring), the  *)
(* agent loop answers every tool call and writes within its authority      *)
(* (AgentLoop), a discovery is fresh (Library) and what passed is what is  *)
(* left (Verification).                                                    *)
(***************************************************************************)
EXTENDS Authoring, AgentLoop, Library, Verification, FiniteSetTheorems, TLAPS

-----------------------------------------------------------------------------
(* The authoring commands.  A command that builds holds a run of its own,   *)
(* names the pipeline its plan names, and has written exactly what the      *)
(* place it has reached says.                                               *)

RunPcs == {"start", "agent", "engines", "review", "fail"} \cup Persisting
BuildPcs == {"create"} \cup RunPcs
PlanPcs == {"decompose", "design", "plan", "save"}

CommandRecords == [pc : {"idle", "gate"} \cup PlanPcs \cup BuildPcs, auto : BOOLEAN, config : Nat,
             plan : Nat, target : Names, force : BOOLEAN, engines : Seq(Engines), i : Nat,
             ok : BOOLEAN, name : Names, run : Nat, snapshot : Nat, build : Nat]

TablesOK ==
    /\ config \in Nat
    /\ plan \in [Plans -> [phase : {"absent", "drafted", "built"}, engines : Seq(Engines),
                           name : Names, pipeline : Names, config : Nat, expired : BOOLEAN]]
    /\ pipeline \in [Pipelines -> [exists : BOOLEAN, current : Nat]]
    /\ builds \in Seq([plan : Plans, pipeline : Pipelines, run : Nat, listed : BOOLEAN])
    /\ runs \in Seq([plan : Plans, pipeline : Names, blocked : BOOLEAN,
                     status : {"pending", "running", "success", "failed"}])
    /\ files \in [Pipelines -> [by : Nat, at : Nat]]
    /\ proc \in [Procs -> CommandRecords]

Saved == {k \in Plans : plan[k].phase # "absent"}
Planners == {p \in Procs : proc[p].pc \in PlanPcs}

\* A saved plan names a pipeline, and one that is built is built there.
PlansNamed ==
    /\ \A k \in Saved : _pipeline_name_from(k) \in Pipelines
    /\ \A k \in Plans : plan[k].phase = "built" => plan[k].pipeline # "none"

\* Plans are saved in order, and there is a row for each that is being made.
RoomForPlans ==
    \E n \in 0..MaxPlans : Saved = 1..n /\ Cardinality(Planners) <= MaxPlans - n

\* A command that builds.
HoldsPlan(c) ==
    /\ c.pc \in {"gate"} \cup BuildPcs => c.plan \in Saved
    /\ c.pc \in BuildPcs => c.name = _pipeline_name_from(c.plan)
    /\ c.pc = "save" => c.name \in Pipelines
HoldsRun(c) ==
    /\ c.run # 0 <=> c.pc \in RunPcs
    /\ c.pc \in RunPcs =>
          /\ c.run \in DOMAIN runs
          /\ runs[c.run].plan = c.plan
          /\ runs[c.run].status = IF c.pc = "start" THEN "pending" ELSE "running"
          /\ c.pc \in {"start", "agent", "engines"} \cup Persisting => ~runs[c.run].blocked
          /\ c.pc = "review" /\ c.ok => ~runs[c.run].blocked
          /\ c.pc \in {"start", "agent", "engines", "review"} =>
                \A b \in DOMAIN builds : builds[b].run # c.run
HasWritten(c) ==
    /\ c.pc \in {"build", "current", "mark", "success"} => runs[c.run].pipeline = c.name
    /\ c.pc \in {"current", "mark"} =>
          /\ c.build \in DOMAIN builds
          /\ builds[c.build].run = c.run /\ builds[c.build].pipeline = c.name
          /\ builds[c.build].plan = c.plan
    /\ c.pc = "success" =>
          /\ \E b \in DOMAIN builds : builds[b].run = c.run /\ builds[b].pipeline = c.name
          /\ plan[c.plan].phase = "built" /\ plan[c.plan].pipeline = c.name
CommandOK(c) == HoldsPlan(c) /\ HoldsRun(c) /\ HasWritten(c)

RunsApart == \A p, q \in Procs : p # q => proc[p].run # proc[q].run \/ proc[p].run = 0
BuildsOK == \A b \in DOMAIN builds : builds[b].run \in DOMAIN runs /\ ~runs[builds[b].run].blocked

AuthoringInv ==
    /\ TablesOK /\ PlansNamed /\ RoomForPlans
    /\ \A p \in Procs : CommandOK(proc[p])
    /\ RunsApart /\ BuildsOK /\ SuccessIsBuilt /\ NoOrphans

-----------------------------------------------------------------------------
\* Whoever plans no more, or still, leaves room.
LEMMA RoomKept ==
    ASSUME RoomForPlans, Saved' = Saved, Planners' \subseteq Planners
    PROVE  RoomForPlans'
<1>1. IsFiniteSet(Planners)
  BY FS_Subset, AuthoringAssumption DEF Planners
<1>2. Cardinality(Planners') <= Cardinality(Planners) /\ Cardinality(Planners') \in Nat
      /\ Cardinality(Planners) \in Nat
  BY <1>1, FS_Subset, FS_CardinalityType
<1>3. PICK n \in 0..MaxPlans : Saved = 1..n /\ Cardinality(Planners) <= MaxPlans - n
  BY DEF RoomForPlans
<1>4. n \in Nat /\ MaxPlans \in Nat
  BY AuthoringAssumption
<1>5. Cardinality(Planners') <= MaxPlans - n
  BY <1>2, <1>3, <1>4
<1>. QED  BY <1>3, <1>5 DEF RoomForPlans

\* What the tables may do to a command that does not step.
TablesGrow(p) ==
    /\ \A k \in Saved : /\ k \in Saved'
                        /\ _pipeline_name_from(k)' = _pipeline_name_from(k)
                        /\ plan[k].phase = "built" =>
                              plan'[k].phase = "built" /\ plan'[k].pipeline = plan[k].pipeline
    /\ \A r \in DOMAIN runs : r \in DOMAIN runs' /\ (r # proc[p].run => runs'[r] = runs[r])
    /\ \A b \in DOMAIN builds : b \in DOMAIN builds' /\ builds'[b] = builds[b]
    /\ \A b \in DOMAIN builds' : b \in DOMAIN builds \/ builds'[b].run = proc[p].run

\* The commands that do not step keep what they hold.
LEMMA OthersHold ==
    ASSUME NEW p \in Procs, NEW c, CommandOK(c), TablesOK, TablesGrow(p),
           c.run # proc[p].run \/ c.run = 0
    PROVE  CommandOK(c)'
<1>1. HoldsPlan(c)'
  BY DEF CommandOK, HoldsPlan, TablesGrow
<1>2. CASE c.pc \in RunPcs
  <2>1. c.run \in DOMAIN runs /\ c.run # proc[p].run
    BY <1>2 DEF CommandOK, HoldsRun
  <2>2. c.run \in DOMAIN runs' /\ runs'[c.run] = runs[c.run]
    BY <2>1 DEF TablesGrow
  <2>3. \A b \in DOMAIN builds' : (b \in DOMAIN builds /\ builds'[b] = builds[b]) \/ builds'[b].run # c.run
    BY <2>1 DEF TablesGrow
  <2>4. HoldsRun(c)'
    BY <1>2, <2>2, <2>3 DEF CommandOK, HoldsRun
  <2>5. c.plan \in Saved
    BY <1>2 DEF CommandOK, HoldsPlan, BuildPcs
  <2>6. HasWritten(c)'
    BY <1>2, <2>2, <2>5 DEF CommandOK, HasWritten, TablesGrow
  <2>. QED  BY <1>1, <2>4, <2>6 DEF CommandOK
<1>3. CASE c.pc \notin RunPcs
  <2>1. HoldsRun(c)' /\ HasWritten(c)'
    BY <1>3 DEF CommandOK, HoldsRun, HasWritten, RunPcs, Persisting
  <2>. QED  BY <1>1, <2>1 DEF CommandOK
<1>. QED  BY <1>2, <1>3

\* A command's step: what is left to show is about that command, and the tables.
LEMMA CommandSteps ==
    ASSUME NEW p \in Procs, NEW c \in CommandRecords, AuthoringInv,
           proc' = [proc EXCEPT ![p] = c], TablesOK', TablesGrow(p), CommandOK(c)',
           c.run \in {0, proc[p].run} \/ \A q \in Procs : proc[q].run # c.run
    PROVE  /\ \A q \in Procs : CommandOK(proc[q])'
           /\ RunsApart'
<1>1. proc \in [Procs -> CommandRecords]
  BY DEF AuthoringInv, TablesOK
<1>2. ASSUME NEW q \in Procs PROVE CommandOK(proc[q])'
  <2>1. CASE q = p
    <3>1. proc'[q] = c
      BY <1>1, <2>1
    <3>. QED  BY <3>1 DEF CommandOK, HoldsPlan, HoldsRun, HasWritten
  <2>2. CASE q # p
    <3>1. proc'[q] = proc[q]
      BY <1>1, <2>2
    <3>2. PICK d : d = proc[q]
      OBVIOUS
    <3>3. CommandOK(d) /\ TablesOK
      BY <3>2 DEF AuthoringInv
    <3>4. d.run # proc[p].run \/ d.run = 0
      BY <3>2, <2>2 DEF AuthoringInv, RunsApart
    <3>5. CommandOK(d)'
      BY <3>3, <3>4, OthersHold
    <3>. QED  BY <3>1, <3>2, <3>5 DEF CommandOK, HoldsPlan, HoldsRun, HasWritten
  <2>. QED  BY <2>1, <2>2
<1>3. RunsApart'
  BY <1>1 DEF AuthoringInv, RunsApart
<1>. QED  BY <1>2, <1>3

\* The plans that are being made stay at most the room for them.
LEMMA RoomStays ==
    ASSUME NEW p \in Procs, NEW c, AuthoringInv, proc' = [proc EXCEPT ![p] = c], plan' = plan,
           c.pc \in PlanPcs => proc[p].pc \in PlanPcs
    PROVE  RoomForPlans'
<1>1. Saved' = Saved
  BY DEF Saved
<1>2. Planners' \subseteq Planners
  BY DEF Planners, AuthoringInv, TablesOK
<1>. QED  BY <1>1, <1>2, RoomKept DEF AuthoringInv

\* A step that leaves plans, runs and Builds alone.
LEMMA StillSteps ==
    ASSUME NEW p \in Procs, NEW c \in CommandRecords, AuthoringInv, proc' = [proc EXCEPT ![p] = c],
           UNCHANGED <<config, plan, builds, runs>>,
           files' \in [Pipelines -> [by : Nat, at : Nat]],
           pipeline' \in [Pipelines -> [exists : BOOLEAN, current : Nat]],
           RoomForPlans', CommandOK(c),
           \/ c.run = proc[p].run /\ ("died" \in trouble => "died" \in trouble')
           \/ c.run = 0 /\ "died" \in trouble'
    PROVE  AuthoringInv'
<1>. USE DEF AuthoringInv
<1>1. proc \in [Procs -> CommandRecords]
  BY DEF TablesOK
<1>2. TablesOK'
  BY <1>1 DEF TablesOK
<1>3. TablesGrow(p)
  BY DEF TablesGrow, Saved, _pipeline_name_from
<1>4. CommandOK(c)'
  BY DEF CommandOK, HoldsPlan, HoldsRun, HasWritten, Saved, _pipeline_name_from
<1>5. (\A q \in Procs : CommandOK(proc[q])') /\ RunsApart'
  BY <1>2, <1>3, <1>4, CommandSteps
<1>6. PlansNamed' /\ BuildsOK' /\ SuccessIsBuilt'
  BY DEF PlansNamed, BuildsOK, SuccessIsBuilt, Saved, _pipeline_name_from
<1>7. NoOrphans'
  <2>. SUFFICES ASSUME "died" \notin trouble', NEW r \in DOMAIN runs,
                       runs[r].status \in {"pending", "running"}
                PROVE  \E q \in Procs : proc'[q].run = r
    BY DEF NoOrphans
  <2>1. PICK q \in Procs : proc[q].run = r
    BY DEF NoOrphans
  <2>2. proc'[q].run = r
    BY <1>1, <2>1
  <2>. QED  BY <2>2
<1>. QED  BY <1>2, <1>5, <1>6, <1>7

\* A step that leaves the tables alone.
LEMMA QuietSteps ==
    ASSUME NEW p \in Procs, NEW c \in CommandRecords, AuthoringInv, proc' = [proc EXCEPT ![p] = c],
           UNCHANGED <<config, tables>>, files' \in [Pipelines -> [by : Nat, at : Nat]],
           RoomForPlans', CommandOK(c),
           \/ c.run = proc[p].run /\ ("died" \in trouble => "died" \in trouble')
           \/ c.run = 0 /\ "died" \in trouble'
    PROVE  AuthoringInv'
<1>1. UNCHANGED <<config, plan, builds, runs>>
      /\ pipeline' \in [Pipelines -> [exists : BOOLEAN, current : Nat]]
  BY DEF tables, AuthoringInv, TablesOK
<1>. QED  BY <1>1, StillSteps

\* What a command keeps while it goes on.
Keeps(p, c) == /\ c.plan = proc[p].plan /\ c.name = proc[p].name /\ c.run = proc[p].run
               /\ c.build = proc[p].build /\ c.engines = proc[p].engines
               /\ c.target = proc[p].target /\ c.auto = proc[p].auto

LEMMA Going ==
    ASSUME NEW p \in Procs, NEW pc \in {"idle", "gate"} \cup PlanPcs \cup BuildPcs, TablesOK, Goto(p, pc)
    PROVE  \E c \in CommandRecords : /\ proc' = [proc EXCEPT ![p] = c]
                                     /\ Keeps(p, c) /\ c.pc = pc /\ c.ok = proc[p].ok /\ c.i = proc[p].i
<1>. DEFINE c == [proc[p] EXCEPT !.pc = pc]
<1>1. proc[p] \in CommandRecords
  BY DEF TablesOK
<1>2. c \in CommandRecords /\ Keeps(p, c) /\ c.pc = pc /\ c.ok = proc[p].ok /\ c.i = proc[p].i
  BY <1>1 DEF CommandRecords, Keeps
<1>3. proc' = [proc EXCEPT ![p] = c]
  BY DEF Goto
<1>. QED  BY <1>2, <1>3

LEMMA Delegating ==
    ASSUME NEW p \in Procs, TablesOK, _delegate_engine(p)
    PROVE  \E c \in CommandRecords : /\ proc' = [proc EXCEPT ![p] = c]
                                     /\ Keeps(p, c) /\ c.pc = proc[p].pc
                                     /\ c.ok => proc[p].ok
<1>0. proc \in [Procs -> CommandRecords] /\ proc[p] \in CommandRecords
  BY DEF TablesOK
<1>1. PICK ok \in BOOLEAN : proc' = [proc EXCEPT ![p].i = @ + 1, ![p].ok = @ /\ ok]
  BY DEF _delegate_engine
<1>2. PICK both \in BOOLEAN : both = (proc[p].ok /\ ok)
  OBVIOUS
<1>3. PICK c : c = [proc[p] EXCEPT !.i = proc[p].i + 1, !.ok = both]
  OBVIOUS
<1>4. proc' = [proc EXCEPT ![p] = c]
  BY <1>0, <1>1, <1>2, <1>3
<1>5. proc[p].i + 1 \in Nat
  BY <1>0 DEF CommandRecords
<1>6. c \in CommandRecords
  BY <1>0, <1>3, <1>5, Zenon DEF CommandRecords
<1>7. Keeps(p, c) /\ c.pc = proc[p].pc /\ (c.ok => proc[p].ok)
  BY <1>0, <1>2, <1>3 DEF CommandRecords, Keeps
<1>. QED  BY <1>4, <1>6, <1>7

LEMMA IdleHolds == Idle \in CommandRecords /\ Idle.pc = "idle" /\ Idle.run = 0 /\ CommandOK(Idle)
<1>1. << >> \in Seq(Engines)
  OBVIOUS
<1>2. Idle \in CommandRecords /\ Idle.pc = "idle" /\ Idle.run = 0
  BY <1>1, Zenon DEF Idle, CommandRecords, Names
<1>3. CommandOK(Idle)
  <2>. HIDE DEF Idle
  <2>. QED  BY <1>2 DEF CommandOK, HoldsPlan, HoldsRun, HasWritten, BuildPcs, RunPcs, PlanPcs, Persisting
<1>. QED  BY <1>2, <1>3

\* A command that returns.
LEMMA ExitKeeps ==
    ASSUME NEW p \in Procs, AuthoringInv, Exit(p), UNCHANGED <<config, tables, files>>,
           (proc[p].run = 0 /\ ("died" \in trouble => "died" \in trouble')) \/ "died" \in trouble'
    PROVE  AuthoringInv'
<1>1. proc' = [proc EXCEPT ![p] = Idle]
  BY DEF Exit
<1>2. RoomForPlans'
  BY <1>1, IdleHolds, RoomStays DEF tables, PlanPcs
<1>3. files' \in [Pipelines -> [by : Nat, at : Nat]]
  BY DEF AuthoringInv, TablesOK
<1>. QED  BY <1>1, <1>2, <1>3, IdleHolds, QuietSteps

\* carve plan and carve plan-and-build begin.
LEMMA PlansStart ==
    ASSUME NEW p \in Procs, NEW parent \in 0..MaxPlans, NEW target \in Names, NEW auto \in BOOLEAN,
           AuthoringInv, StartPlan(p, parent, target, auto)
    PROVE  AuthoringInv'
<1>0. proc[p].run = 0 /\ proc[p].pc = "idle" /\ config \in Nat /\ proc \in [Procs -> CommandRecords]
  BY DEF StartPlan, At, AuthoringInv, CommandOK, HoldsRun, RunPcs, Persisting, TablesOK
<1>1. CASE Exit(p)
  BY <1>0, <1>1, ExitKeeps DEF StartPlan
<1>2. CASE ~Exit(p)
  <2>1. PICK c : c = [Idle EXCEPT
                        !.pc = IF parent = 0 /\ target = "none" THEN "decompose" ELSE "plan",
                        !.auto = auto, !.config = config, !.target = target]
    OBVIOUS
  <2>2. proc' = [proc EXCEPT ![p] = c]
    BY <1>2, <2>1 DEF StartPlan
  <2>3. c \in CommandRecords /\ c.pc \in {"decompose", "plan"} /\ c.run = 0
    <3>1. << >> \in Seq(Engines)
      OBVIOUS
    <3>. QED  BY <1>0, <2>1, <3>1 DEF Idle, CommandRecords, Names, PlanPcs
  <2>4. CommandOK(c)
    BY <2>3 DEF CommandOK, HoldsPlan, HoldsRun, HasWritten, BuildPcs, RunPcs, PlanPcs, Persisting
  <2>5. RoomForPlans'
    <3>1. PICK n \in 0..MaxPlans : Saved = 1..n /\ Cardinality(Planners) <= MaxPlans - n
      BY DEF AuthoringInv, RoomForPlans
    <3>2. n \in Nat /\ MaxPlans \in Nat /\ n <= MaxPlans
      BY <3>1, AuthoringAssumption
    <3>3. Saved' = 1..n
      BY <3>1 DEF StartPlan, Saved, tables
    <3>4. IsFiniteSet(Planners) /\ Planners \subseteq Procs
      BY FS_Subset, AuthoringAssumption DEF Planners
    <3>5. Planners' = Planners \cup {p} /\ p \notin Planners
      BY <1>0, <2>2, <2>3 DEF Planners, PlanPcs
    <3>6. Cardinality(Planners') = Cardinality(Planners) + 1 /\ Cardinality(Planners) \in Nat
      BY <3>4, <3>5, FS_AddElement, FS_CardinalityType
    <3>7. Planning < Cardinality({k \in Plans : plan[k].phase = "absent"}) /\ Planning = Cardinality(Planners)
      BY DEF StartPlan, Planning, Planners, PlanPcs
    <3>8. {k \in Plans : plan[k].phase = "absent"} = (n + 1)..MaxPlans
      <4>1. {k \in Plans : plan[k].phase = "absent"} = Plans \ Saved
        BY DEF Saved
      <4>. QED  BY <4>1, <3>1, <3>2 DEF Plans
    <3>9. Cardinality((n + 1)..MaxPlans) = MaxPlans - n
      <4>1. n + 1 \in Int /\ MaxPlans \in Int
        BY <3>2
      <4>2. Cardinality((n + 1)..MaxPlans) = IF n + 1 > MaxPlans THEN 0 ELSE MaxPlans - (n + 1) + 1
        BY <4>1, FS_Interval
      <4>. QED  BY <3>2, <4>2
    <3>10. Cardinality(Planners') <= MaxPlans - n
      <4>1. Cardinality(Planners) < MaxPlans - n
        BY <3>7, <3>8, <3>9
      <4>. QED  BY <3>2, <3>6, <4>1
    <3>. QED  BY <3>1, <3>3, <3>10 DEF RoomForPlans
  <2>6. files' \in [Pipelines -> [by : Nat, at : Nat]] /\ UNCHANGED <<config, tables, trouble>>
    BY DEF AuthoringInv, TablesOK, StartPlan
  <2>. QED  BY <1>0, <2>2, <2>3, <2>4, <2>5, <2>6, QuietSteps
<1>. QED  BY <1>1, <1>2

\* A command that goes from one way of planning to another.
LEMMA PlanningGoesOn ==
    ASSUME NEW p \in Procs, NEW c \in CommandRecords, AuthoringInv, proc[p].pc \in PlanPcs,
           proc' = [proc EXCEPT ![p] = c], UNCHANGED <<config, tables, files, trouble>>,
           c.pc \in PlanPcs, c.pc = "save" => c.name \in Pipelines, c.run = proc[p].run
    PROVE  AuthoringInv'
<1>1. proc[p].run = 0
  BY DEF AuthoringInv, CommandOK, HoldsRun, RunPcs, PlanPcs, Persisting
<1>2. CommandOK(c)
  BY <1>1 DEF CommandOK, HoldsPlan, HoldsRun, HasWritten, BuildPcs, RunPcs, PlanPcs, Persisting
<1>3. RoomForPlans'
  BY RoomStays DEF tables
<1>4. files' \in [Pipelines -> [by : Nat, at : Nat]]
  BY DEF AuthoringInv, TablesOK
<1>. QED  BY <1>2, <1>3, <1>4, QuietSteps

\* A goal is decomposed, its engines are asked, and the plan agent is.
LEMMA PlansGoOn ==
    ASSUME NEW p \in Procs, AuthoringInv, Decompose(p) \/ Design(p) \/ PlanAgent(p)
    PROVE  AuthoringInv'
<1>0. proc \in [Procs -> CommandRecords] /\ proc[p] \in CommandRecords
  BY DEF AuthoringInv, TablesOK
<1>1. CASE Decompose(p)
  <2>1. proc[p].pc = "decompose" /\ UNCHANGED <<config, tables, files, trouble>>
    BY <1>1 DEF Decompose, At
  <2>2. CASE Goto(p, "plan")
    <3>1. PICK c \in CommandRecords : /\ proc' = [proc EXCEPT ![p] = c] /\ Keeps(p, c) /\ c.pc = "plan"
      BY <2>2, Going DEF AuthoringInv, PlanPcs
    <3>. QED  BY <2>1, <3>1, PlanningGoesOn DEF PlanPcs, Keeps
  <2>3. ASSUME NEW s \in SubGoals, proc' = [proc EXCEPT ![p].engines = s, ![p].pc = "design"]
        PROVE  AuthoringInv'
    <3>1. PICK c : c = [proc[p] EXCEPT !.engines = s, !.pc = "design"]
      OBVIOUS
    <3>2. proc' = [proc EXCEPT ![p] = c]
      BY <2>3, <3>1, <1>0
    <3>3. c \in CommandRecords /\ c.pc = "design" /\ c.run = proc[p].run
      BY <1>0, <3>1, AuthoringAssumption DEF CommandRecords, PlanPcs
    <3>. QED  BY <2>1, <3>2, <3>3, PlanningGoesOn DEF PlanPcs
  <2>. QED  BY <1>1, <2>2, <2>3 DEF Decompose
<1>2. CASE Design(p)
  <2>1. proc[p].pc = "design" /\ UNCHANGED <<config, tables, files, trouble>>
    BY <1>2 DEF Design, At
  <2>2. CASE Fallback(p)
    <3>1. PICK c : c = [proc[p] EXCEPT !.pc = "plan", !.engines = << >>, !.i = 1, !.ok = TRUE]
      OBVIOUS
    <3>2. proc' = [proc EXCEPT ![p] = c]
      BY <2>2, <3>1, <1>0 DEF Fallback
    <3>3. c \in CommandRecords /\ c.pc = "plan" /\ c.run = proc[p].run
      <4>1. << >> \in Seq(Engines)
        OBVIOUS
      <4>. QED  BY <4>1, <1>0, <3>1 DEF CommandRecords, PlanPcs
    <3>. QED  BY <2>1, <3>2, <3>3, PlanningGoesOn DEF PlanPcs
  <2>3. CASE _delegate_engine(p)
    <3>1. PICK c \in CommandRecords : proc' = [proc EXCEPT ![p] = c] /\ Keeps(p, c) /\ c.pc = proc[p].pc
      BY <2>3, Delegating DEF AuthoringInv
    <3>. QED  BY <2>1, <3>1, PlanningGoesOn DEF PlanPcs, Keeps
  <2>4. CASE _artifact_from_delegations(p)
    <3>1. PICK n \in Pipelines : proc' = [proc EXCEPT ![p].name = n, ![p].pc = "save"]
      BY <2>4 DEF _artifact_from_delegations
    <3>2. PICK c : c = [proc[p] EXCEPT !.name = n, !.pc = "save"]
      OBVIOUS
    <3>3. proc' = [proc EXCEPT ![p] = c]
      BY <3>1, <3>2, <1>0
    <3>4. c \in CommandRecords /\ c.pc = "save" /\ c.run = proc[p].run /\ c.name \in Pipelines
      BY <1>0, <3>2 DEF CommandRecords, PlanPcs, Names
    <3>. QED  BY <2>1, <3>3, <3>4, PlanningGoesOn DEF PlanPcs
  <2>. QED  BY <1>2, <2>2, <2>3, <2>4 DEF Design
<1>3. CASE PlanAgent(p)
  <2>1. proc[p].pc = "plan" /\ UNCHANGED <<config, tables, files, trouble>>
    BY <1>3 DEF PlanAgent, At
  <2>2. CASE Exit(p)
    <3>1. proc[p].run = 0
      BY <2>1 DEF AuthoringInv, CommandOK, HoldsRun, RunPcs, Persisting
    <3>. QED  BY <2>1, <2>2, <3>1, ExitKeeps
  <2>3. ASSUME NEW n \in Pipelines, proc' = [proc EXCEPT ![p].name = n, ![p].pc = "save"]
        PROVE  AuthoringInv'
    <3>2. PICK c : c = [proc[p] EXCEPT !.name = n, !.pc = "save"]
      OBVIOUS
    <3>3. proc' = [proc EXCEPT ![p] = c]
      BY <2>3, <3>2, <1>0
    <3>4. c \in CommandRecords /\ c.pc = "save" /\ c.run = proc[p].run /\ c.name \in Pipelines
      BY <1>0, <3>2 DEF CommandRecords, PlanPcs, Names
    <3>. QED  BY <2>1, <3>3, <3>4, PlanningGoesOn DEF PlanPcs
  <2>. QED  BY <1>3, <2>2, <2>3 DEF PlanAgent
<1>. QED  BY <1>1, <1>2, <1>3

\* What a command that builds has, at the place it is.
LEMMA HasRun ==
    ASSUME NEW p \in Procs, AuthoringInv, proc[p].pc \in RunPcs
    PROVE  /\ proc[p].run \in DOMAIN runs /\ proc[p].run # 0
           /\ runs[proc[p].run].plan = proc[p].plan
           /\ runs[proc[p].run].status \in {"pending", "running"}
           /\ proc[p].plan \in Saved /\ proc[p].name = _pipeline_name_from(proc[p].plan)
           /\ proc[p].name \in Pipelines
  BY DEF AuthoringInv, PlansNamed, CommandOK, HoldsRun, HoldsPlan, BuildPcs

\* A step of a command that builds, within the places where its run is new.
LEMMA BuildingGoesOn ==
    ASSUME NEW p \in Procs, NEW c \in CommandRecords, AuthoringInv, proc[p].pc \in RunPcs,
           proc' = [proc EXCEPT ![p] = c], Keeps(p, c), UNCHANGED <<config, tables>>,
           "died" \in trouble => "died" \in trouble',
           files' \in [Pipelines -> [by : Nat, at : Nat]],
           \/ c.pc = proc[p].pc /\ (c.ok => proc[p].ok)
           \/ c.pc = "fail" /\ proc[p].pc # "start"
           \/ proc[p].pc \in {"agent", "engines"} /\ c.pc \in {"pipeline", "review"}
           \/ proc[p].pc = "review" /\ proc[p].ok /\ c.pc = "pipeline"
    PROVE  AuthoringInv'
<1>1. c.pc \in RunPcs
  BY DEF RunPcs, Persisting
<1>2. CommandOK(c)
  <2>0. CommandOK(proc[p])
    BY DEF AuthoringInv
  <2>1. HoldsPlan(c)
    BY <1>1, HasRun DEF HoldsPlan, Keeps, RunPcs, Persisting
  <2>2. HoldsRun(c)
    <3>1. runs[c.run].status = IF c.pc = "start" THEN "pending" ELSE "running"
      BY <2>0 DEF CommandOK, HoldsRun, Keeps, RunPcs, Persisting
    <3>2. /\ c.pc \in {"start", "agent", "engines"} \cup Persisting => ~runs[c.run].blocked
          /\ c.pc = "review" /\ c.ok => ~runs[c.run].blocked
      BY <2>0 DEF CommandOK, HoldsRun, Keeps, RunPcs, Persisting
    <3>3. c.pc \in {"start", "agent", "engines", "review"} => \A b \in DOMAIN builds : builds[b].run # c.run
      BY <2>0 DEF CommandOK, HoldsRun, Keeps, RunPcs, Persisting
    <3>. QED  BY <1>1, <3>1, <3>2, <3>3, HasRun DEF HoldsRun, Keeps
  <2>3. HasWritten(c)
    BY <2>0 DEF CommandOK, HasWritten, Keeps, RunPcs, Persisting
  <2>. QED  BY <2>1, <2>2, <2>3 DEF CommandOK
<1>3. RoomForPlans'
  BY <1>1, RoomStays DEF tables, PlanPcs, RunPcs, Persisting
<1>. QED  BY <1>2, <1>3, QuietSteps DEF Keeps

\* The gate, and the build command before it.
LEMMA GateKeeps ==
    ASSUME NEW p \in Procs, AuthoringInv,
           Gate(p) \/ \E k \in Plans, force \in BOOLEAN : StartBuild(p, k, force)
    PROVE  AuthoringInv'
<1>0. proc \in [Procs -> CommandRecords] /\ proc[p] \in CommandRecords /\ config \in Nat /\ << >> \in Seq(Engines)
  BY DEF AuthoringInv, TablesOK
<1>1. CASE Gate(p)
  <2>1. proc[p].pc = "gate" /\ UNCHANGED <<config, tables, files, trouble>>
    BY <1>1 DEF Gate, At
  <2>2. proc[p].run = 0 /\ proc[p].plan \in Saved
    BY <2>1 DEF AuthoringInv, CommandOK, HoldsRun, HoldsPlan, RunPcs, Persisting
  <2>3. CASE Exit(p)
    BY <2>1, <2>2, <2>3, ExitKeeps
  <2>4. CASE ~Exit(p)
    <3>1. PICK k : k = proc[p].plan
      OBVIOUS
    <3>2. PICK c : c = [Idle EXCEPT !.pc = "create", !.plan = k, !.name = _pipeline_name_from(k),
                                    !.engines = _reconstruct_sub_goals(k)]
      OBVIOUS
    <3>3. proc' = [proc EXCEPT ![p] = c]
      BY <1>1, <2>4, <3>1, <3>2, Zenon DEF Gate
    <3>4. k \in Saved /\ k \in Plans /\ k \in Nat
      BY <2>2, <3>1, <1>0 DEF Saved, CommandRecords
    <3>5. plan[k].engines \in Seq(Engines) /\ _pipeline_name_from(k) \in Pipelines
      BY <3>4 DEF AuthoringInv, TablesOK, PlansNamed
    <3>6. c \in CommandRecords /\ c.pc = "create" /\ c.run = 0 /\ c.plan = k /\ c.name = _pipeline_name_from(k)
      <4>1. PICK n \in Pipelines : n = _pipeline_name_from(k)
        BY <3>5
      <4>2. PICK e \in Seq(Engines) : e = _reconstruct_sub_goals(k)
        BY <3>5 DEF _reconstruct_sub_goals
      <4>3. c = [Idle EXCEPT !.pc = "create", !.plan = k, !.name = n, !.engines = e]
        BY <3>2, <4>1, <4>2
      <4>. QED  BY <4>1, <4>3, <3>4 DEF Idle, CommandRecords, Names, BuildPcs
    <3>7. CommandOK(c)
      BY <3>4, <3>6 DEF CommandOK, HoldsPlan, HoldsRun, HasWritten, RunPcs, Persisting
    <3>8. RoomForPlans'
      BY <2>1, <3>3, <3>6, RoomStays DEF tables, PlanPcs
    <3>9. files' \in [Pipelines -> [by : Nat, at : Nat]]
      BY <2>1 DEF AuthoringInv, TablesOK
    <3>. QED  BY <2>1, <2>2, <3>3, <3>6, <3>7, <3>8, <3>9, QuietSteps
  <2>. QED  BY <2>3, <2>4
<1>2. ASSUME NEW k \in Plans, NEW force \in BOOLEAN, StartBuild(p, k, force)
      PROVE  AuthoringInv'
  <2>1. proc[p].pc = "idle" /\ k \in Saved /\ UNCHANGED <<config, tables, files, trouble>> /\ k \in Nat
    <3>1. k \in Nat
      BY AuthoringAssumption DEF Plans
    <3>. QED  BY <1>2, <3>1 DEF StartBuild, At, Saved
  <2>2. proc[p].run = 0
    BY <2>1 DEF AuthoringInv, CommandOK, HoldsRun, RunPcs, Persisting
  <2>3. PICK c : c = [Idle EXCEPT !.pc = "gate", !.config = config, !.plan = k, !.force = force]
    OBVIOUS
  <2>4. proc' = [proc EXCEPT ![p] = c]
    BY <1>2, <2>3 DEF StartBuild
  <2>5. c \in CommandRecords /\ c.pc = "gate" /\ c.run = 0 /\ c.plan = k
    BY <1>0, <2>1, <2>3 DEF Idle, CommandRecords, Names
  <2>6. CommandOK(c)
    BY <2>1, <2>5 DEF CommandOK, HoldsPlan, HoldsRun, HasWritten, RunPcs, Persisting, BuildPcs
  <2>7. RoomForPlans'
    BY <2>1, <2>4, <2>5, RoomStays DEF tables, PlanPcs
  <2>8. files' \in [Pipelines -> [by : Nat, at : Nat]]
    BY <2>1 DEF AuthoringInv, TablesOK
  <2>. QED  BY <2>1, <2>2, <2>4, <2>5, <2>6, <2>7, <2>8, QuietSteps
<1>. QED  BY <1>1, <1>2

LEMMA FilesWritten ==
    ASSUME NEW p \in Procs, TablesOK, Wrote(p) \/ UNCHANGED files
    PROVE  files' \in [Pipelines -> [by : Nat, at : Nat]]
<1>1. CASE UNCHANGED files
  BY <1>1 DEF TablesOK
<1>2. CASE Wrote(p)
  <2>1. proc[p].run \in Nat
    BY DEF TablesOK, CommandRecords
  <2>2. files' = [files EXCEPT ![proc[p].name] = [by |-> proc[p].run, at |-> files[proc[p].name].at + 1]]
    BY <1>2 DEF Wrote
  <2>3. proc[p].name \in Pipelines => files[proc[p].name].at + 1 \in Nat
    BY DEF TablesOK
  <2>. QED  BY <2>1, <2>2, <2>3 DEF TablesOK
<1>. QED  BY <1>1, <1>2

\* The agent and the engineers write, and end.
LEMMA AgentsKeep ==
    ASSUME NEW p \in Procs, AuthoringInv, AgentWrites(p) \/ AgentEnds(p) \/ Engineer(p)
    PROVE  AuthoringInv'
<1>0. TablesOK /\ proc \in [Procs -> CommandRecords] /\ proc[p] \in CommandRecords
      /\ {"fail", "pipeline"} \subseteq BuildPcs
  BY DEF AuthoringInv, TablesOK, BuildPcs, RunPcs, Persisting
<1>1. UNCHANGED <<config, tables>> /\ trouble' = trouble
  BY DEF AgentWrites, AgentEnds, Engineer
<1>2. proc[p].pc \in {"agent", "engines"} /\ proc[p].pc \in RunPcs
  BY DEF AgentWrites, AgentEnds, Engineer, At, RunPcs
<1>3. files' \in [Pipelines -> [by : Nat, at : Nat]]
  BY <1>0, FilesWritten DEF AgentWrites, AgentEnds, Engineer
<1>4. ASSUME NEW pc \in {"fail", "pipeline"}, Goto(p, pc)
      PROVE  AuthoringInv'
  <2>1. PICK c \in CommandRecords : proc' = [proc EXCEPT ![p] = c] /\ Keeps(p, c) /\ c.pc = pc
    BY <1>0, <1>4, Going
  <2>. QED  BY <1>1, <1>2, <1>3, <2>1, BuildingGoesOn
<1>5. CASE AgentWrites(p)
  <2>1. PICK c : c = [proc[p] EXCEPT !.i = 2]
    OBVIOUS
  <2>2. proc' = [proc EXCEPT ![p] = c]
    BY <1>0, <1>5, <2>1 DEF AgentWrites
  <2>3. c \in CommandRecords /\ Keeps(p, c) /\ c.pc = proc[p].pc /\ c.ok = proc[p].ok
    BY <1>0, <2>1 DEF CommandRecords, Keeps
  <2>. QED  BY <1>1, <1>2, <1>3, <2>2, <2>3, BuildingGoesOn
<1>6. CASE AgentEnds(p)
  BY <1>4, <1>6 DEF AgentEnds
<1>7. CASE Engineer(p)
  <2>1. CASE _delegate_engine(p)
    <3>1. PICK c \in CommandRecords : /\ proc' = [proc EXCEPT ![p] = c] /\ Keeps(p, c) /\ c.pc = proc[p].pc
                                /\ (c.ok => proc[p].ok)
      BY <1>0, <2>1, Delegating
    <3>. QED  BY <1>1, <1>2, <1>3, <3>1, BuildingGoesOn
  <2>2. CASE proc' = [proc EXCEPT ![p].i = 1, ![p].pc = IF proc[p].ok THEN "review" ELSE "fail"]
    <3>1. PICK pc \in {"review", "fail"} : pc = IF proc[p].ok THEN "review" ELSE "fail"
      OBVIOUS
    <3>2. PICK c : c = [proc[p] EXCEPT !.i = 1, !.pc = pc]
      OBVIOUS
    <3>3. proc' = [proc EXCEPT ![p] = c]
      BY <1>0, <2>2, <3>1, <3>2
    <3>4. c \in CommandRecords /\ Keeps(p, c) /\ c.pc = pc
      BY <1>0, <3>2 DEF CommandRecords, Keeps, BuildPcs, RunPcs
    <3>. QED  BY <1>1, <1>2, <1>3, <1>7, <3>3, <3>4, BuildingGoesOn DEF Engineer, At
  <2>. QED  BY <1>4, <1>7, <2>1, <2>2 DEF Engineer
<1>. QED  BY <1>5, <1>6, <1>7

\* A transaction raises, or the command dies.
LEMMA TroubleKeeps ==
    ASSUME NEW p \in Procs, AuthoringInv, Raise(p) \/ Die(p)
    PROVE  AuthoringInv'
<1>1. CASE Raise(p)
  <2>1. PICK c \in CommandRecords : proc' = [proc EXCEPT ![p] = c] /\ Keeps(p, c) /\ c.pc = "fail"
    BY <1>1, Going DEF Raise, AuthoringInv, BuildPcs, RunPcs
  <2>2. files' \in [Pipelines -> [by : Nat, at : Nat]] /\ UNCHANGED <<config, tables>>
    BY <1>1 DEF Raise, AuthoringInv, TablesOK
  <2>3. "died" \in trouble => "died" \in trouble'
    BY <1>1 DEF Raise, Disturb
  <2>4. proc[p].pc \in RunPcs /\ proc[p].pc # "start"
    BY <1>1 DEF Raise, RunPcs, Persisting
  <2>. QED  BY <2>1, <2>2, <2>3, <2>4, BuildingGoesOn
<1>2. CASE Die(p)
  BY <1>2, ExitKeeps DEF Die, Disturb
<1>. QED  BY <1>1, <1>2

-----------------------------------------------------------------------------
BuildRuns == [plan : Plans, pipeline : Names, blocked : BOOLEAN,
              status : {"pending", "running", "success", "failed"}]

\* The row of a command that goes on, and a row that is not a lie about Builds.
RunGoesOn(c, row) ==
    /\ c.pc \in RunPcs \ {"current", "mark", "success"} /\ c.plan = row.plan
    /\ row.status = IF c.pc = "start" THEN "pending" ELSE "running"
    /\ c.pc \notin {"review", "fail"} => ~row.blocked
    /\ c.pc = "review" /\ c.ok => ~row.blocked
    /\ c.pc \in {"start", "agent", "engines", "review"} => \A b \in DOMAIN builds : builds[b].run # c.run
    /\ c.pc = "build" => row.pipeline = c.name
RowIsTrue(r, row) ==
    /\ row.blocked => \A b \in DOMAIN builds : builds[b].run # r
    /\ row.status = "success" =>
          /\ \E b \in DOMAIN builds : builds[b].run = r /\ builds[b].pipeline = row.pipeline
          /\ plan[row.plan].phase = "built" /\ plan[row.plan].pipeline = row.pipeline

\* A step that writes the row of the command's run: a run that is over is built
\* if it says success, and a run is blocked before it has Builds.
LEMMA RunSteps ==
    ASSUME NEW p \in Procs, NEW c \in CommandRecords, NEW row \in BuildRuns,
           AuthoringInv, proc[p].pc \in RunPcs, proc' = [proc EXCEPT ![p] = c],
           runs' = [runs EXCEPT ![proc[p].run] = row],
           UNCHANGED <<config, plan, pipeline, builds, files, trouble>>,
           row.plan = proc[p].plan, c.pc \notin PlanPcs, HoldsPlan(c),
           c.run = proc[p].run \/ (c.run = 0 /\ row.status \in {"success", "failed"}),
           c.run # 0 => RunGoesOn(c, row), c.run = 0 => c.pc \notin RunPcs,
           RowIsTrue(proc[p].run, row)
    PROVE  AuthoringInv'
<1>. DEFINE r == proc[p].run
<1>0. r \in DOMAIN runs /\ r # 0 /\ runs \in Seq(BuildRuns) /\ proc \in [Procs -> CommandRecords]
  BY HasRun DEF AuthoringInv, TablesOK, BuildRuns
<1>1. DOMAIN runs' = DOMAIN runs /\ runs'[r] = row /\ (\A q \in DOMAIN runs : q # r => runs'[q] = runs[q])
      /\ runs' \in Seq(BuildRuns)
  BY <1>0
<1>. HIDE DEF r
<1>2. TablesOK'
  <2>1. proc' \in [Procs -> CommandRecords]
    BY <1>0
  <2>. QED  BY <1>1, <2>1 DEF AuthoringInv, TablesOK, BuildRuns
<1>3. TablesGrow(p)
  BY <1>1 DEF TablesGrow, Saved, _pipeline_name_from, r
<1>4. CommandOK(c)'
  <2>1. HoldsPlan(c)'
    BY DEF HoldsPlan, Saved, _pipeline_name_from
  <2>2. HoldsRun(c)'
    BY <1>0, <1>1 DEF HoldsRun, r, RunPcs, Persisting, RunGoesOn
  <2>3. HasWritten(c)'
    BY <1>1 DEF HasWritten, r, RunPcs, Persisting, RunGoesOn
  <2>. QED  BY <2>1, <2>2, <2>3 DEF CommandOK
<1>5. (\A q \in Procs : CommandOK(proc[q])') /\ RunsApart'
  BY <1>2, <1>3, <1>4, CommandSteps
<1>6. RoomForPlans'
  BY RoomStays
<1>7. PlansNamed'
  BY DEF AuthoringInv, PlansNamed, Saved, _pipeline_name_from
<1>8. BuildsOK'
  BY <1>1 DEF AuthoringInv, BuildsOK, r, RowIsTrue
<1>9. SuccessIsBuilt'
  BY <1>0, <1>1 DEF AuthoringInv, SuccessIsBuilt, r, RowIsTrue
<1>10. NoOrphans'
  <2>. SUFFICES ASSUME "died" \notin trouble', NEW s \in DOMAIN runs',
                       runs'[s].status \in {"pending", "running"}
                PROVE  \E q \in Procs : proc'[q].run = s
    BY DEF NoOrphans
  <2>1. CASE s = r
    <3>1. c.run = r
      BY <1>1, <2>1 DEF r
    <3>2. proc'[p].run = s
      BY <1>0, <2>1, <3>1
    <3>. QED  BY <3>2
  <2>2. CASE s # r
    <3>1. PICK q \in Procs : proc[q].run = s
      BY <1>1, <2>2 DEF AuthoringInv, NoOrphans
    <3>2. q # p
      BY <2>2, <3>1 DEF r
    <3>3. proc'[q].run = s
      BY <1>0, <3>1, <3>2
    <3>. QED  BY <3>3
  <2>. QED  BY <2>1, <2>2
<1>. QED  BY <1>2, <1>5, <1>6, <1>7, <1>8, <1>9, <1>10 DEF AuthoringInv

\* The run begins, is attached, succeeds or fails.
LEMMA RunsKeep ==
    ASSUME NEW p \in Procs, AuthoringInv,
           SetRunning(p) \/ PersistAttach(p) \/ PersistSuccess(p) \/ Fail(p)
    PROVE  AuthoringInv'
<1>. DEFINE r == proc[p].run
<1>0. /\ proc[p].pc \in {"start", "attach", "success", "fail"} /\ proc[p].pc \in RunPcs
      /\ UNCHANGED <<config, plan, pipeline, builds, files, trouble>>
      /\ {"agent", "engines", "build"} \subseteq BuildPcs
  BY DEF SetRunning, PersistAttach, PersistSuccess, Fail, At, RunPcs, Persisting, BuildPcs
<1>1. /\ TablesOK /\ proc[p] \in CommandRecords /\ CommandOK(proc[p]) /\ runs[r] \in BuildRuns
      /\ proc \in [Procs -> CommandRecords]
  <2>1. TablesOK /\ CommandOK(proc[p])
    BY DEF AuthoringInv
  <2>2. r \in DOMAIN runs
    BY <1>0, HasRun
  <2>3. runs \in Seq(BuildRuns) /\ proc[p] \in CommandRecords /\ proc \in [Procs -> CommandRecords]
    BY <2>1 DEF TablesOK, BuildRuns
  <2>4. runs[r] \in BuildRuns
    BY <2>2, <2>3
  <2>. QED  BY <2>1, <2>3, <2>4
<1>2. CASE SetRunning(p)
  <2>1. proc[p].pc = "start"
    BY <1>2 DEF SetRunning, At
  <2>2. PICK row : row = [runs[r] EXCEPT !.status = "running"]
    OBVIOUS
  <2>3. row \in BuildRuns /\ row.plan = runs[r].plan /\ row.blocked = runs[r].blocked /\ row.status = "running"
    BY <1>1, <2>2 DEF BuildRuns
  <2>4. runs' = [runs EXCEPT ![proc[p].run] = row]
    BY <1>2, <2>2 DEF SetRunning, update_run_status
  <2>5. PICK pc \in {"agent", "engines"} : Goto(p, pc)
    BY <1>2 DEF SetRunning
  <2>6. PICK c \in CommandRecords : proc' = [proc EXCEPT ![p] = c] /\ Keeps(p, c) /\ c.pc = pc
    BY <1>0, <1>1, <2>5, Going
  <2>7. HoldsPlan(c) /\ c.pc \notin PlanPcs /\ c.pc \in RunPcs
    BY <1>0, <2>6, HasRun DEF HoldsPlan, Keeps, PlanPcs, RunPcs
  <2>8. ~runs[r].blocked /\ \A b \in DOMAIN builds : builds[b].run # r
    BY <1>1, <2>1 DEF CommandOK, HoldsRun, RunPcs
  <2>9. RunGoesOn(c, row) /\ RowIsTrue(r, row) /\ c.run = r /\ r # 0 /\ row.plan = proc[p].plan
    BY <1>0, <2>3, <2>6, <2>7, <2>8, HasRun DEF Keeps, RunGoesOn, RowIsTrue
  <2>. QED  BY <1>0, <2>3, <2>4, <2>6, <2>7, <2>9, RunSteps
<1>3. CASE PersistAttach(p)
  <2>1. proc[p].pc = "attach"
    BY <1>3 DEF PersistAttach, At
  <2>2. PICK row : row = [runs[r] EXCEPT !.pipeline = proc[p].name]
    OBVIOUS
  <2>3. row \in BuildRuns /\ row.plan = runs[r].plan /\ row.blocked = runs[r].blocked
        /\ row.status = runs[r].status /\ row.pipeline = proc[p].name
    BY <1>0, <1>1, <2>2, HasRun DEF BuildRuns, Names
  <2>4. runs' = [runs EXCEPT ![proc[p].run] = row]
    BY <1>3, <2>2 DEF PersistAttach, attach_pipeline_to_run
  <2>6. PICK c \in CommandRecords : proc' = [proc EXCEPT ![p] = c] /\ Keeps(p, c) /\ c.pc = "build"
    BY <1>0, <1>1, <1>3, Going DEF PersistAttach
  <2>7. HoldsPlan(c) /\ c.pc \notin PlanPcs /\ c.pc \in RunPcs
    BY <1>0, <2>6, HasRun DEF HoldsPlan, Keeps, PlanPcs, RunPcs, Persisting
  <2>8. ~runs[r].blocked /\ runs[r].status = "running"
    BY <1>1, <2>1 DEF CommandOK, HoldsRun, RunPcs, Persisting
  <2>9. RunGoesOn(c, row) /\ RowIsTrue(r, row) /\ c.run = r /\ r # 0 /\ row.plan = proc[p].plan
    BY <1>0, <2>3, <2>6, <2>7, <2>8, HasRun DEF Keeps, RunGoesOn, RowIsTrue
  <2>. QED  BY <1>0, <2>3, <2>4, <2>6, <2>7, <2>9, RunSteps
<1>4. CASE PersistSuccess(p) \/ Fail(p)
  <2>1. PICK s \in {"success", "failed"} : /\ update_run_status(r, s) /\ Exit(p)
                                           /\ s = "success" => proc[p].pc = "success"
                                           /\ s = "failed" => proc[p].pc = "fail"
    BY <1>4 DEF PersistSuccess, Fail, At
  <2>2. PICK row : row = [runs[r] EXCEPT !.status = s]
    OBVIOUS
  <2>3. row \in BuildRuns /\ row.plan = runs[r].plan /\ row.blocked = runs[r].blocked
        /\ row.status = s /\ row.pipeline = runs[r].pipeline
    BY <1>1, <2>1, <2>2 DEF BuildRuns
  <2>4. runs' = [runs EXCEPT ![proc[p].run] = row]
    BY <2>1, <2>2 DEF update_run_status
  <2>5. proc' = [proc EXCEPT ![p] = Idle]
    BY <2>1 DEF Exit
  <2>6. HoldsPlan(Idle) /\ Idle.pc \notin PlanPcs /\ Idle.pc \notin RunPcs
    BY IdleHolds DEF CommandOK, PlanPcs, RunPcs, Persisting
  <2>7. row.blocked => \A b \in DOMAIN builds : builds[b].run # r
    BY <2>3 DEF AuthoringInv, BuildsOK
  <2>8. row.status = "success" =>
               /\ \E b \in DOMAIN builds : builds[b].run = r /\ builds[b].pipeline = row.pipeline
               /\ plan[row.plan].phase = "built" /\ plan[row.plan].pipeline = row.pipeline
    BY <1>0, <1>1, <2>1, <2>3, HasRun DEF CommandOK, HasWritten
  <2>9. RowIsTrue(r, row) /\ row.plan = proc[p].plan
    BY <1>0, <2>3, <2>7, <2>8, HasRun DEF RowIsTrue
  <2>. QED  BY <1>0, <2>1, <2>3, <2>4, <2>5, <2>6, <2>9, IdleHolds, RunSteps
<1>. QED  BY <1>2, <1>3, <1>4

\* A reviewer blocks the run for good, and only then the gate lets it through.
LEMMA ReviewKeeps ==
    ASSUME NEW p \in Procs, AuthoringInv, Review(p)
    PROVE  AuthoringInv'
<1>. DEFINE r == proc[p].run
<1>1. /\ proc[p].pc = "review" /\ proc[p].pc \in RunPcs /\ {"fail", "pipeline"} \subseteq BuildPcs
      /\ UNCHANGED <<config, plan, pipeline, builds, files, trouble>>
  BY DEF Review, At, RunPcs, BuildPcs, Persisting
<1>2. TablesOK /\ CommandOK(proc[p]) /\ r \in DOMAIN runs
  BY <1>1, HasRun DEF AuthoringInv
<1>3. runs \in Seq(BuildRuns) /\ proc[p] \in CommandRecords /\ proc \in [Procs -> CommandRecords]
      /\ files' \in [Pipelines -> [by : Nat, at : Nat]]
  BY <1>1, <1>2 DEF TablesOK, BuildRuns
<1>4. ASSUME NEW pc \in {"fail", "pipeline"}, Goto(p, pc), UNCHANGED runs,
             pc = "pipeline" => proc[p].ok
      PROVE  AuthoringInv'
  <2>1. PICK c \in CommandRecords : proc' = [proc EXCEPT ![p] = c] /\ Keeps(p, c) /\ c.pc = pc
    BY <1>1, <1>2, <1>4, Going
  <2>. QED  BY <1>1, <1>3, <1>4, <2>1, BuildingGoesOn DEF tables
<1>5. ASSUME NEW finding \in _parse_findings,
             proc' = [proc EXCEPT ![p].i = @ + 1, ![p].ok = Verdict(@, finding)],
             runs' = [runs EXCEPT ![proc[p].run].blocked = @ \/ finding = "blocking"]
      PROVE  AuthoringInv'
  <2>1. PICK blocked \in BOOLEAN : blocked = (runs[r].blocked \/ finding = "blocking")
    OBVIOUS
  <2>2. PICK row : row = [runs[r] EXCEPT !.blocked = blocked]
    OBVIOUS
  <2>3. runs[r] \in BuildRuns
    BY <1>2, <1>3
  <2>4. row \in BuildRuns /\ row.plan = runs[r].plan /\ row.blocked = blocked
        /\ row.status = runs[r].status /\ row.pipeline = runs[r].pipeline
    BY <2>2, <2>3 DEF BuildRuns
  <2>5. runs' = [runs EXCEPT ![proc[p].run] = row]
    BY <1>2, <1>3, <1>5, <2>1, <2>2
  <2>6. PICK ok \in BOOLEAN : ok = (proc[p].ok /\ finding # "blocking")
    OBVIOUS
  <2>7. PICK c : c = [proc[p] EXCEPT !.i = proc[p].i + 1, !.ok = ok]
    OBVIOUS
  <2>8. proc' = [proc EXCEPT ![p] = c]
    BY <1>3, <1>5, <2>6, <2>7 DEF Verdict
  <2>9. proc[p].i + 1 \in Nat
    BY <1>3 DEF CommandRecords
  <2>10. c \in CommandRecords
    BY <1>3, <2>7, <2>9, Zenon DEF CommandRecords
  <2>11. Keeps(p, c) /\ c.pc = "review" /\ (c.ok <=> ok)
    BY <1>1, <1>3, <2>7 DEF CommandRecords, Keeps
  <2>12. HoldsPlan(c) /\ c.pc \notin PlanPcs /\ c.pc \in RunPcs
    BY <1>1, <2>11, HasRun DEF HoldsPlan, Keeps, PlanPcs, RunPcs, Persisting
  <2>13. /\ proc[p].ok => ~runs[r].blocked
         /\ runs[r].status = "running" /\ \A b \in DOMAIN builds : builds[b].run # r
    BY <1>1, <1>2 DEF CommandOK, HoldsRun
  <2>14. c.ok => ~blocked
    BY <2>1, <2>6, <2>11, <2>13
  <2>15. RunGoesOn(c, row) /\ RowIsTrue(r, row) /\ c.run = r /\ r # 0 /\ row.plan = proc[p].plan
    BY <1>1, <2>4, <2>11, <2>12, <2>13, <2>14, HasRun DEF Keeps, RunGoesOn, RowIsTrue
  <2>. QED  BY <1>1, <2>4, <2>5, <2>8, <2>10, <2>12, <2>15, RunSteps
<1>. QED  BY <1>4, <1>5 DEF Review

\* The pipelines table: the row is made, then its current Build is set.
LEMMA PipelinesKeep ==
    ASSUME NEW p \in Procs, AuthoringInv, PersistPipeline(p) \/ PersistCurrent(p)
    PROVE  AuthoringInv'
<1>1. PICK pc \in {"attach", "mark"} :
         /\ Goto(p, pc) /\ UNCHANGED <<config, plan, builds, runs, files, trouble>>
         /\ \/ pc = "attach" /\ proc[p].pc = "pipeline"
            \/ pc = "mark" /\ proc[p].pc = "current"
  BY DEF PersistPipeline, PersistCurrent, At
<1>2. TablesOK /\ CommandOK(proc[p]) /\ proc[p].pc \in RunPcs /\ pc \in BuildPcs
      /\ files' \in [Pipelines -> [by : Nat, at : Nat]]
  BY <1>1 DEF AuthoringInv, RunPcs, BuildPcs, Persisting, TablesOK
<1>3. PICK c \in CommandRecords : proc' = [proc EXCEPT ![p] = c] /\ Keeps(p, c) /\ c.pc = pc
  BY <1>1, <1>2, Going
<1>4. pipeline' \in [Pipelines -> [exists : BOOLEAN, current : Nat]]
  <2>1. CASE PersistPipeline(p)
    BY <1>2, <2>1 DEF PersistPipeline, create_or_update_pipeline, TablesOK
  <2>2. CASE PersistCurrent(p)
    <3>1. proc[p].build \in Nat
      BY <1>2 DEF TablesOK, CommandRecords
    <3>. QED  BY <1>2, <2>2, <3>1 DEF PersistCurrent, set_pipeline_current_build, TablesOK
  <2>. QED  BY <2>1, <2>2
<1>5. CommandOK(c)
  BY <1>1, <1>2, <1>3, HasRun DEF CommandOK, HoldsPlan, HoldsRun, HasWritten, Keeps, BuildPcs, RunPcs, Persisting
<1>6. RoomForPlans'
  BY <1>1, <1>3, RoomStays DEF PlanPcs
<1>7. c.run = proc[p].run
  BY <1>3 DEF Keeps
<1>. QED  BY <1>1, <1>2, <1>3, <1>4, <1>5, <1>6, <1>7, StillSteps

\* The run's row is made, and the Build's.
LEMMA RowsMade ==
    ASSUME NEW p \in Procs, AuthoringInv, CreateRun(p) \/ PersistBuild(p)
    PROVE  AuthoringInv'
<1>0. /\ TablesOK /\ CommandOK(proc[p]) /\ proc[p] \in CommandRecords /\ proc \in [Procs -> CommandRecords]
      /\ runs \in Seq(BuildRuns)
  BY DEF AuthoringInv, TablesOK, BuildRuns
<1>1. CASE CreateRun(p)
  <2>1. /\ proc[p].pc = "create" /\ UNCHANGED <<config, plan, pipeline, builds, files, trouble>>
        /\ proc[p].plan \in Saved /\ proc[p].name = _pipeline_name_from(proc[p].plan)
        /\ proc[p].run = 0
    BY <1>0, <1>1 DEF CreateRun, At, CommandOK, HoldsPlan, HoldsRun, BuildPcs, RunPcs, Persisting
  <2>2. PICK r \in Nat : r = Len(runs) + 1
    BY <1>0
  <2>3. proc[p].name \in Pipelines /\ proc[p].plan \in Plans
    BY <2>1 DEF AuthoringInv, PlansNamed, Saved
  <2>4. PICK at \in Nat : at = files[proc[p].name].at
    BY <1>0, <2>3 DEF TablesOK
  <2>5. PICK c : c = [proc[p] EXCEPT !.pc = "start", !.run = r, !.snapshot = at]
    OBVIOUS
  <2>6. proc' = [proc EXCEPT ![p] = c]
    BY <1>0, <1>1, <2>2, <2>4, <2>5 DEF CreateRun
  <2>7. c \in CommandRecords /\ c.pc = "start" /\ c.run = r /\ c.plan = proc[p].plan /\ c.name = proc[p].name
    BY <1>0, <2>5 DEF CommandRecords, BuildPcs, RunPcs
  <2>8. PICK row \in BuildRuns : /\ runs' = Append(runs, row) /\ row.plan = proc[p].plan
                                 /\ row.status = "pending" /\ row.blocked = FALSE
    <3>1. [plan |-> proc[p].plan, pipeline |-> "none", blocked |-> FALSE, status |-> "pending"] \in BuildRuns
      BY <2>3 DEF BuildRuns, Names
    <3>. QED  BY <1>1, <3>1 DEF CreateRun, create_run
  <2>9. /\ DOMAIN runs' = 1..r /\ runs'[r] = row /\ r \notin DOMAIN runs /\ runs' \in Seq(BuildRuns)
        /\ \A s \in DOMAIN runs : s \in DOMAIN runs' /\ runs'[s] = runs[s]
        /\ \A s \in DOMAIN runs' : s \in DOMAIN runs \/ s = r
        /\ r # 0 /\ r \in DOMAIN runs'
    BY <1>0, <2>2, <2>8
  <2>10. TablesOK'
    <3>1. proc' \in [Procs -> CommandRecords]
      BY <1>0, <2>6, <2>7
    <3>. QED  BY <1>0, <2>1, <2>9, <3>1 DEF TablesOK, BuildRuns
  <2>11. TablesGrow(p)
    BY <2>1, <2>9 DEF TablesGrow, Saved, _pipeline_name_from
  <2>12. \A b \in DOMAIN builds : builds[b].run \in DOMAIN runs /\ builds[b].run # r
    BY <2>9 DEF AuthoringInv, BuildsOK
  <2>13. CommandOK(c)'
    <3>1. HoldsPlan(c)'
      BY <2>1, <2>7 DEF HoldsPlan, Saved, _pipeline_name_from
    <3>2. HoldsRun(c)' /\ HasWritten(c)'
      BY <2>1, <2>7, <2>8, <2>9, <2>12 DEF HoldsRun, HasWritten, RunPcs, Persisting
    <3>. QED  BY <3>1, <3>2 DEF CommandOK
  <2>14. \A q \in Procs : proc[q].run # c.run
    BY <2>7, <2>9 DEF AuthoringInv, CommandOK, HoldsRun
  <2>15. (\A q \in Procs : CommandOK(proc[q])') /\ RunsApart'
    BY <2>6, <2>7, <2>10, <2>11, <2>13, <2>14, CommandSteps
  <2>16. RoomForPlans'
    BY <2>1, <2>6, <2>7, RoomStays DEF PlanPcs
  <2>17. PlansNamed' /\ BuildsOK'
    BY <2>1, <2>9, <2>12 DEF AuthoringInv, PlansNamed, Saved, _pipeline_name_from, BuildsOK
  <2>18. SuccessIsBuilt'
    BY <2>1, <2>8, <2>9 DEF AuthoringInv, SuccessIsBuilt
  <2>19. NoOrphans'
    <3>. SUFFICES ASSUME "died" \notin trouble', NEW s \in DOMAIN runs',
                         runs'[s].status \in {"pending", "running"}
                  PROVE  \E q \in Procs : proc'[q].run = s
      BY DEF NoOrphans
    <3>1. CASE s = r
      <4>1. proc'[p].run = s
        BY <1>0, <2>6, <2>7, <3>1
      <4>. QED  BY <4>1
    <3>2. CASE s \in DOMAIN runs
      <4>1. PICK q \in Procs : proc[q].run = s
        BY <2>1, <2>9, <3>2 DEF AuthoringInv, NoOrphans
      <4>2. q # p
        BY <1>0, <2>1, <4>1, <3>2
      <4>3. proc'[q].run = s
        BY <1>0, <2>6, <4>1, <4>2
      <4>. QED  BY <4>3
    <3>. QED  BY <2>9, <3>1, <3>2
  <2>. QED  BY <2>10, <2>15, <2>16, <2>17, <2>18, <2>19 DEF AuthoringInv
<1>2. CASE PersistBuild(p)
  <2>1. /\ proc[p].pc = "build" /\ UNCHANGED <<config, plan, pipeline, runs, files, trouble>>
        /\ proc[p].pc \in RunPcs
    BY <1>2 DEF PersistBuild, At, RunPcs, Persisting
  <2>2. PICK b \in Nat : b = Len(builds) + 1
    BY <1>0 DEF TablesOK
  <2>3. PICK c : c = [proc[p] EXCEPT !.build = b, !.pc = "current"]
    OBVIOUS
  <2>4. proc' = [proc EXCEPT ![p] = c]
    BY <1>0, <1>2, <2>2, <2>3 DEF PersistBuild
  <2>5. c \in CommandRecords /\ c.pc = "current" /\ c.run = proc[p].run /\ c.plan = proc[p].plan
        /\ c.name = proc[p].name /\ c.build = b
    BY <1>0, <2>3 DEF CommandRecords, BuildPcs, RunPcs, Persisting
  <2>6. PICK row \in [plan : Plans, pipeline : Pipelines, run : Nat, listed : BOOLEAN] :
           /\ builds' = Append(builds, row) /\ row.plan = proc[p].plan /\ row.pipeline = proc[p].name
           /\ row.run = proc[p].run
    <3>1. PICK listed \in BOOLEAN : create_build(proc[p].plan, proc[p].name, proc[p].run, listed)
      BY <1>2 DEF PersistBuild
    <3>2. proc[p].plan \in Plans /\ proc[p].name \in Pipelines /\ proc[p].run \in Nat
      BY <1>0, <2>1, HasRun DEF Saved, CommandRecords
    <3>. QED  BY <3>1, <3>2 DEF create_build
  <2>7. /\ builds'[b] = row /\ b \in DOMAIN builds'
        /\ builds' \in Seq([plan : Plans, pipeline : Pipelines, run : Nat, listed : BOOLEAN])
        /\ \A d \in DOMAIN builds : d \in DOMAIN builds' /\ builds'[d] = builds[d]
        /\ \A d \in DOMAIN builds' : d \in DOMAIN builds \/ d = b
    <3>. DEFINE Rows == [plan : Plans, pipeline : Pipelines, run : Nat, listed : BOOLEAN]
    <3>1. builds \in Seq(Rows) /\ row \in Rows
      BY <1>0, <2>6 DEF TablesOK
    <3>. HIDE DEF Rows
    <3>2. /\ builds'[b] = row /\ b \in DOMAIN builds' /\ builds' \in Seq(Rows)
          /\ \A d \in DOMAIN builds : d \in DOMAIN builds' /\ builds'[d] = builds[d]
          /\ \A d \in DOMAIN builds' : d \in DOMAIN builds \/ d = b
      BY <2>2, <2>6, <3>1
    <3>. QED  BY <3>2 DEF Rows
  <2>8. TablesOK'
    <3>1. proc' \in [Procs -> CommandRecords]
      BY <1>0, <2>4, <2>5
    <3>. QED  BY <1>0, <2>1, <2>7, <3>1 DEF TablesOK
  <2>9. TablesGrow(p)
    BY <2>1, <2>6, <2>7 DEF TablesGrow, Saved, _pipeline_name_from
  <2>10. /\ c.run # 0 /\ c.run \in DOMAIN runs /\ runs[c.run].plan = c.plan /\ runs[c.run].status = "running"
         /\ ~runs[c.run].blocked /\ runs[c.run].pipeline = c.name
    BY <1>0, <2>1, <2>5, HasRun DEF CommandOK, HoldsRun, HasWritten, Persisting
  <2>11. CommandOK(c)'
    <3>1. HoldsPlan(c)'
      BY <2>1, <2>5, HasRun DEF HoldsPlan, Saved, _pipeline_name_from, PlanPcs
    <3>2. HoldsRun(c)'
      BY <2>1, <2>5, <2>10 DEF HoldsRun, RunPcs, Persisting
    <3>3. HasWritten(c)'
      BY <2>1, <2>5, <2>6, <2>7, <2>10 DEF HasWritten
    <3>. QED  BY <3>1, <3>2, <3>3 DEF CommandOK
  <2>12. (\A q \in Procs : CommandOK(proc[q])') /\ RunsApart'
    BY <2>4, <2>5, <2>8, <2>9, <2>11, CommandSteps
  <2>13. RoomForPlans'
    BY <2>1, <2>4, <2>5, RoomStays DEF PlanPcs
  <2>14. PlansNamed' /\ BuildsOK'
    BY <2>1, <2>5, <2>6, <2>7, <2>10 DEF AuthoringInv, PlansNamed, Saved, _pipeline_name_from, BuildsOK
  <2>15. SuccessIsBuilt'
    <3>. SUFFICES ASSUME NEW r \in DOMAIN runs, runs[r].status = "success"
                  PROVE  /\ \E d \in DOMAIN builds' : builds'[d].run = r /\ builds'[d].pipeline = runs[r].pipeline
                         /\ plan[runs[r].plan].phase = "built" /\ plan[runs[r].plan].pipeline = runs[r].pipeline
      BY <2>1 DEF SuccessIsBuilt
    <3>1. PICK d \in DOMAIN builds : builds[d].run = r /\ builds[d].pipeline = runs[r].pipeline
      BY DEF AuthoringInv, SuccessIsBuilt
    <3>. QED  BY <2>7, <3>1 DEF AuthoringInv, SuccessIsBuilt
  <2>16. NoOrphans'
    <3>. SUFFICES ASSUME "died" \notin trouble, NEW s \in DOMAIN runs,
                         runs[s].status \in {"pending", "running"}
                  PROVE  \E q \in Procs : proc'[q].run = s
      BY <2>1 DEF NoOrphans
    <3>1. PICK q \in Procs : proc[q].run = s
      BY DEF AuthoringInv, NoOrphans
    <3>2. proc'[q].run = s
      BY <1>0, <2>4, <2>5, <3>1
    <3>. QED  BY <3>2
  <2>. QED  BY <2>8, <2>12, <2>13, <2>14, <2>15, <2>16 DEF AuthoringInv
<1>. QED  BY <1>1, <1>2

PlanRows == [phase : {"absent", "drafted", "built"}, engines : Seq(Engines), name : Names,
             pipeline : Names, config : Nat, expired : BOOLEAN]

LEMMA RowsTyped ==
    ASSUME TablesOK
    PROVE  /\ \A r \in DOMAIN runs : runs[r] \in BuildRuns /\ runs[r].plan \in Plans
           /\ \A b \in DOMAIN builds : builds[b].plan \in Plans /\ builds[b].pipeline \in Pipelines
<1>1. runs \in Seq(BuildRuns)
  BY DEF TablesOK, BuildRuns
<1>2. \A r \in DOMAIN runs : runs[r] \in BuildRuns
  BY <1>1
<1>. DEFINE Rows == [plan : Plans, pipeline : Pipelines, run : Nat, listed : BOOLEAN]
<1>3. builds \in Seq(Rows)
  BY DEF TablesOK
<1>. HIDE DEF Rows
<1>4. \A b \in DOMAIN builds : builds[b] \in Rows
  BY <1>3
<1>. QED  BY <1>2, <1>4 DEF BuildRuns, Rows

\* The plan is marked built, once more perhaps: it is built where its name says.
LEMMA MarkKeeps ==
    ASSUME NEW p \in Procs, AuthoringInv, PersistMark(p)
    PROVE  AuthoringInv'
<1>. DEFINE k == proc[p].plan
            n == proc[p].name
<1>1. /\ proc[p].pc = "mark" /\ UNCHANGED <<config, pipeline, builds, runs, files, trouble>>
      /\ proc[p].pc \in RunPcs /\ "success" \in BuildPcs
  BY DEF PersistMark, At, RunPcs, BuildPcs, Persisting
<1>2. TablesOK /\ CommandOK(proc[p]) /\ proc \in [Procs -> CommandRecords] /\ plan \in [Plans -> PlanRows]
  BY DEF AuthoringInv, TablesOK, PlanRows
<1>3. k \in Plans /\ k \in Saved /\ n \in Pipelines /\ n = _pipeline_name_from(k) /\ n # "none"
      /\ n \in Names
  BY <1>1, HasRun, AuthoringAssumption DEF Saved, Names
<1>4. PICK row \in PlanRows : /\ plan' = [plan EXCEPT ![k] = row] /\ row.phase = "built"
                              /\ row.pipeline = n
  <2>1. PICK row : row = [plan[k] EXCEPT !.phase = "built", !.pipeline = n]
    OBVIOUS
  <2>2. row \in PlanRows /\ row.phase = "built" /\ row.pipeline = n
    BY <1>2, <1>3, <2>1 DEF PlanRows
  <2>3. plan' = [plan EXCEPT ![k] = row]
    BY <1>2, <1>3, <2>1 DEF PersistMark, mark_plan_built
  <2>. QED  BY <2>2, <2>3
<1>. HIDE DEF k, n
<1>5. /\ plan' \in [Plans -> PlanRows] /\ plan'[k] = row
      /\ \A j \in Plans : j # k => plan'[j] = plan[j]
  BY <1>2, <1>3, <1>4
<1>6. Saved' = Saved
  BY <1>3, <1>4, <1>5 DEF Saved
<1>7. \A j \in Plans : j \in Saved => _pipeline_name_from(j)' = _pipeline_name_from(j)
  BY <1>3, <1>4, <1>5 DEF _pipeline_name_from
<1>8. \A j \in Plans : plan[j].phase = "built" =>
         plan'[j].phase = "built" /\ plan'[j].pipeline = plan[j].pipeline
  BY <1>3, <1>4, <1>5 DEF _pipeline_name_from, AuthoringInv, PlansNamed
<1>9. PICK c \in CommandRecords : proc' = [proc EXCEPT ![p] = c] /\ Keeps(p, c) /\ c.pc = "success"
  BY <1>1, <1>2, Going DEF PersistMark
<1>10. TablesOK'
  <2>1. proc' \in [Procs -> CommandRecords]
    BY <1>2, <1>9
  <2>. QED  BY <1>1, <1>2, <1>5, <2>1 DEF TablesOK, PlanRows
<1>11. TablesGrow(p)
  BY <1>1, <1>6, <1>7, <1>8 DEF TablesGrow, Saved
<1>12. CommandOK(c)'
  <2>1. HoldsPlan(c)'
    BY <1>3, <1>6, <1>7, <1>9 DEF HoldsPlan, Keeps, Saved, PlanPcs, k, n
  <2>2. HoldsRun(c)'
    BY <1>1, <1>2, <1>9, HasRun DEF CommandOK, HoldsRun, Keeps, RunPcs, Persisting
  <2>3. HasWritten(c)'
    BY <1>1, <1>2, <1>4, <1>5, <1>9 DEF CommandOK, HasWritten, Keeps, k, n
  <2>. QED  BY <2>1, <2>2, <2>3 DEF CommandOK
<1>13. (\A q \in Procs : CommandOK(proc[q])') /\ RunsApart'
  BY <1>9, <1>10, <1>11, <1>12, CommandSteps DEF Keeps
<1>14. RoomForPlans'
  <2>1. Planners' \subseteq Planners
    BY <1>2, <1>9 DEF Planners, PlanPcs
  <2>. QED  BY <1>6, <2>1, RoomKept DEF AuthoringInv
<1>15. PlansNamed'
  BY <1>3, <1>4, <1>5, <1>6, <1>7 DEF AuthoringInv, PlansNamed, Saved
<1>16. BuildsOK'
  BY <1>1 DEF AuthoringInv, BuildsOK
<1>17. SuccessIsBuilt'
  <2>1. \A r \in DOMAIN runs : runs[r].plan \in Plans
    BY <1>2, RowsTyped
  <2>. QED  BY <1>1, <1>8, <2>1 DEF AuthoringInv, SuccessIsBuilt
<1>18. NoOrphans'
  <2>1. \A q \in Procs : proc'[q].run = proc[q].run
    BY <1>2, <1>9 DEF Keeps
  <2>. QED  BY <1>1, <2>1 DEF AuthoringInv, NoOrphans
<1>. QED  BY <1>10, <1>13, <1>14, <1>15, <1>16, <1>17, <1>18 DEF AuthoringInv

\* A plan is saved: its row was free.
LEMMA SaveKeeps ==
    ASSUME NEW p \in Procs, AuthoringInv, SavePlan(p)
    PROVE  AuthoringInv'
<1>1. /\ proc[p].pc = "save" /\ UNCHANGED <<config, pipeline, builds, runs, files, trouble>>
      /\ p \in Planners
  BY DEF SavePlan, At, Planners, PlanPcs
<1>2. TablesOK /\ CommandOK(proc[p]) /\ proc \in [Procs -> CommandRecords] /\ plan \in [Plans -> PlanRows]
      /\ proc[p] \in CommandRecords
  BY DEF AuthoringInv, TablesOK, PlanRows
<1>3. proc[p].name \in Pipelines /\ proc[p].run = 0
  BY <1>1, <1>2 DEF CommandOK, HoldsPlan, HoldsRun, RunPcs, Persisting
<1>4. PICK m \in 0..MaxPlans : Saved = 1..m /\ Cardinality(Planners) <= MaxPlans - m
  BY DEF AuthoringInv, RoomForPlans
<1>5. m \in Nat /\ MaxPlans \in Nat /\ m <= MaxPlans
  BY <1>4, AuthoringAssumption
<1>6. IsFiniteSet(Planners) /\ Cardinality(Planners) \in Nat /\ Cardinality(Planners \ {p}) \in Nat
      /\ Cardinality(Planners \ {p}) = Cardinality(Planners) - 1
  <2>1. IsFiniteSet(Planners)
    BY FS_Subset, AuthoringAssumption DEF Planners
  <2>. QED  BY <1>1, <2>1, FS_RemoveElement, FS_CardinalityType
<1>7. m + 1 \in Plans /\ m + 1 \in 0..MaxPlans /\ m + 1 \in Nat /\ m + 1 \notin Saved
  BY <1>4, <1>5, <1>6 DEF Plans
<1>8. Cardinality({j \in Plans : plan[j].phase # "absent"}) + 1 = m + 1
  <2>1. {j \in Plans : plan[j].phase # "absent"} = Saved
    BY DEF Saved
  <2>2. 1 \in Int /\ m \in Int
    BY <1>5
  <2>3. Cardinality(1..m) = IF 1 > m THEN 0 ELSE m - 1 + 1
    BY <2>2, FS_Interval
  <2>4. Cardinality(1..m) = m
    BY <1>5, <2>3
  <2>5. Cardinality(Saved) = m
    BY <1>4, <2>4
  <2>. QED  BY <2>1, <2>5
<1>9. PICK k \in Plans : k = m + 1
  BY <1>7
<1>10. PICK row \in PlanRows : /\ plan' = [plan EXCEPT ![k] = row] /\ row.phase = "drafted"
                               /\ row.name = proc[p].name
  <2>1. PICK row : row = [phase |-> "drafted", engines |-> proc[p].engines,
                          name |-> proc[p].name, pipeline |-> proc[p].target,
                          config |-> proc[p].config, expired |-> FALSE]
    OBVIOUS
  <2>2. row \in PlanRows /\ row.phase = "drafted" /\ row.name = proc[p].name
    BY <1>2, <1>3, <2>1 DEF PlanRows, CommandRecords, Names
  <2>3. plan' = [plan EXCEPT ![k] = row]
    BY <1>8, <1>9, <2>1 DEF SavePlan, save_plan
  <2>. QED  BY <2>2, <2>3
<1>11. /\ plan' \in [Plans -> PlanRows] /\ plan'[k] = row
       /\ \A j \in Plans : j # k => plan'[j] = plan[j]
  BY <1>2, <1>10
<1>12. Saved' = Saved \cup {k} /\ k \notin Saved /\ plan[k].phase = "absent"
  BY <1>7, <1>9, <1>10, <1>11 DEF Saved
<1>13. _pipeline_name_from(k)' \in Pipelines
  BY <1>3, <1>10, <1>11 DEF _pipeline_name_from, PlanRows, Names
<1>14. \A j \in Saved : _pipeline_name_from(j)' = _pipeline_name_from(j)
  BY <1>11, <1>12 DEF _pipeline_name_from, Saved
<1>15. PICK c \in CommandRecords : /\ proc' = [proc EXCEPT ![p] = c] /\ c.run = 0
                                   /\ c.pc = "idle" \/ (c.pc = "gate" /\ c.plan = k)
  <2>1. CASE Exit(p)
    BY <2>1, IdleHolds DEF Exit
  <2>2. CASE ~Exit(p)
    <3>1. PICK c : c = [Idle EXCEPT !.pc = "gate", !.config = proc[p].config, !.plan = k]
      OBVIOUS
    <3>2. proc' = [proc EXCEPT ![p] = c]
      BY <1>8, <1>9, <2>2, <3>1 DEF SavePlan
    <3>3. << >> \in Seq(Engines) /\ k \in Nat
      BY <1>7, <1>9
    <3>4. c \in CommandRecords /\ c.run = 0 /\ c.pc = "gate" /\ c.plan = k
      BY <1>2, <3>1, <3>3 DEF Idle, CommandRecords, Names
    <3>. QED  BY <3>2, <3>4
  <2>. QED  BY <2>1, <2>2
<1>16. TablesOK'
  <2>1. proc' \in [Procs -> CommandRecords]
    BY <1>2, <1>15
  <2>. QED  BY <1>1, <1>2, <1>11, <2>1 DEF TablesOK, PlanRows
<1>17. TablesGrow(p)
  BY <1>1, <1>11, <1>12, <1>14 DEF TablesGrow, Saved
<1>18. CommandOK(c)'
  BY <1>12, <1>15 DEF CommandOK, HoldsPlan, HoldsRun, HasWritten, RunPcs, BuildPcs, Persisting, Saved
<1>19. (\A q \in Procs : CommandOK(proc[q])') /\ RunsApart'
  BY <1>15, <1>16, <1>17, <1>18, CommandSteps
<1>20. RoomForPlans'
  <2>1. Planners' = Planners \ {p}
    BY <1>2, <1>15 DEF Planners, PlanPcs
  <2>2. Saved' = 1..(m + 1)
    BY <1>4, <1>5, <1>9, <1>12
  <2>3. Cardinality(Planners') <= MaxPlans - (m + 1)
    BY <1>4, <1>5, <1>6, <2>1
  <2>. QED  BY <1>7, <2>2, <2>3 DEF RoomForPlans
<1>21. PlansNamed'
  BY <1>10, <1>11, <1>12, <1>13, <1>14 DEF AuthoringInv, PlansNamed
<1>22. BuildsOK'
  BY <1>1 DEF AuthoringInv, BuildsOK
<1>23. SuccessIsBuilt'
  <2>1. \A r \in DOMAIN runs : runs[r].plan \in Plans
    BY <1>2, RowsTyped
  <2>2. \A r \in DOMAIN runs : runs[r].status = "success" => runs[r].plan # k
    BY <1>12 DEF AuthoringInv, SuccessIsBuilt
  <2>. QED  BY <1>1, <1>11, <2>1, <2>2 DEF AuthoringInv, SuccessIsBuilt
<1>24. NoOrphans'
  <2>. SUFFICES ASSUME "died" \notin trouble, NEW s \in DOMAIN runs,
                       runs[s].status \in {"pending", "running"}
                PROVE  \E q \in Procs : proc'[q].run = s
    BY <1>1 DEF NoOrphans
  <2>1. PICK q \in Procs : proc[q].run = s
    BY DEF AuthoringInv, NoOrphans
  <2>2. s # 0
    BY <1>2 DEF TablesOK
  <2>3. proc'[q].run = s
    BY <1>2, <1>3, <1>15, <2>1, <2>2
  <2>. QED  BY <2>3
<1>. QED  BY <1>16, <1>19, <1>20, <1>21, <1>22, <1>23, <1>24 DEF AuthoringInv

\* What the user does meanwhile.
LEMMA UsersKeep ==
    ASSUME AuthoringInv,
           EditConfig \/ (\E k \in Plans : Expire(k)) \/ (\E n \in Pipelines : DeleteFiles(n))
    PROVE  AuthoringInv'
<1>1. /\ UNCHANGED <<pipeline, builds, runs, proc>> /\ config' \in Nat
      /\ files' \in [Pipelines -> [by : Nat, at : Nat]]
      /\ "died" \in trouble => "died" \in trouble'
  <2>1. UNCHANGED <<pipeline, builds, runs, proc>> /\ ("died" \in trouble => "died" \in trouble')
    BY DEF EditConfig, Expire, DeleteFiles, Disturb, tables
  <2>2. config' \in Nat
    BY DEF EditConfig, Expire, DeleteFiles, tables, AuthoringInv, TablesOK
  <2>3. files' \in [Pipelines -> [by : Nat, at : Nat]]
    <3>1. files \in [Pipelines -> [by : Nat, at : Nat]]
      BY DEF AuthoringInv, TablesOK
    <3>2. ASSUME NEW n \in Pipelines, DeleteFiles(n)
          PROVE  files' \in [Pipelines -> [by : Nat, at : Nat]]
      <4>1. files' = [files EXCEPT ![n] = [files[n] EXCEPT !.by = 0]]
        BY <3>2 DEF DeleteFiles
      <4>. QED  BY <3>1, <4>1
    <3>. QED  BY <3>1, <3>2 DEF EditConfig, Expire
  <2>. QED  BY <2>1, <2>2, <2>3
<1>2. /\ plan' \in [Plans -> PlanRows]
      /\ \A k \in Plans : /\ plan'[k].phase = plan[k].phase /\ plan'[k].pipeline = plan[k].pipeline
                           /\ plan'[k].name = plan[k].name
  <2>0. plan \in [Plans -> PlanRows]
    BY DEF AuthoringInv, TablesOK, PlanRows
  <2>1. CASE UNCHANGED plan
    BY <2>0, <2>1
  <2>2. ASSUME NEW k \in Plans, Expire(k)
        PROVE  /\ plan' \in [Plans -> PlanRows]
               /\ \A j \in Plans : /\ plan'[j].phase = plan[j].phase
                                    /\ plan'[j].pipeline = plan[j].pipeline
                                    /\ plan'[j].name = plan[j].name
    <3>1. plan' = [plan EXCEPT ![k] = [plan[k] EXCEPT !.expired = TRUE]]
      BY <2>2 DEF Expire
    <3>2. plan[k] \in PlanRows
      BY <2>0
    <3>. QED  BY <2>0, <3>1, <3>2 DEF PlanRows
  <2>. QED  BY <2>1, <2>2 DEF EditConfig, DeleteFiles, tables
<1>3. Saved' = Saved /\ Planners' = Planners
  BY <1>1, <1>2 DEF Saved, Planners
<1>4. \A k \in Plans : _pipeline_name_from(k)' = _pipeline_name_from(k)
  BY <1>2 DEF _pipeline_name_from
<1>5. TablesOK'
  BY <1>1, <1>2 DEF AuthoringInv, TablesOK, PlanRows
<1>6. PlansNamed'
  BY <1>2, <1>3, <1>4 DEF AuthoringInv, PlansNamed, Saved
<1>7. RoomForPlans'
  BY <1>3, RoomKept DEF AuthoringInv
<1>8. ASSUME NEW q \in Procs PROVE CommandOK(proc[q])'
  <2>1. CommandOK(proc[q])
    BY DEF AuthoringInv
  <2>2. HoldsPlan(proc[q])'
    BY <1>1, <1>3, <1>4, <2>1 DEF CommandOK, HoldsPlan, Saved
  <2>3. HoldsRun(proc[q])'
    BY <1>1, <2>1 DEF CommandOK, HoldsRun
  <2>4. proc[q].pc = "success" => proc[q].plan \in Plans
    BY <2>1 DEF CommandOK, HoldsPlan, BuildPcs, RunPcs, Persisting, Saved
  <2>5. HasWritten(proc[q])'
    BY <1>1, <1>2, <2>1, <2>4 DEF CommandOK, HasWritten
  <2>. QED  BY <2>2, <2>3, <2>5 DEF CommandOK
<1>9. RunsApart' /\ BuildsOK' /\ NoOrphans'
  BY <1>1 DEF AuthoringInv, RunsApart, BuildsOK, NoOrphans
<1>10. SuccessIsBuilt'
  <2>1. \A r \in DOMAIN runs : runs[r].plan \in Plans
    BY RowsTyped DEF AuthoringInv
  <2>. QED  BY <1>1, <1>2, <2>1 DEF AuthoringInv, SuccessIsBuilt
<1>. QED  BY <1>5, <1>6, <1>7, <1>8, <1>9, <1>10 DEF AuthoringInv

LEMMA AuthoringStart == AuthoringInit => AuthoringInv
<1>. SUFFICES ASSUME AuthoringInit PROVE AuthoringInv
  OBVIOUS
<1>1. /\ config = 0 /\ builds = << >> /\ runs = << >> /\ trouble = {}
      /\ plan = [k \in Plans |-> NoPlan] /\ proc = [p \in Procs |-> Idle]
  BY DEF AuthoringInit
<1>2. MaxPlans \in Nat /\ << >> \in Seq(Engines)
  BY AuthoringAssumption
<1>3. TablesOK
  <2>1. proc \in [Procs -> CommandRecords]
    BY <1>1, IdleHolds
  <2>2. plan \in [Plans -> PlanRows]
    BY <1>1, <1>2 DEF NoPlan, PlanRows, Names
  <2>3. builds \in Seq([plan : Plans, pipeline : Pipelines, run : Nat, listed : BOOLEAN])
        /\ runs \in Seq([plan : Plans, pipeline : Names, blocked : BOOLEAN,
                         status : {"pending", "running", "success", "failed"}])
    BY <1>1
  <2>4. config \in Nat /\ pipeline \in [Pipelines -> [exists : BOOLEAN, current : Nat]]
        /\ files \in [Pipelines -> [by : Nat, at : Nat]]
    BY DEF AuthoringInit
  <2>. QED  BY <2>1, <2>2, <2>3, <2>4 DEF TablesOK, PlanRows
<1>4. \A k \in Plans : plan[k].phase = "absent"
  BY <1>1 DEF NoPlan
<1>5. Saved = {} /\ Planners = {}
  BY <1>1, <1>4, IdleHolds DEF Saved, Planners, PlanPcs
<1>6. RoomForPlans
  <2>1. Cardinality(Planners) = 0
    BY <1>5, FS_EmptySet
  <2>2. 0 \in 0..MaxPlans /\ Saved = 1..0 /\ Cardinality(Planners) <= MaxPlans - 0
    BY <1>2, <1>5, <2>1
  <2>. QED  BY <2>2 DEF RoomForPlans
<1>7. PlansNamed
  BY <1>4, <1>5 DEF PlansNamed
<1>8. \A p \in Procs : CommandOK(proc[p])
  BY <1>1, IdleHolds
<1>9. RunsApart
  BY <1>1, IdleHolds DEF RunsApart
<1>10. BuildsOK /\ SuccessIsBuilt /\ NoOrphans
  BY <1>1 DEF BuildsOK, SuccessIsBuilt, NoOrphans
<1>. QED  BY <1>3, <1>6, <1>7, <1>8, <1>9, <1>10 DEF AuthoringInv

LEMMA AuthoringSteps == AuthoringInv /\ [AuthoringNext]_authoringVars => AuthoringInv'
<1>. SUFFICES ASSUME AuthoringInv, [AuthoringNext]_authoringVars PROVE AuthoringInv'
  OBVIOUS
<1>1. ASSUME NEW p \in Procs, CommandStep(p) PROVE AuthoringInv'
  BY <1>1, PlansGoOn, SaveKeeps, GateKeeps, RowsMade, RunsKeep, AgentsKeep, ReviewKeeps,
     PipelinesKeep, MarkKeeps DEF CommandStep
<1>2. ASSUME NEW p \in Procs, PlanCommand(p) \/ PlanAndBuild(p) PROVE AuthoringInv'
  <2>1. 0 \in 0..MaxPlans /\ "none" \in Names
    BY AuthoringAssumption DEF Names
  <2>. QED  BY <1>2, <2>1, PlansStart DEF PlanCommand, PlanAndBuild
<1>3. ASSUME NEW p \in Procs, Raise(p) \/ Die(p) PROVE AuthoringInv'
  BY <1>3, TroubleKeeps
<1>4. ASSUME NEW p \in Procs, NEW k \in Plans, NEW force \in BOOLEAN, StartBuild(p, k, force)
      PROVE  AuthoringInv'
  BY <1>4, GateKeeps
<1>5. CASE EditConfig \/ (\E k \in Plans : Expire(k)) \/ (\E n \in Pipelines : DeleteFiles(n))
  BY <1>5, UsersKeep
<1>6. CASE UNCHANGED authoringVars
  <2>. USE <1>6 DEF authoringVars, tables, AuthoringInv
  <2>1. TablesOK' /\ PlansNamed' /\ RoomForPlans'
    BY DEF TablesOK, PlansNamed, RoomForPlans, Saved, Planners, _pipeline_name_from
  <2>2. ASSUME NEW q \in Procs PROVE CommandOK(proc[q])'
    <3>1. CommandOK(proc[q])
      OBVIOUS
    <3>2. HoldsPlan(proc[q])' /\ HoldsRun(proc[q])'
      BY <3>1 DEF CommandOK, HoldsPlan, HoldsRun, Saved, _pipeline_name_from
    <3>3. HasWritten(proc[q])'
      BY <3>1 DEF CommandOK, HasWritten
    <3>. QED  BY <3>2, <3>3 DEF CommandOK
  <2>3. RunsApart' /\ BuildsOK' /\ SuccessIsBuilt' /\ NoOrphans'
    BY DEF RunsApart, BuildsOK, SuccessIsBuilt, NoOrphans
  <2>. QED  BY <2>1, <2>2, <2>3
<1>. QED  BY <1>1, <1>2, <1>3, <1>4, <1>5, <1>6 DEF AuthoringNext

\* What build commands leave behind (BuildsSettle), however many run.
THEOREM BuildsAlwaysSettle == AuthoringSpec => []BuildsSettle
<1>1. AuthoringInv => BuildsSettle
  BY DEF AuthoringInv, BuildsSettle, BuildsOK, BlockedNeverShips
<1>. QED  BY <1>1, AuthoringStart, AuthoringSteps, PTL DEF AuthoringSpec

-----------------------------------------------------------------------------
(* The ledger of Builds.  Only three transactions write what it shows.      *)

Made == [b \in DOMAIN builds |-> [plan |-> builds[b].plan, pipeline |-> builds[b].pipeline]]
CurrentBuilds == [n \in Pipelines |-> pipeline[n].current]
BuiltPlans == {k \in Plans : plan[k].phase = "built"}

LEMMA LedgerStarts == AuthoringInit => Ledger!LedgerInit
<1>. SUFFICES ASSUME AuthoringInit PROVE Ledger!LedgerInit
  OBVIOUS
<1>1. [b \in DOMAIN builds |-> [plan |-> builds[b].plan, pipeline |-> builds[b].pipeline]] = << >>
  <2>1. builds = << >>
    BY DEF AuthoringInit
  <2>. QED  BY <2>1
<1>2. [n \in Pipelines |-> pipeline[n].current] = [n \in Pipelines |-> 0]
  BY DEF AuthoringInit
<1>3. {k \in Plans : plan[k].phase = "built"} = {}
  BY DEF AuthoringInit, NoPlan
<1>. QED  BY <1>1, <1>2, <1>3 DEF Ledger!LedgerInit

\* A Build is added.
LEMMA LedgerMakes ==
    ASSUME NEW p \in Procs, AuthoringInv, PersistBuild(p)
    PROVE  Ledger!Make
<1>1. /\ proc[p].pc \in RunPcs /\ UNCHANGED <<plan, pipeline>> /\ TablesOK
  BY DEF PersistBuild, At, RunPcs, Persisting, AuthoringInv
<1>2. PICK k \in Plans, n \in Pipelines : k = proc[p].plan /\ n = proc[p].name
  BY <1>1, HasRun DEF Saved
<1>3. PICK row : builds' = Append(builds, row) /\ row.plan = k /\ row.pipeline = n
  BY <1>2 DEF PersistBuild, create_build
<1>. DEFINE Rows == [plan : Plans, pipeline : Pipelines, run : Nat, listed : BOOLEAN]
<1>4. builds \in Seq(Rows)
  BY <1>1 DEF TablesOK
<1>. HIDE DEF Rows
<1>5. Made' = Append(Made, [plan |-> k, pipeline |-> n])
  <2>1. DOMAIN builds = 1..Len(builds) /\ Len(builds) \in Nat /\ DOMAIN builds' = 1..(Len(builds) + 1)
        /\ (\A b \in 1..Len(builds) : builds'[b] = builds[b]) /\ builds'[Len(builds) + 1] = row
    BY <1>3, <1>4
  <2>2. PICK len \in Nat : len = Len(builds)
    BY <2>1
  <2>. DEFINE Entry(r) == [plan |-> r.plan, pipeline |-> r.pipeline]
  <2>3. Made = [b \in 1..len |-> Entry(builds[b])] /\ Made' = [b \in 1..(len + 1) |-> Entry(builds'[b])]
    BY <2>1, <2>2 DEF Made
  <2>4. Entry(row) = [plan |-> k, pipeline |-> n]
    BY <1>3
  <2>. HIDE DEF Entry
  <2>5. Len(Made) = len /\ Made = [b \in 1..len |-> Entry(builds[b])]
    BY <2>2, <2>3
  <2>6. Append(Made, Entry(row)) = [b \in 1..(len + 1) |-> IF b = len + 1 THEN Entry(row) ELSE Made[b]]
    BY <2>2, <2>5
  <2>7. \A b \in 1..(len + 1) : Entry(builds'[b]) = IF b = len + 1 THEN Entry(row) ELSE Made[b]
    BY <2>1, <2>2, <2>5
  <2>. QED  BY <2>3, <2>4, <2>6, <2>7
<1>6. CurrentBuilds' = CurrentBuilds /\ BuiltPlans' = BuiltPlans
  BY <1>1 DEF CurrentBuilds, BuiltPlans
<1>. QED  BY <1>2, <1>5, <1>6 DEF Ledger!Make, Made, CurrentBuilds, BuiltPlans

\* It becomes its pipeline's current one.
LEMMA LedgerPromotes ==
    ASSUME NEW p \in Procs, AuthoringInv, PersistCurrent(p)
    PROVE  Ledger!Promote
<1>1. /\ proc[p].pc = "current" /\ UNCHANGED <<plan, builds>> /\ TablesOK /\ CommandOK(proc[p])
      /\ proc[p].pc \in RunPcs
      /\ pipeline' = [pipeline EXCEPT ![proc[p].name].current = proc[p].build]
  BY DEF PersistCurrent, At, RunPcs, Persisting, AuthoringInv, set_pipeline_current_build
<1>2. PICK n \in Pipelines, b \in DOMAIN builds :
         n = proc[p].name /\ b = proc[p].build /\ builds[b].pipeline = n
  BY <1>1, HasRun DEF CommandOK, HasWritten
<1>3. Made[b].pipeline = n /\ b \in DOMAIN Made
  BY <1>2 DEF Made
<1>4. CurrentBuilds' = [CurrentBuilds EXCEPT ![n] = b]
  <2>1. pipeline \in [Pipelines -> [exists : BOOLEAN, current : Nat]]
    BY <1>1 DEF TablesOK
  <2>2. pipeline' = [pipeline EXCEPT ![n] = [pipeline[n] EXCEPT !.current = b]]
    BY <1>1, <1>2
  <2>3. \A m \in Pipelines : pipeline'[m].current = IF m = n THEN b ELSE pipeline[m].current
    BY <2>1, <2>2
  <2>. QED  BY <2>3 DEF CurrentBuilds
<1>5. Made' = Made /\ BuiltPlans' = BuiltPlans
  BY <1>1 DEF Made, BuiltPlans
<1>. QED  BY <1>3, <1>4, <1>5 DEF Ledger!Promote, Made, CurrentBuilds, BuiltPlans

\* Its plan is built.
LEMMA LedgerSettles ==
    ASSUME NEW p \in Procs, AuthoringInv, PersistMark(p)
    PROVE  Ledger!Settle
<1>1. /\ proc[p].pc = "mark" /\ UNCHANGED <<pipeline, builds>> /\ TablesOK /\ CommandOK(proc[p])
      /\ proc[p].pc \in RunPcs
      /\ plan' = [plan EXCEPT ![proc[p].plan].phase = "built", ![proc[p].plan].pipeline = proc[p].name]
  BY DEF PersistMark, At, RunPcs, Persisting, AuthoringInv, mark_plan_built
<1>2. PICK k \in Plans, b \in DOMAIN builds :
         k = proc[p].plan /\ builds[b].plan = k
  BY <1>1, HasRun DEF CommandOK, HasWritten, Saved
<1>3. Made[b].plan = k /\ b \in DOMAIN Made
  BY <1>2 DEF Made
<1>4. BuiltPlans' = BuiltPlans \cup {k}
  <2>1. plan \in [Plans -> PlanRows]
    BY <1>1 DEF TablesOK, PlanRows
  <2>2. plan' = [plan EXCEPT ![k] = [plan[k] EXCEPT !.phase = "built", !.pipeline = proc[p].name]]
    BY <1>1, <1>2, <2>1
  <2>3. \A j \in Plans : plan'[j].phase = IF j = k THEN "built" ELSE plan[j].phase
    BY <2>1, <2>2 DEF PlanRows
  <2>. QED  BY <2>3 DEF BuiltPlans
<1>5. Made' = Made /\ CurrentBuilds' = CurrentBuilds
  BY <1>1 DEF Made, CurrentBuilds
<1>. QED  BY <1>3, <1>4, <1>5 DEF Ledger!Settle, Made, CurrentBuilds, BuiltPlans

\* Every other step leaves what the ledger shows as it was.
LEMMA LedgerRests ==
    ASSUME Made' = Made, CurrentBuilds' = CurrentBuilds, BuiltPlans' = BuiltPlans
    PROVE  UNCHANGED Ledger!ledger
  BY DEF Ledger!ledger, Made, CurrentBuilds, BuiltPlans

LEMMA LedgerSteps == AuthoringInv /\ [AuthoringNext]_authoringVars => [Ledger!LedgerNext]_(Ledger!ledger)
<1>. SUFFICES ASSUME AuthoringInv, [AuthoringNext]_authoringVars
              PROVE  Ledger!LedgerNext \/ UNCHANGED Ledger!ledger
  OBVIOUS
<1>1. CASE UNCHANGED <<plan, pipeline, builds>>
  BY <1>1, LedgerRests DEF Made, CurrentBuilds, BuiltPlans
<1>2. ASSUME NEW p \in Procs, PersistBuild(p) \/ PersistCurrent(p) \/ PersistMark(p)
      PROVE  Ledger!LedgerNext
  BY <1>2, LedgerMakes, LedgerPromotes, LedgerSettles DEF Ledger!LedgerNext
<1>3. ASSUME NEW p \in Procs, PersistPipeline(p)
      PROVE  UNCHANGED Ledger!ledger
  <2>1. pipeline \in [Pipelines -> [exists : BOOLEAN, current : Nat]]
    BY DEF AuthoringInv, TablesOK
  <2>2. pipeline' = [pipeline EXCEPT ![proc[p].name] = [pipeline[proc[p].name] EXCEPT !.exists = TRUE]]
        /\ UNCHANGED <<plan, builds>>
    BY <1>3 DEF PersistPipeline, create_or_update_pipeline
  <2>3. \A m \in Pipelines : pipeline'[m].current = pipeline[m].current
    BY <2>1, <2>2
  <2>. QED  BY <2>2, <2>3, LedgerRests DEF Made, CurrentBuilds, BuiltPlans
<1>4. ASSUME NEW p \in Procs, SavePlan(p)
      PROVE  UNCHANGED Ledger!ledger
  <2>1. plan \in [Plans -> PlanRows] /\ UNCHANGED <<pipeline, builds>>
    BY <1>4 DEF AuthoringInv, TablesOK, SavePlan, PlanRows
  <2>2. PICK n \in 0..MaxPlans : Saved = 1..n
    BY DEF AuthoringInv, RoomForPlans
  <2>3. n \in Nat
    BY <2>2, AuthoringAssumption
  <2>4. Cardinality({j \in Plans : plan[j].phase # "absent"}) + 1 = n + 1
    <3>1. {j \in Plans : plan[j].phase # "absent"} = Saved
      BY DEF Saved
    <3>2. Cardinality(1..n) = n
      BY <2>3, FS_Interval
    <3>3. Cardinality(Saved) = n
      BY <2>2, <3>2
    <3>. QED  BY <3>1, <3>3
  <2>5. PICK row : plan' = [plan EXCEPT ![n + 1] = row] /\ row.phase = "drafted"
    <3>1. PICK row : row = [phase |-> "drafted", engines |-> proc[p].engines,
                            name |-> proc[p].name, pipeline |-> proc[p].target,
                            config |-> proc[p].config, expired |-> FALSE]
      OBVIOUS
    <3>2. plan' = [plan EXCEPT ![n + 1] = row]
      BY <1>4, <2>4, <3>1 DEF SavePlan, save_plan
    <3>3. row.phase = "drafted"
      BY <3>1
    <3>. QED  BY <3>2, <3>3, Zenon
  <2>6. n + 1 \in Plans => plan[n + 1].phase = "absent"
    BY <2>2, <2>3 DEF Saved
  <2>7. \A j \in Plans : plan'[j].phase = "built" <=> plan[j].phase = "built"
    BY <2>1, <2>5, <2>6
  <2>. QED  BY <2>1, <2>7, LedgerRests DEF Made, CurrentBuilds, BuiltPlans
<1>5. ASSUME NEW k \in Plans, Expire(k)
      PROVE  UNCHANGED Ledger!ledger
  <2>1. plan \in [Plans -> PlanRows] /\ UNCHANGED <<pipeline, builds>>
        /\ plan' = [plan EXCEPT ![k] = [plan[k] EXCEPT !.expired = TRUE]]
    BY <1>5 DEF AuthoringInv, TablesOK, Expire, PlanRows
  <2>2. \A j \in Plans : plan'[j].phase = plan[j].phase
    BY <2>1 DEF PlanRows
  <2>. QED  BY <2>1, <2>2, LedgerRests DEF Made, CurrentBuilds, BuiltPlans
<1>6. ASSUME NEW p \in Procs, CommandStep(p) PROVE Ledger!LedgerNext \/ UNCHANGED Ledger!ledger
  <2>1. CASE Decompose(p) \/ Design(p) \/ PlanAgent(p) \/ Gate(p)
             \/ AgentWrites(p) \/ AgentEnds(p) \/ Engineer(p)
    <3>1. UNCHANGED tables
      BY <2>1 DEF Decompose, Design, PlanAgent, Gate, AgentWrites, AgentEnds, Engineer
    <3>. QED  BY <3>1, <1>1 DEF tables
  <2>2. CASE CreateRun(p) \/ SetRunning(p) \/ Review(p) \/ PersistAttach(p) \/ PersistSuccess(p) \/ Fail(p)
    <3>1. UNCHANGED <<plan, pipeline, builds>>
      BY <2>2 DEF CreateRun, SetRunning, Review, PersistAttach, PersistSuccess, Fail
    <3>. QED  BY <3>1, <1>1
  <2>. QED  BY <1>2, <1>3, <1>4, <1>6, <2>1, <2>2 DEF CommandStep
<1>7. ASSUME NEW p \in Procs, PlanCommand(p) \/ PlanAndBuild(p) \/ Raise(p) \/ Die(p)
      PROVE  Ledger!LedgerNext \/ UNCHANGED Ledger!ledger
  <2>1. UNCHANGED tables
    BY <1>7 DEF PlanCommand, PlanAndBuild, StartPlan, Raise, Die
  <2>. QED  BY <2>1, <1>1 DEF tables
<1>8. ASSUME NEW p \in Procs, NEW k \in Plans, NEW force \in BOOLEAN, StartBuild(p, k, force)
      PROVE  Ledger!LedgerNext \/ UNCHANGED Ledger!ledger
  <2>1. UNCHANGED tables
    BY <1>8 DEF StartBuild
  <2>. QED  BY <2>1, <1>1 DEF tables
<1>9. CASE EditConfig \/ (\E n \in Pipelines : DeleteFiles(n)) \/ UNCHANGED authoringVars
  <2>1. UNCHANGED tables
    BY <1>9 DEF EditConfig, DeleteFiles, authoringVars
  <2>. QED  BY <2>1, <1>1 DEF tables
<1>. QED  BY <1>5, <1>6, <1>7, <1>8, <1>9 DEF AuthoringNext

\* The tables keep the promises of the ledger (ImplementsLedger).
THEOREM AuthoringImplementsLedger == AuthoringSpec => ImplementsLedger
<1>. QED  BY AuthoringStart, AuthoringSteps, LedgerStarts, LedgerSteps, PTL
       DEF AuthoringSpec, ImplementsLedger, Ledger!LedgerSpec

-----------------------------------------------------------------------------
(* The agent loop.                                                         *)

MessageKinds == {"task", "guidance", "assistant", "results"}
Messages == [kind : MessageKinds, n : Nat]
PolicyOf(l) == build_policy(min_mode(l.parent, l.capability), NoConfig, l.grant)
Policies == {build_policy(min_mode(a, b), NoConfig, g) : a \in Modes, b \in Modes, g \in Grants}
ToolSets == {bind_grant_tools(g) : g \in Grants}
Loops == [pc : {"turn", "drain", "call", "tools", "over"}, turn : Nat, attempt : Nat,
          calls : Seq(Requested), results : Nat, parent : Modes, capability : Modes,
          grant : Grants, hooks : HookFiles, tools : ToolSets, policy : Policies,
          approver : {"none"}, submitted : {"none", "success", "failed"},
          terminator : BOOLEAN,
          end : {"none", "max_turns", "cancelled", "rate_limited", "api_error", "text",
                 "unexpected_stop", "terminator"},
          status : {"none", "success", "failed"}]

LoopTypeOK ==
    /\ chat \in Seq(Messages)
    /\ loop \in Loops
    /\ steer \in Seq(Nat)
    /\ pushed \in Nat

\* An answer with tool calls is followed by its results, unless it is the last
\* message and they are still being made.
Paired(i) == i < Len(chat) /\ chat[i + 1] = Msg("results", chat[i].n)
AnswersPaired ==
    /\ loop.pc \in {"turn", "drain", "call"} =>
          \A i \in DOMAIN chat : chat[i].kind = "assistant" => Paired(i)
    /\ loop.pc = "tools" =>
          /\ Len(chat) \in DOMAIN chat
          /\ chat[Len(chat)] = Msg("assistant", Len(loop.calls) + loop.results)
          /\ \A i \in DOMAIN chat : chat[i].kind = "assistant" => Paired(i) \/ i = Len(chat)

AgentLoopInv == LoopTypeOK /\ loop.policy = PolicyOf(loop) /\ AnswersPaired /\ WritesAuthorised

LEMMA ClampedByBoth ==
    ASSUME NEW a \in Modes, NEW b \in Modes, mode_permits(min_mode(a, b), "build")
    PROVE  mode_permits(a, "build") /\ mode_permits(b, "build")
<1>1. _ORDER["build"] = 2 /\ (\A m \in Modes : _ORDER[m] \in Nat)
  BY DEF _ORDER, Modes
<1>. QED  BY <1>1 DEF mode_permits, min_mode

\* What the gate asks of a mode before a file is edited or staged.
LEMMA EditsNeedBuild ==
    ASSUME NEW m \in Modes, NEW g, NEW command, NEW approver,
           check(build_policy(m, NoConfig, g), "edit", command, approver) = "allow"
    PROVE  mode_permits(m, "build") /\ "edit" \in g
<1>. DEFINE policy == build_policy(m, NoConfig, g)
<1>1. policy.mode = m
      /\ policy.permitted = ((_permitted_tools_for_mode(m) \cap g)
                              \cup _grant_admits(_mcp_permitted_for_mode(m).permitted, g)) \ {}
      /\ policy.prompt = _grant_admits(_mcp_permitted_for_mode(m).prompt, g) \ {}
  BY DEF build_policy, NoConfig
<1>2. "edit" \notin _grant_admits(_mcp_permitted_for_mode(m).prompt, g)
      /\ "edit" \notin _grant_admits(_mcp_permitted_for_mode(m).permitted, g)
  BY DEF _grant_admits, _mcp_permitted_for_mode
<1>. HIDE DEF policy
<1>3. "edit" \in policy.permitted /\ mode_permits(policy.mode, "build")
  <2>1. /\ "edit" \notin _TERMINATOR_TOOLS /\ "edit" \in WRITE_TOOLS /\ "deny" # "allow"
        /\ "edit" # "run_snowflake_ddl" /\ "edit" # "bash" /\ "edit" \notin policy.prompt
    BY <1>1, <1>2 DEF _TERMINATOR_TOOLS, WRITE_TOOLS
  <2>2. check(policy, "edit", command, approver) = "allow"
    BY DEF policy
  <2>3. CASE "edit" \notin policy.permitted
    <3>1. check(policy, "edit", command, approver) = "deny"
      BY <2>1, <2>3, Zenon DEF check
    <3>. QED  BY <2>1, <2>2, <3>1
  <2>4. CASE "edit" \in policy.permitted /\ ~mode_permits(policy.mode, "build")
    <3>1. check(policy, "edit", command, approver) = "deny"
      BY <2>1, <2>4, Zenon DEF check
    <3>. QED  BY <2>1, <2>2, <3>1
  <2>. QED  BY <2>3, <2>4
<1>. QED  BY <1>1, <1>2, <1>3

LEMMA StagingNeedsBuild ==
    ASSUME NEW m \in Modes, NEW g, NEW approver,
           check(build_policy(m, NoConfig, g), "bash", GitCommand("git_add"), approver) = "allow"
    PROVE  mode_permits(m, "build")
<1>. SUFFICES ASSUME ~mode_permits(m, "build") PROVE FALSE
  OBVIOUS
<1>1. m # "deploy"
  <2>1. _ORDER["deploy"] = 3 /\ _ORDER["build"] = 2
    BY DEF _ORDER
  <2>2. m = "deploy" => mode_permits(m, "build")
    <3>. SUFFICES ASSUME m = "deploy" PROVE _ORDER["deploy"] >= _ORDER["build"]
      BY DEF mode_permits
    <3>. QED  BY <2>1
  <2>. QED  BY <2>2
<1>. DEFINE policy == build_policy(m, NoConfig, g)
            command == GitCommand("git_add")
<1>2. policy.bash.allow = ReadKeys \ {} /\ policy.bash.prompt = {} \ {} /\ policy.bash.deny = DenyKeys \cup {}
     /\ policy.prompt = _grant_admits(_mcp_permitted_for_mode(m).prompt, g) \ {}
  BY <1>1 DEF build_policy, NoConfig, _bash_rules_for_mode
<1>3. command.keys = <<"git_add", "git">> /\ command.meta = FALSE /\ command.flag = FALSE
  BY DEF GitCommand
<1>. HIDE DEF policy, command
<1>4. ~KeyIn(command, policy.bash.allow) /\ ~KeyIn(command, policy.bash.prompt)
      /\ ~KeyIn(command, policy.bash.deny) /\ command.keys # << >>
  <2>. DEFINE keys == <<"git_add", "git">>
  <2>1. DOMAIN keys = 1..2 /\ keys[1] = "git_add" /\ keys[2] = "git" /\ keys # << >>
    OBVIOUS
  <2>. HIDE DEF keys
  <2>2. \A k \in DOMAIN keys : keys[k] \in {"git_add", "git"}
    BY <2>1
  <2>3. command.keys = keys
    BY <1>3 DEF keys
  <2>. QED  BY <1>2, <2>1, <2>2, <2>3 DEF KeyIn, ReadKeys, DenyKeys
<1>5. tier_bash_command(command, policy.bash) = "deny"
  BY <1>3, <1>4, Zenon DEF tier_bash_command
<1>6. _check_bash(policy, command, approver) = "deny"
  BY <1>5 DEF _check_bash
<1>7. check(policy, "bash", command, approver) = "deny"
  <2>1. /\ "bash" \notin _TERMINATOR_TOOLS /\ "bash" \notin WRITE_TOOLS /\ "bash" # "run_snowflake_ddl"
        /\ "bash" \notin policy.prompt
    BY <1>2 DEF _TERMINATOR_TOOLS, WRITE_TOOLS, _grant_admits, _mcp_permitted_for_mode
  <2>2. CASE "bash" \notin policy.permitted
    BY <2>1, <2>2, Zenon DEF check
  <2>3. CASE "bash" \in policy.permitted
    BY <1>6, <2>1, <2>3, Zenon DEF check
  <2>. QED  BY <2>2, <2>3
<1>. QED  BY <1>7 DEF policy, command

LEMMA LoopStart == LoopInit => AgentLoopInv
<1>. SUFFICES ASSUME LoopInit PROVE AgentLoopInv
  OBVIOUS
<1>1. PICK parent \in Modes, capability \in Modes, grant \in Grants, hooks \in HookFiles :
          loop = [pc |-> "turn", turn |-> 0, attempt |-> 0, calls |-> << >>, results |-> 0,
                  parent |-> parent, capability |-> capability, grant |-> grant,
                  hooks |-> hooks, tools |-> bind_grant_tools(grant),
                  policy |-> build_policy(min_mode(parent, capability), NoConfig, grant),
                  approver |-> "none", submitted |-> "none", terminator |-> FALSE,
                  end |-> "none", status |-> "none"]
  BY DEF LoopInit
<1>2. /\ loop.pc = "turn" /\ loop.parent = parent /\ loop.capability = capability
      /\ loop.grant = grant /\ loop.policy = build_policy(min_mode(parent, capability), NoConfig, grant)
  BY <1>1
<1>3. loop \in Loops
  <2>1. PICK t \in ToolSets : t = bind_grant_tools(grant)
    BY DEF ToolSets
  <2>2. PICK q \in Policies : q = build_policy(min_mode(parent, capability), NoConfig, grant)
    BY DEF Policies
  <2>3. << >> \in Seq(Requested)
    OBVIOUS
  <2>. QED  BY <1>1, <2>1, <2>2, <2>3, Zenon DEF Loops
<1>4. /\ chat = <<Msg("task", 0)>> /\ steer = << >> /\ pushed = 0 /\ disk = {} /\ hooked = {}
  BY DEF LoopInit
<1>5. LoopTypeOK
  BY <1>3, <1>4 DEF LoopTypeOK, Messages, MessageKinds, Msg
<1>6. AnswersPaired
  BY <1>2, <1>4 DEF AnswersPaired, Msg
<1>. QED  BY <1>2, <1>4, <1>5, <1>6 DEF AgentLoopInv, PolicyOf, WritesAuthorised

\* A step that only ends the loop.
LEMMA EndsKeep ==
    ASSUME AgentLoopInv, NEW e, UNCHANGED <<chat, steer, pushed, disk, hooked>>,
           loop' = [loop EXCEPT !.pc = "over", !.end = e],
           e \in {"max_turns", "cancelled", "rate_limited", "api_error", "unexpected_stop"}
    PROVE  AgentLoopInv'
<1>1. loop \in Loops
  BY DEF AgentLoopInv, LoopTypeOK
<1>2. /\ loop' \in Loops /\ loop'.pc = "over" /\ loop'.parent = loop.parent
      /\ loop'.capability = loop.capability /\ loop'.grant = loop.grant /\ loop'.policy = loop.policy
  BY <1>1 DEF Loops
<1>3. LoopTypeOK' /\ AnswersPaired'
  BY <1>2 DEF AgentLoopInv, LoopTypeOK, AnswersPaired
<1>. QED  BY <1>2, <1>3 DEF AgentLoopInv, PolicyOf, WritesAuthorised

\* The turns and the requests.
LEMMA TurnsKeep ==
    ASSUME AgentLoopInv, raise_if_cancelled \/ _call_api
    PROVE  AgentLoopInv'
<1>0. loop \in Loops
  BY DEF AgentLoopInv, LoopTypeOK
<1>1. ASSUME NEW e \in {"max_turns", "cancelled", "rate_limited", "api_error"}, loop' = EndsAs(e),
             UNCHANGED <<chat, steer, pushed, disk, hooked>>
      PROVE  AgentLoopInv'
  BY <1>1, EndsKeep DEF EndsAs
<1>2. ASSUME NEW pc \in {"drain", "call"}, NEW turn \in Nat, NEW attempt \in Nat,
             loop.pc \in {"turn", "call"}, UNCHANGED <<chat, steer, pushed, disk, hooked>>,
             loop' = [loop EXCEPT !.pc = pc, !.turn = turn, !.attempt = attempt]
      PROVE  AgentLoopInv'
  <2>1. /\ loop' \in Loops /\ loop'.pc = pc /\ loop'.parent = loop.parent
        /\ loop'.capability = loop.capability /\ loop'.grant = loop.grant /\ loop'.policy = loop.policy
    BY <1>0, <1>2 DEF Loops
  <2>2. AnswersPaired'
    BY <1>2, <2>1 DEF AgentLoopInv, AnswersPaired, Paired
  <2>. QED  BY <1>2, <2>1, <2>2 DEF AgentLoopInv, LoopTypeOK, PolicyOf, WritesAuthorised
<1>3. CASE raise_if_cancelled
  <2>1. loop.pc = "turn" /\ UNCHANGED <<chat, steer, pushed, disk, hooked>>
    BY <1>3 DEF raise_if_cancelled
  <2>2. CASE loop.turn = MaxTurns /\ ~(loop.turn < MaxTurns)
    BY <1>1, <1>3, <2>1, <2>2, Zenon DEF raise_if_cancelled
  <2>3. CASE loop.turn # MaxTurns /\ loop.turn < MaxTurns /\ cancelled
    BY <1>1, <1>3, <2>1, <2>3, Zenon DEF raise_if_cancelled
  <2>4. CASE loop.turn # MaxTurns /\ ~(loop.turn < MaxTurns /\ cancelled)
    <3>1. loop' = [loop EXCEPT !.pc = "drain", !.turn = @ + 1]
      BY <1>3, <2>4, Zenon DEF raise_if_cancelled
    <3>2. loop' = [loop EXCEPT !.pc = "drain", !.turn = loop.turn + 1, !.attempt = loop.attempt]
      BY <1>0, <3>1 DEF Loops
    <3>3. loop.turn + 1 \in Nat /\ loop.attempt \in Nat
      BY <1>0 DEF Loops
    <3>. QED  BY <1>2, <2>1, <3>2, <3>3
  <2>5. loop.turn \in Nat
    BY <1>0 DEF Loops
  <2>6. ~(loop.turn = MaxTurns /\ loop.turn < MaxTurns)
    BY <2>5
  <2>. QED  BY <2>2, <2>3, <2>4, <2>6
<1>4. CASE _call_api
  <2>1. loop.pc = "call" /\ UNCHANGED <<chat, steer, pushed, disk, hooked>>
    BY <1>4 DEF _call_api
  <2>2. CASE loop' = [loop EXCEPT !.attempt = @ + 1]
    <3>1. loop' = [loop EXCEPT !.pc = "call", !.turn = loop.turn, !.attempt = loop.attempt + 1]
      BY <1>0, <2>1, <2>2 DEF Loops
    <3>2. loop.turn \in Nat /\ loop.attempt + 1 \in Nat
      BY <1>0 DEF Loops
    <3>. QED  BY <1>2, <2>1, <3>1, <3>2
  <2>. QED  BY <1>1, <1>4, <2>1, <2>2 DEF _call_api
<1>. QED  BY <1>3, <1>4

\* What other threads push is said before the request.
LEMMA DrainKeeps ==
    ASSUME AgentLoopInv, drain
    PROVE  AgentLoopInv'
<1>0. loop \in Loops /\ chat \in Seq(Messages) /\ steer \in Seq(Nat)
  BY DEF AgentLoopInv, LoopTypeOK
<1>. DEFINE said == [i \in DOMAIN steer |-> Msg("guidance", steer[i])]
<1>1. said \in Seq(Messages) /\ \A i \in DOMAIN said : said[i].kind = "guidance"
  <2>1. \A n \in Nat : Msg("guidance", n) \in Messages /\ Msg("guidance", n).kind = "guidance"
    BY DEF Messages, MessageKinds, Msg
  <2>2. \A i \in DOMAIN steer : steer[i] \in Nat
    BY <1>0
  <2>3. DOMAIN said = 1..Len(steer) /\ Len(steer) \in Nat /\ \A i \in DOMAIN said : said[i] \in Messages
    BY <1>0, <2>1, <2>2
  <2>4. said \in Seq(Messages)
    BY <2>3
  <2>. QED  BY <2>1, <2>2, <2>4
<1>2. /\ chat' = chat \o said /\ steer' = << >> /\ loop' = [loop EXCEPT !.pc = "call", !.attempt = 0]
      /\ UNCHANGED <<pushed, disk, hooked>> /\ loop.pc = "drain"
  BY DEF drain
<1>. HIDE DEF said
<1>3. /\ loop' \in Loops /\ loop'.pc = "call" /\ loop'.parent = loop.parent
      /\ loop'.capability = loop.capability /\ loop'.grant = loop.grant /\ loop'.policy = loop.policy
  BY <1>0, <1>2 DEF Loops
<1>4. /\ chat' \in Seq(Messages) /\ Len(chat') = Len(chat) + Len(said)
      /\ \A i \in DOMAIN chat : i \in DOMAIN chat' /\ chat'[i] = chat[i]
      /\ \A i \in DOMAIN chat' : i \in DOMAIN chat \/ chat'[i].kind = "guidance"
  BY <1>0, <1>1, <1>2
<1>5. AnswersPaired'
  <2>. SUFFICES ASSUME NEW i \in DOMAIN chat', chat'[i].kind = "assistant"
                PROVE  i < Len(chat') /\ chat'[i + 1] = Msg("results", chat'[i].n)
    BY <1>3 DEF AnswersPaired, Paired
  <2>1. i \in DOMAIN chat /\ chat'[i] = chat[i]
    BY <1>4
  <2>2. i < Len(chat) /\ chat[i + 1] = Msg("results", chat[i].n)
    BY <1>2, <2>1 DEF AgentLoopInv, AnswersPaired, Paired
  <2>3. i + 1 \in DOMAIN chat
    BY <1>0, <2>1, <2>2
  <2>4. Len(said) \in Nat /\ Len(chat) \in Nat
    BY <1>0, <1>1
  <2>. QED  BY <1>0, <1>4, <2>1, <2>2, <2>3, <2>4
<1>6. LoopTypeOK'
  BY <1>2, <1>3, <1>4 DEF AgentLoopInv, LoopTypeOK
<1>. QED  BY <1>2, <1>3, <1>5, <1>6 DEF AgentLoopInv, PolicyOf, WritesAuthorised

\* A message is added at the end.
LEMMA MessageAdded ==
    ASSUME chat \in Seq(Messages), NEW m \in Messages, chat' = Append(chat, m)
    PROVE  /\ chat' \in Seq(Messages) /\ Len(chat) \in Nat /\ Len(chat') = Len(chat) + 1
           /\ chat'[Len(chat) + 1] = m /\ DOMAIN chat' = 1..(Len(chat) + 1) /\ DOMAIN chat = 1..Len(chat)
           /\ \A i \in DOMAIN chat : i \in DOMAIN chat' /\ chat'[i] = chat[i]
  OBVIOUS

\* The answer is one more message, and its calls have no result yet.
LEMMA AnswerKeeps ==
    ASSUME AgentLoopInv, Answer
    PROVE  AgentLoopInv'
<1>0. loop \in Loops /\ chat \in Seq(Messages) /\ loop.pc = "call"
  BY DEF AgentLoopInv, LoopTypeOK, Answer
<1>1. PICK calls \in Answers, stop \in {"end_turn", "tool_use", "max_tokens"} :
          /\ chat' = Append(chat, Msg("assistant", Len(calls)))
          /\ loop' = CASE stop = "end_turn" -> Returns("text")
                       [] stop = "max_tokens" -> EndsAs("unexpected_stop")
                       [] stop = "tool_use" ->
                            [loop EXCEPT !.pc = "tools", !.calls = calls, !.results = 0]
  BY DEF Answer
<1>2. UNCHANGED <<steer, pushed, disk, hooked>>
  BY DEF Answer
<1>3. calls \in Seq(Requested) /\ Len(calls) \in Nat
  <2>1. PICK n \in 0..MaxCalls : calls \in [1..n -> Requested]
    BY DEF Answers
  <2>2. n \in Nat
    BY <2>1
  <2>. QED  BY <2>1, <2>2
<1>4. PICK m \in Messages : m = Msg("assistant", Len(calls)) /\ m.kind = "assistant" /\ m.n = Len(calls)
  <2>1. \A n \in Nat : LET m == Msg("assistant", n) IN m \in Messages /\ m.kind = "assistant" /\ m.n = n
    BY DEF Msg, Messages, MessageKinds
  <2>. QED  BY <1>3, <2>1
<1>5. chat' = Append(chat, m)
  BY <1>1, <1>4
<1>6. /\ chat' \in Seq(Messages) /\ Len(chat) \in Nat /\ Len(chat') = Len(chat) + 1
      /\ chat'[Len(chat) + 1] = m /\ DOMAIN chat' = 1..(Len(chat) + 1) /\ DOMAIN chat = 1..Len(chat)
      /\ \A i \in DOMAIN chat : i \in DOMAIN chat' /\ chat'[i] = chat[i]
  BY <1>0, <1>5, MessageAdded
<1>7. \A i \in DOMAIN chat : chat[i].kind = "assistant" =>
          i < Len(chat) /\ chat[i + 1] = Msg("results", chat[i].n)
  BY <1>0 DEF AgentLoopInv, AnswersPaired, Paired
<1>8. \A i \in DOMAIN chat' : chat'[i].kind = "assistant" =>
          \/ i < Len(chat') /\ chat'[i + 1] = Msg("results", chat'[i].n)
          \/ i = Len(chat')
  <2>. SUFFICES ASSUME NEW i \in DOMAIN chat', chat'[i].kind = "assistant", i # Len(chat')
                PROVE  i < Len(chat') /\ chat'[i + 1] = Msg("results", chat'[i].n)
    OBVIOUS
  <2>1. i \in DOMAIN chat /\ chat'[i] = chat[i]
    BY <1>6
  <2>2. i + 1 \in DOMAIN chat /\ chat[i + 1] = Msg("results", chat[i].n)
    BY <1>6, <1>7, <2>1
  <2>. QED  BY <1>6, <2>1, <2>2
<1>9. CASE stop = "tool_use"
  <2>1. loop' = [loop EXCEPT !.pc = "tools", !.calls = calls, !.results = 0]
    BY <1>1, <1>9, Zenon
  <2>2. /\ loop' \in Loops /\ loop'.pc = "tools" /\ loop'.calls = calls /\ loop'.results = 0
        /\ loop'.parent = loop.parent /\ loop'.capability = loop.capability
        /\ loop'.grant = loop.grant /\ loop'.policy = loop.policy
    BY <1>0, <1>3, <2>1 DEF Loops
  <2>3. /\ Len(chat') \in DOMAIN chat' /\ chat'[Len(chat')] = m
        /\ Len(loop'.calls) + loop'.results = Len(calls)
    BY <1>3, <1>6, <2>2
  <2>4. AnswersPaired'
    BY <1>4, <1>8, <2>2, <2>3 DEF AnswersPaired, Paired
  <2>. QED  BY <1>2, <1>6, <2>2, <2>4 DEF AgentLoopInv, LoopTypeOK, PolicyOf, WritesAuthorised
<1>10. CASE stop # "tool_use"
  <2>1. /\ loop' \in Loops /\ loop'.pc = "over" /\ loop'.parent = loop.parent
        /\ loop'.capability = loop.capability /\ loop'.grant = loop.grant /\ loop'.policy = loop.policy
    <3>1. CASE stop = "end_turn"
      <4>1. loop' = Returns("text")
        BY <1>1, <3>1, Zenon
      <4>2. PICK s \in {"failed", "success"} : s = DelegationStatus
        BY <1>0 DEF DelegationStatus, Loops
      <4>. QED  BY <1>0, <4>1, <4>2 DEF Returns, EndsAs, Loops
    <3>2. CASE stop = "max_tokens"
      <4>1. loop' = EndsAs("unexpected_stop")
        BY <1>1, <3>2, Zenon
      <4>. QED  BY <1>0, <4>1 DEF EndsAs, Loops
    <3>. QED  BY <1>1, <1>10, <3>1, <3>2
  <2>2. AnswersPaired'
    BY <2>1 DEF AnswersPaired
  <2>. QED  BY <1>2, <1>6, <2>1, <2>2 DEF AgentLoopInv, LoopTypeOK, PolicyOf, WritesAuthorised
<1>. QED  BY <1>9, <1>10

\* A call's result.
LEMMA RepliedIs ==
    ASSUME AgentLoopInv, loop.pc = "tools", loop.calls # << >>, NEW verdict \in {"none", "success", "failed"},
           loop' = [Replied EXCEPT !.submitted = verdict], UNCHANGED <<chat, steer, pushed>>
    PROVE  /\ LoopTypeOK' /\ AnswersPaired' /\ loop'.policy = PolicyOf(loop)'
           /\ loop'.parent = loop.parent /\ loop'.capability = loop.capability /\ loop'.grant = loop.grant
<1>0. loop \in Loops /\ loop.calls \in Seq(Requested)
  BY DEF AgentLoopInv, LoopTypeOK, Loops
<1>1. Tail(loop.calls) \in Seq(Requested) /\ Len(Tail(loop.calls)) + 1 = Len(loop.calls)
      /\ Len(loop.calls) \in Nat /\ Len(Tail(loop.calls)) \in Nat
  BY <1>0
<1>2. PICK t \in BOOLEAN : t = (loop.terminator \/ Head(loop.calls) \in _TERMINATOR_TOOLS)
  OBVIOUS
<1>3. PICK left \in Seq(Requested), n \in Nat : left = Tail(loop.calls) /\ n = loop.results + 1
  <2>1. loop.results + 1 \in Nat
    BY <1>0 DEF Loops
  <2>. QED  BY <1>1, <2>1
<1>4. loop' = [loop EXCEPT !.calls = left, !.results = n, !.terminator = t, !.submitted = verdict]
  BY <1>0, <1>2, <1>3 DEF Replied, Loops
<1>5. loop' \in Loops
  BY <1>0, <1>4, Zenon DEF Loops
<1>6. /\ loop'.pc = "tools" /\ loop'.calls = left /\ loop'.results = n
      /\ loop'.parent = loop.parent /\ loop'.capability = loop.capability
      /\ loop'.grant = loop.grant /\ loop'.policy = loop.policy
  BY <1>0, <1>4 DEF Loops
<1>7. Len(loop'.calls) + loop'.results = Len(loop.calls) + loop.results
  <2>1. loop.results \in Nat
    BY <1>0 DEF Loops
  <2>2. loop'.calls = Tail(loop.calls) /\ loop'.results = loop.results + 1
    BY <1>3, <1>6
  <2>3. Len(loop'.calls) + 1 = Len(loop.calls) /\ Len(loop'.calls) \in Nat
    BY <1>1, <2>2
  <2>4. loop'.results = loop.results + 1 /\ Len(loop.calls) \in Nat
    BY <1>1, <2>2
  <2>5. \A a, b, c \in Nat : b + 1 = a => b + (c + 1) = a + c
    OBVIOUS
  <2>6. Len(loop'.calls) + (loop.results + 1) = Len(loop.calls) + loop.results
    BY <2>1, <2>3, <2>4, <2>5
  <2>. QED  BY <2>4, <2>6
<1>8. AnswersPaired'
  BY <1>6, <1>7 DEF AgentLoopInv, AnswersPaired, Paired
<1>. QED  BY <1>5, <1>6, <1>8 DEF AgentLoopInv, LoopTypeOK, PolicyOf

\* A call is refused, or the gate lets it and its hooks through.
LEMMA CallsKeep ==
    ASSUME AgentLoopInv, Refused \/ Dispatch
    PROVE  AgentLoopInv'
<1>0. /\ loop \in Loops /\ loop.pc = "tools" /\ loop.calls # << >> /\ UNCHANGED <<chat, steer, pushed>>
      /\ loop.submitted \in {"none", "success", "failed"} /\ loop.approver = "none"
  BY DEF AgentLoopInv, LoopTypeOK, Refused, Dispatch, Loops
<1>1. CASE Refused
  <2>1. loop' = [Replied EXCEPT !.submitted = loop.submitted]
    BY <1>0, <1>1 DEF Refused, Replied, Loops
  <2>2. UNCHANGED <<disk, hooked>>
    BY <1>1 DEF Refused
  <2>3. /\ LoopTypeOK' /\ AnswersPaired' /\ loop'.policy = PolicyOf(loop)'
        /\ loop'.parent = loop.parent /\ loop'.capability = loop.capability /\ loop'.grant = loop.grant
    BY <1>0, <2>1, RepliedIs
  <2>. QED  BY <2>2, <2>3 DEF AgentLoopInv, WritesAuthorised
<1>2. CASE Dispatch
  <2>. DEFINE tool == Head(loop.calls)
              pre == build_tool_hooks("pre_tool", tool)
              post == build_tool_hooks("post_tool", tool)
              mode == min_mode(loop.parent, loop.capability)
  <2>1. PICK n \in HookRuns(pre), ran \in BOOLEAN, k \in HookRuns(post) :
           /\ edit(tool, ran)
           /\ hooked' = hooked \cup Ran(pre, n) \cup (IF ran THEN Ran(post, k) ELSE {})
           /\ make_submit_result_tool(tool, ran)
    BY <1>2 DEF Dispatch
  <2>2. Allowed(tool)
    BY <1>2 DEF Dispatch
  <2>3. PICK verdict \in {"none", "success", "failed"} : loop' = [Replied EXCEPT !.submitted = verdict]
    BY <1>0, <2>1 DEF make_submit_result_tool
  <2>4. /\ LoopTypeOK' /\ AnswersPaired' /\ loop'.policy = PolicyOf(loop)'
        /\ loop'.parent = loop.parent /\ loop'.capability = loop.capability /\ loop'.grant = loop.grant
    BY <1>0, <2>3, RepliedIs
  <2>5. mode \in Modes /\ loop.policy = build_policy(mode, NoConfig, loop.grant)
        /\ loop.parent \in Modes /\ loop.capability \in Modes
    BY <1>0 DEF Loops, min_mode, AgentLoopInv, PolicyOf
  <2>6. loop.policy.mode = mode
    BY <2>5 DEF build_policy
  <2>. HIDE DEF tool, pre, post, mode
  <2>7. mode_permits(mode, "build") => mode_permits(loop.parent, "build") /\ mode_permits(loop.capability, "build")
    BY <2>5, ClampedByBoth DEF mode
  <2>8. "git_add" \in hooked' => "git_add" \in hooked \/ mode_permits(mode, "build")
    <3>1. ASSUME NEW specs, NEW m, "git_add" \in Ran(specs, m)
          PROVE  mode_permits(mode, "build")
      <4>1. PICK i \in DOMAIN specs : specs[i].run = "git_add" /\ HookAllowed(specs[i])
        BY <3>1 DEF Ran
      <4>2. check(HookGate, "bash", GitCommand("git_add"), loop.approver) = "allow"
        BY <4>1 DEF HookAllowed
      <4>3. HookGate = build_policy(mode, NoConfig, Tools)
        BY <2>6 DEF HookGate
      <4>. QED  BY <2>5, <4>2, <4>3, StagingNeedsBuild
    <3>. QED  BY <2>1, <3>1
  <2>9. disk' # {} => disk # {} \/ (mode_permits(mode, "build") /\ "edit" \in loop.grant)
    <3>1. CASE tool = "edit"
      <4>1. check(build_policy(mode, NoConfig, loop.grant), "edit", ReadCommand, loop.approver) = "allow"
        BY <2>2, <2>5, <3>1 DEF Allowed
      <4>. QED  BY <2>5, <4>1, EditsNeedBuild
    <3>2. CASE tool # "edit"
      BY <2>1, <3>2 DEF edit
    <3>. QED  BY <3>1, <3>2
  <2>10. WritesAuthorised'
    BY <2>4, <2>7, <2>8, <2>9 DEF AgentLoopInv, WritesAuthorised
  <2>. QED  BY <2>4, <2>10 DEF AgentLoopInv
<1>. QED  BY <1>1, <1>2

\* The results follow the answer they belong to.
LEMMA ResultsFollow ==
    ASSUME AgentLoopInv, TurnEnds
    PROVE  AgentLoopInv'
<1>0. /\ loop \in Loops /\ chat \in Seq(Messages) /\ loop.pc = "tools" /\ loop.calls = << >>
      /\ UNCHANGED <<steer, pushed, disk, hooked>> /\ loop.results \in Nat
      /\ chat' = Append(chat, Msg("results", loop.results))
  BY DEF AgentLoopInv, LoopTypeOK, Loops, TurnEnds
<1>1. /\ loop' \in Loops /\ loop'.pc \in {"over", "turn"} /\ loop'.parent = loop.parent
      /\ loop'.capability = loop.capability /\ loop'.grant = loop.grant /\ loop'.policy = loop.policy
  <2>1. CASE loop' = Returns("terminator")
    <3>1. PICK s \in {"failed", "success"} : s = DelegationStatus
      BY <1>0 DEF DelegationStatus, Loops
    <3>. QED  BY <1>0, <2>1, <3>1 DEF Returns, EndsAs, Loops
  <2>2. CASE loop' = [loop EXCEPT !.pc = "turn"]
    BY <1>0, <2>2 DEF Loops
  <2>. QED  BY <2>1, <2>2 DEF TurnEnds
<1>2. PICK m \in Messages : /\ m = Msg("results", loop.results) /\ m.kind = "results"
                            /\ m.n = loop.results
  <2>1. \A n \in Nat : LET m == Msg("results", n) IN m \in Messages /\ m.kind = "results" /\ m.n = n
    BY DEF Msg, Messages, MessageKinds
  <2>. QED  BY <1>0, <2>1
<1>3. /\ chat' \in Seq(Messages) /\ Len(chat) \in Nat /\ Len(chat') = Len(chat) + 1
      /\ chat'[Len(chat) + 1] = m /\ DOMAIN chat' = 1..(Len(chat) + 1) /\ DOMAIN chat = 1..Len(chat)
      /\ \A i \in DOMAIN chat : i \in DOMAIN chat' /\ chat'[i] = chat[i]
  BY <1>0, <1>2, MessageAdded
<1>4. Len(loop.calls) = 0
  BY <1>0
<1>5. /\ Len(chat) \in DOMAIN chat /\ chat[Len(chat)] = Msg("assistant", loop.results)
      /\ \A i \in DOMAIN chat : chat[i].kind = "assistant" =>
             (i < Len(chat) /\ chat[i + 1] = Msg("results", chat[i].n)) \/ i = Len(chat)
  BY <1>0, <1>4 DEF AgentLoopInv, AnswersPaired, Paired
<1>6. chat[Len(chat)].n = loop.results
  BY <1>0, <1>5 DEF Msg
<1>7. \A i \in DOMAIN chat' : chat'[i].kind = "assistant" =>
         i < Len(chat') /\ chat'[i + 1] = Msg("results", chat'[i].n)
  <2>. SUFFICES ASSUME NEW i \in DOMAIN chat', chat'[i].kind = "assistant"
                PROVE  i < Len(chat') /\ chat'[i + 1] = Msg("results", chat'[i].n)
    OBVIOUS
  <2>1. i \in DOMAIN chat /\ chat'[i] = chat[i]
    BY <1>2, <1>3
  <2>2. CASE i = Len(chat)
    BY <1>2, <1>3, <1>6, <2>1, <2>2
  <2>3. CASE i # Len(chat)
    <3>1. i + 1 \in DOMAIN chat /\ chat[i + 1] = Msg("results", chat[i].n)
      BY <1>3, <1>5, <2>1, <2>3
    <3>. QED  BY <1>3, <2>1, <3>1
  <2>. QED  BY <2>2, <2>3
<1>8. AnswersPaired'
  BY <1>1, <1>7 DEF AnswersPaired, Paired
<1>. QED  BY <1>0, <1>1, <1>3, <1>8 DEF AgentLoopInv, LoopTypeOK, PolicyOf, WritesAuthorised

LEMMA LoopSteps == AgentLoopInv /\ [LoopNext]_loopVars => AgentLoopInv'
<1>. SUFFICES ASSUME AgentLoopInv, [LoopNext]_loopVars PROVE AgentLoopInv'
  OBVIOUS
<1>1. CASE push
  <2>1. pushed + 1 \in Nat /\ steer' = Append(steer, pushed + 1) /\ pushed' = pushed + 1
        /\ UNCHANGED <<chat, loop, disk, hooked>>
    BY <1>1 DEF push, AgentLoopInv, LoopTypeOK
  <2>2. steer' \in Seq(Nat)
    BY <2>1 DEF AgentLoopInv, LoopTypeOK
  <2>. QED  BY <2>1, <2>2 DEF AgentLoopInv, LoopTypeOK, PolicyOf, AnswersPaired, Paired, WritesAuthorised
<1>2. CASE cancel \/ UNCHANGED loopVars
  BY <1>2 DEF cancel, loopVars, AgentLoopInv, LoopTypeOK, PolicyOf, AnswersPaired, Paired, WritesAuthorised
<1>. QED  BY <1>1, <1>2, TurnsKeep, DrainKeeps, AnswerKeeps, CallsKeep, ResultsFollow DEF LoopNext, LoopStep

\* Before every request, the answers so far have their results (ResultsPaired).
THEOREM AnswersHaveResults == LoopSpec => []ResultsPaired
<1>1. AgentLoopInv => ResultsPaired
  BY DEF AgentLoopInv, AnswersPaired, Paired, ResultsPaired
<1>. QED  BY <1>1, LoopStart, LoopSteps, PTL DEF LoopSpec

\* An agent and its hooks write within both authorities (WritesAuthorised).
THEOREM WritesWithinAuthority == LoopSpec => []WritesAuthorised
<1>1. AgentLoopInv => WritesAuthorised
  BY DEF AgentLoopInv
<1>. QED  BY <1>1, LoopStart, LoopSteps, PTL DEF LoopSpec

-----------------------------------------------------------------------------
(* The library.                                                             *)

TheFiles == ToSet(FilesOf(kind))
FileRecords == [v : Nat, mtime : Nat, first : Nat, name : AgentNames, there : BOOLEAN, ok : BOOLEAN]
CacheRecords == [mtime : Int, v : Nat, name : AgentNames \cup {"none"}]
Entries == [v : Nat, name : AgentNames \cup {"none"}]
FileIds == UNION {ToSet(FilesOf(k)) : k \in DOMAIN Roots}
Passes == [pc : {"none", "stat", "read"}, todo : Seq(FileIds), mtime : Int,
           floor : [TheFiles -> Nat] \cup {<< >>}, got : Seq(Entries)]

LibraryTypeOK ==
    /\ kind \in DOMAIN Roots
    /\ file \in [TheFiles -> FileRecords]
    /\ cache \in [TheFiles -> CacheRecords]
    /\ pass \in Passes
    /\ time \in Nat

\* The modification times are past, and what is cached under the time a file
\* has is no older than the first of the edits of that time.
CacheOK ==
    \A f \in TheFiles : /\ file[f].mtime <= time /\ file[f].first <= file[f].v
                        /\ cache[f].mtime <= file[f].mtime
                        /\ cache[f].mtime = file[f].mtime => cache[f].v >= file[f].first

\* A pass has the rest of the files to do, and its floor is below every edit.
PassOK ==
    pass.pc # "none" =>
        /\ pass.floor \in [TheFiles -> Nat]
        /\ \A f \in TheFiles : pass.floor[f] <= file[f].first
        /\ Len(pass.got) + Len(pass.todo) = Len(FilesOf(kind))
        /\ \A i \in 1..Len(pass.todo) : pass.todo[i] = FilesOf(kind)[Len(pass.got) + i]
        /\ pass.pc = "read" => pass.todo # << >> /\ pass.mtime <= file[Current].mtime

LibraryInv == LibraryTypeOK /\ CacheOK /\ PassOK /\ FreshLoads

LEMMA FilesAreSequences ==
    ASSUME NEW k \in DOMAIN Roots
    PROVE  /\ FilesOf(k) \in Seq(FileIds)
           /\ ToSet(FilesOf(k)) \subseteq FileIds
           /\ \A i \in DOMAIN FilesOf(k) : FilesOf(k)[i] \in ToSet(FilesOf(k))
<1>. DEFINE Strings == {"b", "u1", "u2", "p", "q", "decisions.md"}
<1>1. k \in {"agents", "packs", "memory"}
  BY DEF Roots
<1>2. FilesOf(k) \in Seq(Strings)
  <2>1. /\ Roots["agents"] = <<<<"b">>, <<"u1", "u2">>>> /\ Roots["packs"] = <<<<"p">>, <<"q">>>>
        /\ Roots["memory"] = <<<<"decisions.md">>>>
    BY DEF Roots
  <2>2. CASE k = "agents"
    <3>1. /\ Len(Roots[k]) = 2 /\ Len(Roots[k]) # 1
          /\ Roots[k][1] = <<"b">> /\ Roots[k][2] = <<"u1", "u2">>
      BY <2>1, <2>2
    <3>2. FilesOf(k) = Roots[k][1] \o Roots[k][2]
      BY <3>1, Zenon DEF FilesOf
    <3>3. FilesOf(k) = <<"b">> \o <<"u1", "u2">>
      BY <3>1, <3>2
    <3>. QED  BY <3>3
  <2>3. CASE k = "packs"
    <3>1. /\ Len(Roots[k]) = 2 /\ Len(Roots[k]) # 1
          /\ Roots[k][1] = <<"p">> /\ Roots[k][2] = <<"q">>
      BY <2>1, <2>3
    <3>2. FilesOf(k) = Roots[k][1] \o Roots[k][2]
      BY <3>1, Zenon DEF FilesOf
    <3>3. FilesOf(k) = <<"p">> \o <<"q">>
      BY <3>1, <3>2
    <3>. QED  BY <3>3
  <2>4. CASE k = "memory"
    <3>1. FilesOf(k) = <<"decisions.md">>
      BY <2>1, <2>4 DEF FilesOf
    <3>. QED  BY <3>1
  <2>. QED  BY <1>1, <2>2, <2>3, <2>4
<1>3. /\ ToSet(FilesOf(k)) \subseteq FileIds
      /\ \A i \in DOMAIN FilesOf(k) : FilesOf(k)[i] \in ToSet(FilesOf(k))
  BY DEF FileIds, ToSet
<1>4. FilesOf(k) \in Seq(FileIds)
  <2>. DEFINE fs == FilesOf(k)
  <2>1. fs \in Seq(Strings) /\ \A i \in DOMAIN fs : fs[i] \in FileIds
    BY <1>2, <1>3
  <2>. HIDE DEF fs
  <2>2. Len(fs) \in Nat /\ DOMAIN fs = 1..Len(fs) /\ fs = [i \in 1..Len(fs) |-> fs[i]]
    BY <2>1
  <2>3. fs \in Seq(FileIds)
    BY <2>1, <2>2
  <2>. QED  BY <2>3 DEF fs
<1>. QED  BY <1>3, <1>4

LEMMA LibraryStart == LibraryInit => LibraryInv
<1>. SUFFICES ASSUME LibraryInit PROVE LibraryInv
  OBVIOUS
<1>1. /\ kind \in DOMAIN Roots /\ file = [f \in TheFiles |-> Fresh] /\ cache = [f \in TheFiles |-> NotCached]
      /\ time = 0 /\ pass = AtRestPass
  BY DEF LibraryInit, TheFiles
<1>2. Fresh \in FileRecords /\ NotCached \in CacheRecords /\ Fresh.mtime = 0 /\ Fresh.first = 1 /\ Fresh.v = 1
      /\ NotCached.mtime = -1
  BY DEF Fresh, NotCached, FileRecords, CacheRecords, AgentNames
<1>3. AtRestPass \in Passes /\ AtRestPass.pc = "none"
  BY DEF AtRestPass, Passes
<1>. QED  BY <1>1, <1>2, <1>3 DEF LibraryInv, LibraryTypeOK, CacheOK, PassOK, FreshLoads

\* The pass is at the file after those it has loaded.
LEMMA CurrentIsFile ==
    ASSUME LibraryInv, pass.pc # "none", pass.todo # << >>
    PROVE  /\ Current \in TheFiles
           /\ Current = FilesOf(kind)[Len(pass.got) + 1]
           /\ Len(pass.got) + 1 \in DOMAIN FilesOf(kind)
<1>1. kind \in DOMAIN Roots /\ pass.todo \in Seq(FileIds) /\ pass.got \in Seq(Entries)
  BY DEF LibraryInv, LibraryTypeOK, Passes
<1>2. /\ Len(pass.got) + Len(pass.todo) = Len(FilesOf(kind))
      /\ \A i \in 1..Len(pass.todo) : pass.todo[i] = FilesOf(kind)[Len(pass.got) + i]
  BY DEF LibraryInv, PassOK
<1>3. FilesOf(kind) \in Seq(FileIds) /\ \A i \in DOMAIN FilesOf(kind) : FilesOf(kind)[i] \in TheFiles
  BY <1>1, FilesAreSequences DEF TheFiles
<1>4. Len(pass.todo) \in Nat /\ Len(pass.got) \in Nat /\ Len(pass.todo) > 0 /\ Current = pass.todo[1]
  BY <1>1 DEF Current
<1>5. Len(pass.got) + 1 \in 1..Len(FilesOf(kind)) /\ 1 \in 1..Len(pass.todo)
  <2>1. \A a, b, c \in Nat : a + b = c /\ b > 0 => a + 1 \in 1..c /\ 1 \in 1..b
    OBVIOUS
  <2>2. Len(FilesOf(kind)) \in Nat
    BY <1>3
  <2>. QED  BY <1>2, <1>4, <2>1, <2>2
<1>6. DOMAIN FilesOf(kind) = 1..Len(FilesOf(kind))
  BY <1>3
<1>. QED  BY <1>2, <1>3, <1>4, <1>5, <1>6

\* A file is edited: its time is now, and what was cached before is under that
\* time only if it belongs to it.
LEMMA ReplaceKeeps ==
    ASSUME LibraryInv, NEW f, NEW name \in AgentNames, NEW there \in BOOLEAN, NEW ok \in BOOLEAN,
           Replace(f, name, there, ok), UNCHANGED <<kind, time, pass>>,
           \/ UNCHANGED cache
           \/ cache' = [cache EXCEPT ![f] = NotCached]
    PROVE  LibraryInv'
<1>1. /\ kind \in DOMAIN Roots /\ file \in [TheFiles -> FileRecords] /\ cache \in [TheFiles -> CacheRecords]
      /\ pass \in Passes /\ time \in Nat /\ TheFiles' = TheFiles
  BY DEF LibraryInv, LibraryTypeOK, TheFiles
<1>2. NotCached \in CacheRecords /\ NotCached.mtime = -1
  BY DEF NotCached, CacheRecords
<1>3. CASE f \notin TheFiles
  <2>1. file' = file /\ cache' = cache
    BY <1>1, <1>3 DEF Replace
  <2>. QED  BY <2>1 DEF LibraryInv, LibraryTypeOK, CacheOK, PassOK, FreshLoads, TheFiles, Passes, Current
<1>4. CASE f \in TheFiles
  <2>1. PICK row : row = [v |-> file[f].v + 1, mtime |-> time,
                          first |-> IF file[f].mtime = time THEN file[f].first ELSE file[f].v + 1,
                          name |-> name, there |-> there, ok |-> ok]
    OBVIOUS
  <2>2. file' = [file EXCEPT ![f] = row]
    BY <2>1 DEF Replace
  <2>3. file[f] \in FileRecords /\ file[f].v \in Nat /\ file[f].first \in Nat /\ file[f].mtime \in Nat
    BY <1>1, <1>4 DEF FileRecords
  <2>4. /\ row \in FileRecords /\ row.mtime = time /\ row.v = file[f].v + 1
        /\ row.first = IF file[f].mtime = time THEN file[f].first ELSE file[f].v + 1
    BY <1>1, <2>1, <2>3 DEF FileRecords
  <2>5. /\ row.first <= row.v /\ file[f].first <= row.first /\ file[f].mtime <= row.mtime
        /\ row.mtime = file[f].mtime => row.first = file[f].first
    BY <1>4, <2>3, <2>4 DEF LibraryInv, CacheOK
  <2>6. /\ file' \in [TheFiles -> FileRecords] /\ file'[f] = row
        /\ \A g \in TheFiles : g # f => file'[g] = file[g]
    BY <1>1, <1>4, <2>2, <2>4
  <2>7. /\ cache' \in [TheFiles -> CacheRecords]
        /\ \A g \in TheFiles : cache'[g] = cache[g] \/ cache'[g].mtime = -1
    BY <1>1, <1>2
  <2>8. \A g \in TheFiles : /\ file[g].first \in Nat /\ file[g].mtime \in Nat /\ file'[g].mtime \in Nat
                            /\ cache[g].mtime \in Int /\ cache[g].v \in Nat /\ cache'[g].mtime \in Int
                            /\ file'[g].first \in Nat
    BY <1>1, <2>6, <2>7 DEF FileRecords, CacheRecords
  <2>9. \A g \in TheFiles : file[g].first <= file'[g].first /\ file[g].mtime <= file'[g].mtime
    BY <2>5, <2>6, <2>8
  <2>10. CacheOK'
    <3>. SUFFICES ASSUME NEW g \in TheFiles
                  PROVE  /\ file'[g].mtime <= time /\ file'[g].first <= file'[g].v
                         /\ cache'[g].mtime <= file'[g].mtime
                         /\ cache'[g].mtime = file'[g].mtime => cache'[g].v >= file'[g].first
      BY <1>1 DEF CacheOK
    <3>1. CASE g # f
      BY <2>6, <2>7, <2>8, <3>1 DEF LibraryInv, CacheOK
    <3>2. CASE g = f
      <4>1. file[g].first <= file[g].v /\ cache[g].mtime <= file[g].mtime
            /\ (cache[g].mtime = file[g].mtime => cache[g].v >= file[g].first)
        BY DEF LibraryInv, CacheOK
      <4>2. file'[g].mtime = time /\ file'[g].first <= file'[g].v
        BY <2>4, <2>5, <2>6, <3>2
      <4>3. cache'[g].mtime = -1 => cache'[g].mtime <= file'[g].mtime /\ cache'[g].mtime # file'[g].mtime
        BY <2>8
      <4>4. cache[g].mtime <= file'[g].mtime
        BY <2>8, <2>9, <4>1
      <4>5. cache[g].mtime = file'[g].mtime => cache[g].v >= file'[g].first
        BY <2>4, <2>5, <2>6, <2>8, <3>2, <4>1
      <4>. QED  BY <1>1, <2>7, <4>2, <4>3, <4>4, <4>5
    <3>. QED  BY <3>1, <3>2
  <2>11. PassOK'
    <3>. SUFFICES ASSUME pass.pc # "none"
                  PROVE  /\ pass.floor \in [TheFiles -> Nat]
                         /\ \A g \in TheFiles : pass.floor[g] <= file'[g].first
                         /\ Len(pass.got) + Len(pass.todo) = Len(FilesOf(kind))
                         /\ \A i \in 1..Len(pass.todo) : pass.todo[i] = FilesOf(kind)[Len(pass.got) + i]
                         /\ pass.pc = "read" => pass.todo # << >> /\ pass.mtime <= file'[Current].mtime
      BY <1>1 DEF PassOK, Current
    <3>1. /\ pass.floor \in [TheFiles -> Nat]
          /\ \A g \in TheFiles : pass.floor[g] <= file[g].first
      BY DEF LibraryInv, PassOK
    <3>2. \A g \in TheFiles : pass.floor[g] <= file'[g].first
      BY <2>8, <2>9, <3>1
    <3>3. pass.pc = "read" => Current \in TheFiles
      <4>1. pass.pc = "read" => pass.todo # << >>
        BY DEF LibraryInv, PassOK
      <4>. QED  BY <4>1, CurrentIsFile
    <3>4. pass.pc = "read" => pass.mtime <= file'[Current].mtime
      <4>1. pass.pc = "read" => pass.mtime <= file[Current].mtime /\ pass.mtime \in Int
        BY <1>1 DEF LibraryInv, PassOK, Passes
      <4>. QED  BY <2>8, <2>9, <3>3, <4>1
    <3>. QED  BY <3>1, <3>2, <3>4 DEF LibraryInv, PassOK
  <2>12. FreshLoads'
    BY DEF LibraryInv, FreshLoads
  <2>13. LibraryTypeOK'
    BY <1>1, <2>6, <2>7 DEF LibraryTypeOK, Passes
  <2>. QED  BY <2>10, <2>11, <2>12, <2>13 DEF LibraryInv
<1>. QED  BY <1>3, <1>4
\* The pass goes on to its next file with what it loaded of this one.
LEMMA LoadedKeeps ==
    ASSUME LibraryInv, pass.pc # "none", pass.todo # << >>, UNCHANGED kind,
           NEW entry \in Entries, Loaded(entry),
           entry.v > 0 => entry.v >= pass.floor[Current]
    PROVE  /\ pass' \in Passes /\ pass'.pc = "stat" /\ pass'.floor = pass.floor
           /\ Len(pass'.got) + Len(pass'.todo) = Len(FilesOf(kind))
           /\ \A i \in 1..Len(pass'.todo) : pass'.todo[i] = FilesOf(kind)[Len(pass'.got) + i]
           /\ FreshLoads'
<1>1. /\ pass \in Passes /\ pass.todo \in Seq(FileIds) /\ pass.got \in Seq(Entries)
      /\ pass.mtime \in Int /\ pass.floor \in [TheFiles -> Nat] \cup {<< >>}
  BY DEF LibraryInv, LibraryTypeOK, Passes
<1>2. /\ Len(pass.got) + Len(pass.todo) = Len(FilesOf(kind))
      /\ \A i \in 1..Len(pass.todo) : pass.todo[i] = FilesOf(kind)[Len(pass.got) + i]
  BY DEF LibraryInv, PassOK
<1>3. PICK rest : rest = Tail(pass.todo)
  OBVIOUS
<1>4. PICK got : got = Append(pass.got, entry)
  OBVIOUS
<1>5. pass' = [pass EXCEPT !.pc = "stat", !.todo = rest, !.got = got]
  BY <1>3, <1>4 DEF Loaded
<1>6. rest \in Seq(FileIds) /\ got \in Seq(Entries)
  BY <1>1, <1>3, <1>4
<1>7. /\ pass' \in Passes /\ pass'.pc = "stat" /\ pass'.floor = pass.floor
      /\ pass'.todo = rest /\ pass'.got = got
  BY <1>1, <1>5, <1>6 DEF Passes
<1>8. /\ Len(pass.todo) \in Nat /\ Len(pass.todo) > 0 /\ Len(pass.got) \in Nat
      /\ Len(rest) = Len(pass.todo) - 1 /\ Len(got) = Len(pass.got) + 1
      /\ \A i \in 1..Len(rest) : rest[i] = pass.todo[i + 1]
      /\ \A i \in 1..Len(pass.got) : got[i] = pass.got[i]
      /\ got[Len(pass.got) + 1] = entry
  BY <1>1, <1>3, <1>4
<1>9. /\ Len(got) + Len(rest) = Len(FilesOf(kind))
      /\ \A i \in 1..Len(rest) : rest[i] = FilesOf(kind)[Len(got) + i]
  <2>1. Len(got) + Len(rest) = Len(FilesOf(kind))
    <3>1. \A a, b \in Nat : (a + 1) + (b - 1) = a + b
      OBVIOUS
    <3>. QED  BY <1>2, <1>8, <3>1
  <2>2. ASSUME NEW i \in 1..Len(rest) PROVE rest[i] = FilesOf(kind)[Len(got) + i]
    <3>0. \A a, b \in Nat : \A j \in 1..(b - 1) : j + 1 \in 1..b /\ a + (j + 1) = (a + 1) + j
      OBVIOUS
    <3>1. i + 1 \in 1..Len(pass.todo) /\ Len(pass.got) + (i + 1) = Len(got) + i
      BY <1>8, <3>0
    <3>. QED  BY <1>2, <1>8, <3>1
  <2>. QED  BY <2>1, <2>2
<1>10. FreshLoads'
  <2>. SUFFICES ASSUME NEW i \in 1..Len(got), got[i].v > 0
                PROVE  got[i].v >= pass.floor[FilesOf(kind)[i]]
    BY <1>6, <1>7 DEF FreshLoads
  <2>1. CASE i \in 1..Len(pass.got)
    BY <1>1, <1>8, <2>1 DEF LibraryInv, FreshLoads
  <2>2. CASE i = Len(pass.got) + 1
    BY <1>8, <2>2, CurrentIsFile
  <2>. QED  BY <1>8, <2>1, <2>2
<1>. QED  BY <1>7, <1>9, <1>10

\* A file is edited by hand.
LEMMA EditFileStep == ASSUME LibraryInv, NEW f \in DOMAIN file, EditFile(f) PROVE LibraryInv'
<1>1. "x" \in AgentNames
  BY DEF AgentNames
<1>2. UNCHANGED <<kind, time, cache, pass>>
  BY DEF EditFile
<1>3. CASE \E name \in AgentNames : Replace(f, name, TRUE, TRUE)
  BY <1>2, <1>3, ReplaceKeeps
<1>4. CASE \E there \in BOOLEAN : Replace(f, "x", there, FALSE)
  BY <1>1, <1>2, <1>4, ReplaceKeeps
<1>. QED  BY <1>3, <1>4 DEF EditFile

\* The clock passes.
LEMMA TimePassesStep == ASSUME LibraryInv, TimePasses PROVE LibraryInv'
<1>1. /\ time' = time + 1 /\ time \in Nat /\ file \in [TheFiles -> FileRecords]
      /\ UNCHANGED <<kind, file, cache, pass>> /\ TheFiles' = TheFiles
  BY DEF TimePasses, LibraryInv, LibraryTypeOK, TheFiles
<1>2. \A f \in TheFiles : file[f].mtime \in Nat
  BY <1>1 DEF FileRecords
<1>3. CacheOK'
  <2>. SUFFICES ASSUME NEW f \in TheFiles
                PROVE  /\ file[f].mtime <= time' /\ file[f].first <= file[f].v
                       /\ cache[f].mtime <= file[f].mtime
                       /\ cache[f].mtime = file[f].mtime => cache[f].v >= file[f].first
    BY <1>1 DEF CacheOK
  <2>. QED  BY <1>1, <1>2 DEF LibraryInv, CacheOK
<1>4. PassOK' /\ FreshLoads'
  BY <1>1 DEF LibraryInv, PassOK, FreshLoads, Current
<1>5. LibraryTypeOK'
  <2>1. time' \in Nat
    BY <1>1
  <2>2. Passes' = Passes
    BY <1>1 DEF Passes
  <2>3. pass' \in Passes'
    BY <1>1, <2>2 DEF LibraryInv, LibraryTypeOK
  <2>. QED  BY <1>1, <2>1, <2>3 DEF LibraryInv, LibraryTypeOK
<1>. QED  BY <1>3, <1>4, <1>5 DEF LibraryInv

\* A pass starts with all the files to do.
LEMMA PassStarts == ASSUME LibraryInv, _parse_root PROVE LibraryInv'
<1>1. /\ kind \in DOMAIN Roots /\ file \in [TheFiles -> FileRecords]
      /\ UNCHANGED <<kind, file, cache, time>> /\ TheFiles' = TheFiles
  BY DEF _parse_root, LibraryInv, LibraryTypeOK, TheFiles
<1>2. PICK floor : floor = [f \in DOMAIN file |-> file[f].first]
  OBVIOUS
<1>3. floor \in [TheFiles -> Nat] /\ \A f \in TheFiles : floor[f] <= file[f].first
  BY <1>1, <1>2 DEF FileRecords
<1>4. pass' = [AtRestPass EXCEPT !.pc = "stat", !.todo = FilesOf(kind), !.floor = floor]
  BY <1>2 DEF _parse_root
<1>5. FilesOf(kind) \in Seq(FileIds)
  BY <1>1, FilesAreSequences
<1>6. /\ pass'.pc = "stat" /\ pass'.todo = FilesOf(kind) /\ pass'.mtime = -1 /\ pass'.floor = floor
      /\ pass'.got = << >> /\ pass' \in Passes
  <2>1. << >> \in Seq(Entries) /\ -1 \in Int
    OBVIOUS
  <2>2. pass' = [pc |-> "stat", todo |-> FilesOf(kind), mtime |-> -1, floor |-> floor, got |-> << >>]
    BY <1>4 DEF AtRestPass
  <2>3. pass' \in Passes
    BY <1>3, <1>5, <2>1, <2>2 DEF Passes
  <2>. QED  BY <2>2, <2>3
<1>7. LibraryTypeOK' /\ CacheOK'
  BY <1>1, <1>6 DEF LibraryInv, LibraryTypeOK, CacheOK, Passes
<1>8. PassOK'
  <2>1. Len(<< >>) + Len(FilesOf(kind)) = Len(FilesOf(kind))
        /\ \A i \in 1..Len(FilesOf(kind)) : FilesOf(kind)[i] = FilesOf(kind)[Len(<< >>) + i]
    BY <1>5
  <2>. QED  BY <1>1, <1>3, <1>6, <2>1 DEF PassOK
<1>9. FreshLoads'
  BY <1>6 DEF FreshLoads
<1>. QED  BY <1>7, <1>8, <1>9 DEF LibraryInv

\* What a pass leaves when it has gone on and the files are as they were.
LEMMA PassGoesOn ==
    ASSUME LibraryInv, UNCHANGED <<kind, file, time>>, pass.pc # "none",
           cache' \in [TheFiles -> CacheRecords], CacheOK',
           pass' \in Passes, pass'.floor = pass.floor, pass'.pc = "stat",
           Len(pass'.got) + Len(pass'.todo) = Len(FilesOf(kind)),
           \A i \in 1..Len(pass'.todo) : pass'.todo[i] = FilesOf(kind)[Len(pass'.got) + i],
           FreshLoads'
    PROVE  LibraryInv'
<1>1. TheFiles' = TheFiles
  BY DEF TheFiles
<1>2. LibraryTypeOK'
  BY <1>1 DEF LibraryInv, LibraryTypeOK, Passes
<1>3. PassOK'
  BY <1>1 DEF LibraryInv, PassOK
<1>. QED  BY <1>2, <1>3 DEF LibraryInv

\* A cache entry is forgotten, or filled from the file as it is.
LEMMA CacheKeeps ==
    ASSUME LibraryInv, UNCHANGED <<kind, file, time>>, NEW f \in TheFiles, NEW entry \in CacheRecords,
           cache' = [cache EXCEPT ![f] = entry], entry.mtime <= file[f].mtime,
           entry.mtime = file[f].mtime => entry.v >= file[f].first
    PROVE  cache' \in [TheFiles -> CacheRecords] /\ CacheOK'
<1>1. cache \in [TheFiles -> CacheRecords] /\ TheFiles' = TheFiles
  BY DEF LibraryInv, LibraryTypeOK, TheFiles
<1>2. cache' \in [TheFiles -> CacheRecords] /\ cache'[f] = entry /\ \A g \in TheFiles : g # f => cache'[g] = cache[g]
  BY <1>1
<1>3. CacheOK'
  BY <1>1, <1>2 DEF LibraryInv, CacheOK
<1>. QED  BY <1>2, <1>3

\* The stat of a file: absent, cached, or to be read.
LEMMA StatStep == ASSUME LibraryInv, _parse_cached PROVE LibraryInv'
<1>1. /\ pass.pc = "stat" /\ pass.pc # "none" /\ pass.todo # << >> /\ UNCHANGED <<kind, file, time>>
  BY DEF _parse_cached
<1>2. /\ pass \in Passes /\ file \in [TheFiles -> FileRecords] /\ cache \in [TheFiles -> CacheRecords]
      /\ TheFiles' = TheFiles /\ CacheOK
  BY <1>1 DEF LibraryInv, LibraryTypeOK, TheFiles
<1>3. Current \in TheFiles
  BY <1>1, CurrentIsFile
<1>4. /\ pass.floor[Current] \in Nat /\ pass.floor[Current] <= file[Current].first
      /\ file[Current] \in FileRecords /\ cache[Current] \in CacheRecords
  BY <1>1, <1>2, <1>3 DEF LibraryInv, PassOK
<1>5. CASE ~file[Current].there /\ cache' = [cache EXCEPT ![Current] = NotCached] /\ Loaded(NotLoaded)
  <2>1. NotCached \in CacheRecords /\ NotCached.mtime = -1 /\ NotLoaded \in Entries /\ NotLoaded.v = 0
    BY DEF NotCached, CacheRecords, NotLoaded, Entries
  <2>2. NotCached.mtime <= file[Current].mtime /\ NotCached.mtime # file[Current].mtime
    BY <1>4, <2>1 DEF FileRecords
  <2>3. cache' \in [TheFiles -> CacheRecords] /\ CacheOK'
    BY <1>1, <1>3, <1>5, <2>1, <2>2, CacheKeeps
  <2>4. NotLoaded.v > 0 => NotLoaded.v >= pass.floor[Current]
    BY <2>1
  <2>. QED  BY <1>1, <1>5, <2>1, <2>3, <2>4, LoadedKeeps, PassGoesOn
<1>6. CASE /\ file[Current].there /\ cache[Current].mtime = file[Current].mtime
           /\ Loaded([v |-> cache[Current].v, name |-> cache[Current].name]) /\ UNCHANGED cache
  <2>1. PICK entry : entry = [v |-> cache[Current].v, name |-> cache[Current].name]
    OBVIOUS
  <2>2. entry \in Entries /\ entry.v = cache[Current].v /\ entry.v \in Nat
    BY <1>4, <2>1 DEF CacheRecords, Entries
  <2>3. cache[Current].v >= file[Current].first
    BY <1>2, <1>3, <1>6 DEF CacheOK
  <2>4. entry.v >= pass.floor[Current]
    BY <1>4, <2>2, <2>3 DEF FileRecords
  <2>5. cache' \in [TheFiles -> CacheRecords] /\ CacheOK'
    BY <1>1, <1>2, <1>6 DEF CacheOK
  <2>. QED  BY <1>1, <1>6, <2>1, <2>2, <2>4, <2>5, LoadedKeeps, PassGoesOn
<1>7. CASE /\ pass' = [pass EXCEPT !.pc = "read", !.mtime = file[Current].mtime] /\ UNCHANGED cache
  <2>1. PICK m : m = file[Current].mtime
    OBVIOUS
  <2>2. m \in Nat /\ m \in Int
    BY <1>4, <2>1 DEF FileRecords
  <2>3. pass' = [pass EXCEPT !.pc = "read", !.mtime = m]
    BY <1>7, <2>1
  <2>4. /\ pass' \in Passes /\ pass'.pc = "read" /\ pass'.mtime = m /\ pass'.todo = pass.todo
        /\ pass'.got = pass.got /\ pass'.floor = pass.floor
    BY <1>2, <2>2, <2>3 DEF Passes
  <2>5. Current' = Current
    BY <2>4 DEF Current
  <2>6. PassOK'
    <3>1. pass'.todo # << >> /\ pass'.mtime <= file[Current]'.mtime
      BY <1>1, <2>1, <2>2, <2>4, <2>5
    <3>. QED  BY <1>1, <1>2, <2>4, <3>1 DEF LibraryInv, PassOK
  <2>7. LibraryTypeOK' /\ CacheOK' /\ FreshLoads'
    BY <1>1, <1>2, <1>7, <2>4 DEF LibraryInv, LibraryTypeOK, CacheOK, FreshLoads, Passes
  <2>. QED  BY <2>6, <2>7 DEF LibraryInv
<1>. QED  BY <1>5, <1>6, <1>7 DEF _parse_cached

\* The read of a file, which a later edit may have changed since the stat.
LEMMA ReadStep == ASSUME LibraryInv, load_agent_file PROVE LibraryInv'
<1>1. /\ pass.pc = "read" /\ pass.pc # "none" /\ UNCHANGED <<kind, file, time>>
  BY DEF load_agent_file
<1>2. /\ pass \in Passes /\ file \in [TheFiles -> FileRecords] /\ cache \in [TheFiles -> CacheRecords]
      /\ TheFiles' = TheFiles /\ CacheOK /\ pass.mtime \in Int
  BY <1>1 DEF LibraryInv, LibraryTypeOK, TheFiles, Passes
<1>3. pass.todo # << >> /\ pass.mtime <= file[Current].mtime
  BY <1>1 DEF LibraryInv, PassOK
<1>4. Current \in TheFiles
  BY <1>1, <1>3, CurrentIsFile
<1>5. /\ pass.floor[Current] \in Nat /\ pass.floor[Current] <= file[Current].first
      /\ file[Current] \in FileRecords /\ file[Current].first <= file[Current].v
  BY <1>1, <1>2, <1>4 DEF LibraryInv, PassOK, CacheOK
<1>6. CASE ~CanLoad(Current) /\ cache' = [cache EXCEPT ![Current] = NotCached] /\ Loaded(NotLoaded)
  <2>1. NotCached \in CacheRecords /\ NotCached.mtime = -1 /\ NotLoaded \in Entries /\ NotLoaded.v = 0
    BY DEF NotCached, CacheRecords, NotLoaded, Entries
  <2>2. NotCached.mtime <= file[Current].mtime /\ NotCached.mtime # file[Current].mtime
    BY <1>5, <2>1 DEF FileRecords
  <2>3. cache' \in [TheFiles -> CacheRecords] /\ CacheOK'
    BY <1>1, <1>4, <1>6, <2>1, <2>2, CacheKeeps
  <2>4. NotLoaded.v > 0 => NotLoaded.v >= pass.floor[Current]
    BY <2>1
  <2>. QED  BY <1>1, <1>3, <1>6, <2>1, <2>3, <2>4, LoadedKeeps, PassGoesOn
<1>7. CASE /\ cache' = [cache EXCEPT ![Current] = [mtime |-> pass.mtime, v |-> file[Current].v,
                                                  name |-> file[Current].name]]
           /\ Loaded([v |-> file[Current].v, name |-> file[Current].name])
  <2>1. PICK entry : entry = [v |-> file[Current].v, name |-> file[Current].name]
    OBVIOUS
  <2>2. PICK row : row = [mtime |-> pass.mtime, v |-> file[Current].v, name |-> file[Current].name]
    OBVIOUS
  <2>3. entry \in Entries /\ entry.v = file[Current].v /\ entry.v \in Nat
    BY <1>5, <2>1 DEF FileRecords, Entries
  <2>4. row \in CacheRecords /\ row.mtime = pass.mtime /\ row.v = file[Current].v
    BY <1>2, <1>5, <2>2 DEF FileRecords, CacheRecords
  <2>5. entry.v >= pass.floor[Current]
    BY <1>5, <2>3 DEF FileRecords
  <2>6. row.mtime <= file[Current].mtime /\ row.v >= file[Current].first
    BY <1>3, <1>5, <2>4 DEF FileRecords
  <2>7. cache' \in [TheFiles -> CacheRecords] /\ CacheOK'
    BY <1>1, <1>4, <1>7, <2>2, <2>4, <2>6, CacheKeeps
  <2>. QED  BY <1>1, <1>3, <1>7, <2>1, <2>3, <2>5, <2>7, LoadedKeeps, PassGoesOn
<1>. QED  BY <1>6, <1>7 DEF load_agent_file

\* The registry is built, and the pass is over.
LEMMA PassEnds == ASSUME LibraryInv, build_registry PROVE LibraryInv'
<1>1. pass' = AtRestPass /\ UNCHANGED <<kind, file, cache, time>> /\ TheFiles' = TheFiles
  BY DEF build_registry, TheFiles
<1>2. AtRestPass \in Passes /\ AtRestPass.pc = "none"
  BY DEF AtRestPass, Passes
<1>. QED  BY <1>1, <1>2 DEF LibraryInv, LibraryTypeOK, CacheOK, PassOK, FreshLoads, Passes

\* The file of decisions is replaced as a whole, and forgotten.
LEMMA ReplacedStep == ASSUME LibraryInv, NEW w \in Writers, _atomic_write(w) PROVE LibraryInv'
<1>1. /\ Replace("decisions.md", "x", TRUE, TRUE) /\ UNCHANGED <<kind, time, pass>>
      /\ cache' = [cache EXCEPT !["decisions.md"] = NotCached] /\ "x" \in AgentNames
  BY DEF _atomic_write, AgentNames
<1>. QED  BY <1>1, ReplaceKeeps

\* The other steps of the writers, and a stutter.
LEMMA OtherLibrarySteps ==
    ASSUME LibraryInv, UNCHANGED <<kind, file, cache, pass, time>>
    PROVE  LibraryInv'
BY DEF LibraryInv, LibraryTypeOK, CacheOK, PassOK, FreshLoads, TheFiles, Passes, Current

LEMMA LibrarySteps == ASSUME LibraryInv, [LibraryNext]_libraryVars PROVE LibraryInv'
<1>1. CASE \E w \in Writers, title \in Titles : append_decision(w, title)
  BY <1>1, OtherLibrarySteps DEF append_decision
<1>2. CASE \E w \in Writers : WriteFails(w)
  BY <1>2, OtherLibrarySteps DEF WriteFails
<1>3. CASE UNCHANGED libraryVars
  BY <1>3, OtherLibrarySteps DEF libraryVars
<1>. QED  BY <1>1, <1>2, <1>3, EditFileStep, TimePassesStep, PassStarts, StatStep, ReadStep, PassEnds,
             ReplacedStep DEF LibraryNext

\* FreshLoads: a pass over the agents, the packs or the memory never takes a file
\* as it was before the edits that its modification time shows
\* (core/agents/discovery.py, core/skills, core/memory).
THEOREM PassesAreFresh == LibrarySpec => []FreshLoads
<1>1. LibraryInv => FreshLoads
  BY DEF LibraryInv
<1>. QED  BY <1>1, LibraryStart, LibrarySteps, PTL DEF LibrarySpec

-----------------------------------------------------------------------------
(* Verification by execution: nothing touches the code between the check    *)
(* that passes and the end of the loop.                                     *)

LoopStates == [kind : Kinds, pc : {"check", "parse", "fix", "over"}, iteration : Int, rc : Int,
               seen : Int, outcome : {"none", "denied", "passed", "needs_user_input"}]
VerifyTypeOK ==
    /\ code \in Nat
    /\ artefact \in [of : Int, good : BOOLEAN]
    /\ verify \in LoopStates

\* Every iteration but the first follows one fix, there are no more of them than
\* allowed, and what a finished check has seen is the code.
InLoop ==
    /\ verify.pc # "over" => /\ verify.outcome = "none"
                             /\ verify.iteration = code + 1 /\ verify.iteration <= MaxIterations
    /\ verify.pc = "parse" => verify.seen = code
    /\ verify.pc = "fix" => verify.iteration < MaxIterations

VerifyInv == VerifyTypeOK /\ InLoop /\ PassedAsLeft

\* The loop starts before its first check.
LEMMA VerifyStart == VerifyInit => VerifyInv
<1> SUFFICES ASSUME VerifyInit PROVE VerifyInv
    OBVIOUS
<1>1. PICK k \in Kinds : verify = [kind |-> k, pc |-> "check", iteration |-> 1, rc |-> -1,
                                     seen |-> -1, outcome |-> "none"]
  BY DEF VerifyInit
<1>2. code = 0 /\ artefact \in [of : Int, good : BOOLEAN]
  <2>1. [of |-> -1, good |-> FALSE] \in [of : Int, good : BOOLEAN]
    OBVIOUS
  <2>2. [of |-> 0, good |-> TRUE] \in [of : Int, good : BOOLEAN]
    OBVIOUS
  <2>3. QED
    BY <2>1, <2>2, Zenon DEF VerifyInit, NoArtefact
<1>3. VerifyTypeOK
  BY <1>1, <1>2 DEF VerifyTypeOK, LoopStates
<1>4. verify.pc = "check" /\ verify.iteration = 1 /\ verify.outcome = "none"
  BY <1>1
<1>5. 0 < MaxIterations
  BY VerifyAssumption
<1>6. InLoop /\ PassedAsLeft
  BY <1>2, <1>4, <1>5, VerifyAssumption DEF InLoop, PassedAsLeft
<1>7. QED
  BY <1>3, <1>6 DEF VerifyInv

\* Running a check, reading it and fixing keep VerifyInv.
LEMMA VerifySteps == VerifyInv /\ [VerifyNext]_verifyVars => VerifyInv'
<1> SUFFICES ASSUME VerifyInv, [VerifyNext]_verifyVars PROVE VerifyInv'
    OBVIOUS
<1> USE VerifyAssumption DEF VerifyInv, VerifyTypeOK, LoopStates, InLoop, PassedAsLeft
<1>1. CASE CheckDenied
  BY <1>1 DEF CheckDenied
<1>2. CASE run_check
  <2>1. PICK rc \in {0, 1}, written \in {NoArtefact} \cup [of : {verify.iteration}, good : BOOLEAN] :
            /\ artefact' = IF written = NoArtefact THEN artefact ELSE written
            /\ verify' = [verify EXCEPT !.pc = "parse", !.rc = rc, !.seen = code]
    BY <1>2 DEF run_check
  <2>2. artefact' \in [of : Int, good : BOOLEAN]
    BY <2>1 DEF NoArtefact
  <2>3. code' = code /\ verify.pc = "check"
    BY <1>2 DEF run_check
  <2>4. VerifyTypeOK'
    <3>1. rc \in Int /\ code \in Int
      OBVIOUS
    <3>2. verify' \in LoopStates
      BY <2>1, <3>1
    <3>3. QED
      BY <2>2, <2>3, <3>2
  <2>5. verify'.pc = "parse" /\ verify'.seen = code /\ verify'.iteration = verify.iteration
        /\ verify'.outcome = verify.outcome
    BY <2>1
  <2>6. InLoop'
    BY <2>3, <2>4, <2>5
  <2>7. PassedAsLeft'
    BY <2>3, <2>4, <2>5
  <2>8. QED
    BY <2>4, <2>6, <2>7
<1>3. CASE CheckRead
  <2>1. UNCHANGED <<code, artefact>> /\ verify.pc = "parse"
    BY <1>3 DEF CheckRead
  <2>2. CASE Passed
    <3>1. verify.rc = 0
      BY <2>2 DEF Passed, parse_dlt_run, parse_dbt_run, dbt_run_result_to_check_result,
                  parse_pipeline_validate, Kinds
    <3>2. verify' = [verify EXCEPT !.pc = "over", !.outcome = "passed"]
      BY <1>3, <2>2 DEF CheckRead, VerifyOver
    <3>3. QED
      BY <2>1, <3>1, <3>2
  <2>3. CASE ~Passed /\ verify.iteration >= MaxIterations
    <3>1. verify' = [verify EXCEPT !.pc = "over", !.outcome = "needs_user_input"]
      BY <1>3, <2>3 DEF CheckRead, VerifyOver
    <3>2. QED
      BY <2>1, <3>1
  <2>4. CASE ~Passed /\ ~(verify.iteration >= MaxIterations)
    <3>1. verify' = [verify EXCEPT !.pc = "fix"]
      BY <1>3, <2>4 DEF CheckRead
    <3>2. QED
      BY <2>1, <2>4, <3>1
  <2>5. QED
    BY <2>2, <2>3, <2>4
<1>4. CASE fix
  <2>1. PICK attempted \in BOOLEAN :
            /\ code' = IF attempted THEN code + 1 ELSE code
            /\ verify' = IF attempted THEN [verify EXCEPT !.pc = "check", !.iteration = @ + 1]
                         ELSE [verify EXCEPT !.pc = "over", !.outcome = "needs_user_input"]
    BY <1>4 DEF fix, VerifyOver
  <2>2. UNCHANGED artefact /\ verify.pc = "fix"
    BY <1>4 DEF fix
  <2>3. CASE attempted
    <3>1. code' = code + 1 /\ verify' = [verify EXCEPT !.pc = "check", !.iteration = @ + 1]
      BY <2>1, <2>3
    <3>2. VerifyTypeOK'
      <4>1. verify.iteration + 1 \in Int /\ code + 1 \in Nat
        OBVIOUS
      <4>2. verify' \in LoopStates
        BY <3>1, <4>1
      <4>3. QED
        BY <2>2, <3>1, <4>1, <4>2
    <3>3. verify'.pc = "check" /\ verify'.iteration = verify.iteration + 1 /\ verify'.outcome = verify.outcome
      BY <3>1
    <3>4. InLoop'
      BY <2>2, <3>1, <3>2, <3>3
    <3>5. PassedAsLeft'
      BY <2>2, <3>1, <3>2, <3>3
    <3>6. QED
      BY <3>2, <3>4, <3>5
  <2>4. CASE ~attempted
    BY <2>1, <2>2, <2>4
  <2>5. QED
    BY <2>3, <2>4
<1>5. CASE UNCHANGED verifyVars
  BY <1>5 DEF verifyVars
<1>6. QED
  BY <1>1, <1>2, <1>3, <1>4, <1>5 DEF VerifyNext

\* A verification loop says passed only of the code as it was left.
THEOREM PassIsOfTheCode == VerifySpec => []PassedAsLeft
<1>1. VerifyInv => PassedAsLeft
  BY DEF VerifyInv
<1>2. QED
  BY VerifyStart, VerifySteps, <1>1, PTL DEF VerifySpec

=============================================================================
