----------------------------- MODULE ElCommands -----------------------------
(***************************************************************************)
(* The two long commands of the carve el group at a terminal: a terminal   *)
(* runs carve el run or carve el deploy, and both use the recovery agent.  *)
(***************************************************************************)
EXTENDS ElRun, Deploy

NoRun == /\ VenvInit /\ venv = "absent"
         /\ script = "missing" /\ fresh = TRUE
         /\ watch = [on |-> FALSE, timer |-> FALSE, trigger |-> FALSE]
         /\ lastRun = [run |-> 0, status |-> "none"]
         /\ cmd = [Command(FALSE, FALSE) EXCEPT !.pc = "returned"]
         /\ edits = 0
NoDeploy == /\ ddl = Absent /\ dirty = FALSE /\ wh = [d \in Deploys |-> {}]
            /\ dep = [d \in Deploys |-> [NewDeploy(FALSE, FALSE, FALSE) EXCEPT !.pc = "refused"]]
            /\ drun = << >> /\ dlast = [run |-> 0, status |-> "none"]
            /\ agentSteps = MaxAgentSteps

ElInit == (ElRunInit /\ NoDeploy) \/ (NoRun /\ DeployInit)
ElNext == \/ ElRunNext /\ UNCHANGED deployVars
          \/ DeployNext /\ UNCHANGED elVars
ElSpec == ElInit /\ [][ElNext]_<<elVars, deployVars>>
=============================================================================
