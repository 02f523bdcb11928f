------------------------------ MODULE MCStores ------------------------------
(***************************************************************************)
(* Instances for TLC of the modules about what carve keeps: ApiWrites,     *)
(* Archiver, Components, Targets and Provision, and of what its step        *)
(* executors leave behind: StepTypes.  They share no state, so a behaviour *)
(* is one of them and the others stay as they began.                       *)
(***************************************************************************)
EXTENDS ApiWrites, Archiver, Components, Targets, StepTypes, Provision, TLC

CONSTANTS a, b
VARIABLE scene

\* The steps of a wave differ in nothing but their types, which the initial states choose.
MCWaveSteps == {a, b}
MCSymmetry == Permutations(WaveSteps)

\* The default windows, [7d, 30d, 30d, 30d], with runs archived no earlier than
\* what refers to them.
MCWindow == [jobs |-> 0, step_runs |-> 1, logs |-> 1, runs |-> 1]

NoComponents == repo = ComponentNames /\ stepOf = [s \in DbtSteps |-> Omitted]
NoTargets == configDir = "carve" /\ default = "dev"

NoSteps == packages = {} /\ \A s \in WaveSteps : steps[s].type = "sql"

\* Two requests at a time while there is one token, one while there are two.
ApiBound == \/ \A t, u \in Tokens : t = u \/ "absent" \in {tokens[t].state, tokens[u].state}
            \/ \A q, r \in Slots : q = r \/ "idle" \in {req[q].pc, req[r].pc}

MCInit ==
    /\ ApiInit /\ ArchiverInit /\ ComponentsInit /\ TargetsInit /\ StepsInit
    /\ ProvisionInit
    /\ scene \in {"api", "archive", "components", "targets", "steps", "provision"}
    /\ scene # "components" => NoComponents
    /\ scene # "targets" => NoTargets
    /\ scene # "steps" => NoSteps
    /\ scene # "provision" => block.backend = "absent"
MCNext ==
    /\ UNCHANGED scene
    /\ \/ scene = "api" /\ ApiNext /\ ApiBound'
          /\ UNCHANGED <<archiverVars, componentVars, targetVars, stepVars, provisionVars>>
       \/ scene = "archive" /\ ArchiverNext
          /\ UNCHANGED <<apiVars, componentVars, targetVars, stepVars, provisionVars>>
       \/ scene = "components" /\ ComponentsNext
          /\ UNCHANGED <<apiVars, archiverVars, targetVars, stepVars, provisionVars>>
       \/ scene = "targets" /\ TargetsNext
          /\ UNCHANGED <<apiVars, archiverVars, componentVars, stepVars, provisionVars>>
       \/ scene = "steps" /\ StepsNext
          /\ UNCHANGED <<apiVars, archiverVars, componentVars, targetVars, provisionVars>>
       \/ scene = "provision" /\ ProvisionNext
          /\ UNCHANGED <<apiVars, archiverVars, componentVars, targetVars, stepVars>>
MCSpec == MCInit /\ [][MCNext]_<<scene, apiVars, archiverVars, componentVars, targetVars,
                           stepVars, provisionVars>>
=============================================================================
