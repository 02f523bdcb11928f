------------------------------ MODULE MCAgents ------------------------------
(***************************************************************************)
(* Instances of Authoring, AgentLoop, Library, Verification and Telemetry. *)
(* They share no state, so a behaviour is one of either: the others stay   *)
(* as they began, in one of their initial states.                          *)
(***************************************************************************)
EXTENDS Authoring, AgentLoop, Library, Verification, Telemetry

CONSTANTS c1, c2

VARIABLE scene

MCProcs == {c1, c2}
MCSymmetry == Permutations(MCProcs)
MCSubGoals == {<<"dlt">>}

Hook(on, tool, run) == [on |-> on, tool |-> tool, run |-> run]
MCHookFiles ==
    {<< >>, <<Hook("pre_tool", "edit", "git_status"), Hook("post_tool", "any", "git_add")>>}

NoLoop == /\ loop.parent = "plan" /\ loop.capability = "plan"
          /\ loop.hooks = << >> /\ loop.grant = _ALL_TOOLS
NoLibrary == kind = "memory"
NoVerification == artefact = NoArtefact /\ verify.kind = "dlt"

MCInit ==
    /\ AuthoringInit /\ LoopInit /\ LibraryInit /\ VerifyInit /\ TelemetryInit
    /\ scene \in {"authoring", "loop", "library", "verification", "telemetry"}
    /\ scene # "loop" => NoLoop
    /\ scene # "library" => NoLibrary
    /\ scene # "verification" => NoVerification
MCNext ==
    /\ UNCHANGED scene
    /\ \/ scene = "authoring" /\ AuthoringNext /\ UNCHANGED <<loopVars, libraryVars, verifyVars, telemetryVars>>
       \/ scene = "loop" /\ LoopNext /\ UNCHANGED <<authoringVars, libraryVars, verifyVars, telemetryVars>>
       \/ scene = "library" /\ LibraryNext /\ UNCHANGED <<authoringVars, loopVars, verifyVars, telemetryVars>>
       \/ scene = "verification" /\ VerifyNext /\ UNCHANGED <<authoringVars, loopVars, libraryVars, telemetryVars>>
       \/ scene = "telemetry" /\ TelemetryNext
          /\ UNCHANGED <<authoringVars, loopVars, libraryVars, verifyVars>>
MCSpec == MCInit /\ [][MCNext]_<<scene, authoringVars, loopVars, libraryVars, verifyVars, telemetryVars>>
=============================================================================
