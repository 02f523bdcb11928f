---------------------------- MODULE Verification ----------------------------
(***************************************************************************)
(* Verification by execution: the bounded loop run, read, fix              *)
(* (core/agents/verification.py, and core/dbt_execution/verify_bridge.py   *)
(* over a backend), with what each kind of check makes of the finished     *)
(* program and of the artefacts on disk: the newest dlt load package, the  *)
(* dbt run_results.json, or the exit code of carve pipelines validate.     *)
(***************************************************************************)
EXTENDS Integers

CONSTANT MaxIterations   \* max_iterations

ASSUME VerifyAssumption == MaxIterations \in Nat \ {0}

VARIABLES
    code,      \* how many fixes the code has had
    artefact,  \* the newest package or results: which iteration wrote it, and whether it is good
    verify     \* the loop

verifyVars == <<code, artefact, verify>>

Kinds == {"dlt", "dbt", "backend", "validate"}
NoArtefact == [of |-> -1, good |-> FALSE]

VerifyInit ==
    /\ code = 0
    /\ artefact \in {NoArtefact, [of |-> 0, good |-> TRUE]}
    /\ \E kind \in Kinds :
          verify = [kind |-> kind, pc |-> "check", iteration |-> 1, rc |-> -1, seen |-> -1,
                    outcome |-> "none"]

\* The gate denies the command: CheckDenied leaves the loop.
CheckDenied ==
    /\ verify.pc = "check" /\ verify.kind # "backend"
    /\ verify' = [verify EXCEPT !.pc = "over", !.outcome = "denied"]
    /\ UNCHANGED <<code, artefact>>

\* The program runs over the code as it is; it exits 0, fails or is killed, having
\* written its artefact or not.  dbt exits 0 only with good results.
run_check ==
    /\ verify.pc = "check"
    /\ \E rc \in {0, 1}, written \in {NoArtefact} \cup [of : {verify.iteration}, good : BOOLEAN] :
          /\ verify.kind \in {"dbt", "backend"} => (rc = 0 => written.good)
          /\ verify.kind = "validate" => written = NoArtefact
          /\ artefact' = IF written = NoArtefact THEN artefact ELSE written
          /\ verify' = [verify EXCEPT !.pc = "parse", !.rc = rc, !.seen = code]
    /\ UNCHANGED code

parse_dlt_run == verify.rc = 0 /\ artefact # NoArtefact /\ artefact.good
parse_dbt_run == verify.rc = 0 /\ artefact # NoArtefact /\ artefact.good
dbt_run_result_to_check_result == artefact # NoArtefact /\ artefact.good /\ verify.rc = 0
parse_pipeline_validate == verify.rc = 0
Passed == CASE verify.kind = "dlt"      -> parse_dlt_run
            [] verify.kind = "dbt"      -> parse_dbt_run
            [] verify.kind = "backend"  -> dbt_run_result_to_check_result
            [] verify.kind = "validate" -> parse_pipeline_validate

VerifyOver(outcome) == [verify EXCEPT !.pc = "over", !.outcome = outcome]

CheckRead ==
    /\ verify.pc = "parse"
    /\ verify' = CASE Passed -> VerifyOver("passed")
                   [] ~Passed /\ verify.iteration >= MaxIterations -> VerifyOver("needs_user_input")
                   [] OTHER -> [verify EXCEPT !.pc = "fix"]
    /\ UNCHANGED <<code, artefact>>

\* Mutant: the fix before the last check is believed.
fix_believed ==
    /\ verify.pc = "fix"
    /\ \E attempted \in BOOLEAN :
          /\ code' = IF attempted THEN code + 1 ELSE code
          /\ verify' = CASE ~attempted -> VerifyOver("needs_user_input")
                         [] attempted /\ verify.iteration + 1 >= MaxIterations -> VerifyOver("passed")
                         [] OTHER -> [verify EXCEPT !.pc = "check", !.iteration = @ + 1]
    /\ UNCHANGED artefact
fix ==
    /\ verify.pc = "fix"
    /\ \E attempted \in BOOLEAN :
          /\ code' = IF attempted THEN code + 1 ELSE code
          /\ verify' = IF attempted THEN [verify EXCEPT !.pc = "check", !.iteration = @ + 1]
                       ELSE VerifyOver("needs_user_input")
    /\ UNCHANGED artefact

VerifyNext == CheckDenied \/ run_check \/ CheckRead \/ fix
VerifySpec == VerifyInit /\ [][VerifyNext]_verifyVars

-----------------------------------------------------------------------------
\* What passed is what is there: the loop says passed only of the code as it was
\* left, after a program that ran over it and exited 0, within the iterations.
PassedAsLeft ==
    /\ verify.outcome = "passed" => verify.seen = code /\ verify.rc = 0
    /\ code < MaxIterations

\* "a clean exit that wrote nothing is failed, never a false green": what passed a
\* dlt check wrote its package in that run.
ObservedLoad ==
    verify.outcome = "passed" /\ verify.kind = "dlt" => artefact.of = verify.iteration
=============================================================================
