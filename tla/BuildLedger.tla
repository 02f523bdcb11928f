---------------------------- MODULE BuildLedger -----------------------------
(***************************************************************************)
(* What the build history promises, whoever builds and whatever fails:     *)
(* Builds are only ever added, a pipeline's current Build is one of its    *)
(* own, and a plan is built only once a Build of it exists, for good.      *)
(***************************************************************************)
EXTENDS Naturals, Sequences

CONSTANTS LedgerPlans, LedgerPipelines

VARIABLES
    made,       \* the Builds, oldest first: which plan, for which pipeline
    current,    \* the current Build of each pipeline, 0 for none
    built       \* the plans in phase built

ledger == <<made, current, built>>

LedgerInit == made = << >> /\ current = [n \in LedgerPipelines |-> 0] /\ built = {}

Make == /\ \E k \in LedgerPlans, n \in LedgerPipelines :
              made' = Append(made, [plan |-> k, pipeline |-> n])
        /\ UNCHANGED <<current, built>>

Promote == /\ \E b \in DOMAIN made : current' = [current EXCEPT ![made[b].pipeline] = b]
           /\ UNCHANGED <<made, built>>

Settle == /\ \E b \in DOMAIN made : built' = built \cup {made[b].plan}
          /\ UNCHANGED <<made, current>>

LedgerNext == Make \/ Promote \/ Settle
LedgerSpec == LedgerInit /\ [][LedgerNext]_ledger
=============================================================================
