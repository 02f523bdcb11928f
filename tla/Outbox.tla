------------------------------- MODULE Outbox -------------------------------
(***************************************************************************)
(* Everything carve serve tells the outside about a run: its event log,    *)
(* read at the same time by a client's stream and by the webhook publisher.*)
(***************************************************************************)
EXTENDS EventStream, Webhooks

vars == <<log, stream, overtaken, hookVars>>

Init == LogInit /\ StreamInit /\ HooksInit

Emitter ==
    /\ \/ \E k \in Kinds : BeginEmit(k) /\ UNCHANGED overtaken
       \/ \E i \in Ids : CommitEmit(i) /\ Overtakes(i)
       \/ \E i \in Ids : EmitFails(i) /\ UNCHANGED overtaken
    /\ UNCHANGED <<stream, hookVars>>

Reader == (StreamStep \/ Drop) /\ UNCHANGED hookVars
Publisher == HooksNext /\ UNCHANGED <<stream, overtaken>>

Next == Emitter \/ Reader \/ Publisher

Spec == Init /\ [][Next]_vars

\* The tail and the publisher poll, and time passes.
FairSpec ==
    /\ Spec
    /\ WF_vars(StreamStep /\ UNCHANGED hookVars)
    /\ WF_vars(PublisherStep /\ UNCHANGED <<stream, overtaken>>)
    /\ \A d \in Pairs : WF_vars(RetryDue(d) /\ UNCHANGED <<stream, overtaken>>)

\* Every variable has its type.
TypeOK == log \in [Ids -> EventRow] /\ StreamTypeOK /\ HooksTypeOK
=============================================================================
