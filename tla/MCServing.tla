------------------------------ MODULE MCServing -----------------------------
(***************************************************************************)
(* Instances of Outbox and of Serve for TLC.  The stream and the publisher *)
(* share only the log, and neither reads what the other writes, so TLC     *)
(* explores each beside the emitter, and Serve by itself: a behaviour has  *)
(* one scene, and the rest stays as it began.  The terminal event comes    *)
(* last where only the publisher reads, which tells the kinds of events    *)
(* apart by the subscriptions alone.                                       *)
(***************************************************************************)
EXTENDS Outbox, Serve, TLC

VARIABLE scene

NoSubscriber == \A h \in Hooks : hook[h].state = "absent"

MCInit ==
    /\ Init /\ ServeInit
    /\ scene \in {"stream", "publisher", "serve"}
    /\ scene = "stream" <=> stream.pc # "gone"
    /\ scene # "publisher" => NoSubscriber

In(s, A) == scene = s /\ A

EndLast == /\ Ended # {} => Issued' = Issued
           /\ Ended' # Ended => Open = {}

\* Outbox, scene by scene: the actions are those of Emitter, Reader and Publisher.
Stream(A) == In("stream", A /\ UNCHANGED hookVars)
Publish(A) == In("publisher", A /\ UNCHANGED <<stream, overtaken>>)

MCNext ==
    /\ UNCHANGED scene
    /\ \/ (Stream(Emitter) \/ Stream(Reader)) /\ UNCHANGED serveVars
       \/ (In("publisher", Emitter /\ EndLast) \/ Publish(HooksNext)) /\ UNCHANGED serveVars
       \/ In("serve", ServeNext) /\ UNCHANGED vars

\* The fairness of Outbox and of Serve, each in its scene.
MCSpec ==
    /\ MCInit /\ [][MCNext]_<<scene, vars, serveVars>>
    /\ WF_vars(Stream(StreamStep))
    /\ WF_vars(Publish(PublisherStep))
    /\ \A d \in Pairs : WF_vars(Publish(RetryDue(d)))
    /\ WF_serveVars(In("serve", PoolTask))
    /\ WF_serveVars(In("serve", GraceExpires))
    /\ \A w \in PoolWorkers : /\ WF_serveVars(In("serve", WorkerTask(w)))
                              /\ WF_serveVars(In("serve", Claimed(w)))

=============================================================================
