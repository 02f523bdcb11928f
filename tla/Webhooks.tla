------------------------------ MODULE Webhooks ------------------------------
(***************************************************************************)
(* Webhook subscribers, the ledger of their deliveries                     *)
(* (core/state/webhooks.py) and the publisher of carve serve that fans     *)
(* events out and posts them (api/webhooks.py).  A step of the publisher   *)
(* is one await.  The content of a delivery and its signature are left     *)
(* out; next_retry_at is only whether it has passed.                       *)
(***************************************************************************)
EXTENDS EventLog

CONSTANTS
    Hooks,         \* webhook ids
    MaxRetries,    \* length of RETRY_SCHEDULE_S
    FanOutBatch,   \* batch of enqueue_for_new_events
    DueBatch,      \* batch of pending_or_due_for_retry
    MaxTrouble     \* bound on router calls, refused addresses and passes cut short

ASSUME BatchAssumption == FanOutBatch \in Nat \ {0} /\ DueBatch \in Nat \ {0}
ASSUME HookBounds == MaxRetries \in Nat /\ MaxTrouble \in Nat

VARIABLES
    hook,       \* the row of each webhook
    ledger,     \* webhook_deliveries, by webhook and event
    pub,        \* the publisher's pass
    acked,      \* deliveries their subscriber answered with 2xx
    posts,      \* how many times each was posted
    touched,    \* webhooks changed, or refused by the guard on their address
    latePosts,  \* posts to a webhook since it was last switched off, up to 2
    updates, passFails

hookVars == <<hook, ledger, pub, acked, posts, touched, latePosts, updates, passFails>>
counts == <<acked, posts, touched, latePosts, updates, passFails>>

HookRow == [state : {"absent", "active", "inactive", "deleted"},
            wants : {{"end"}, Kinds}]
Exists(h) == hook[h].state \in {"active", "inactive"}

Pairs == Hooks \X Ids
NoDelivery == [status |-> "none", retry |-> 0, due |-> FALSE]
NewDelivery == [status |-> "pending", retry |-> 0, due |-> TRUE]
Delivery == [status : {"none", "pending", "delivered", "abandoned"},
             retry : 0..MaxRetries, due : BOOLEAN]

IdlePub == [pc |-> "idle", events |-> {}, targets |-> {}, due |-> {}, cur |-> << >>]

HooksInit ==
    /\ hook \in [Hooks -> {[state |-> "absent", wants |-> {"end"}],
                           [state |-> "active", wants |-> Kinds]}]
    /\ ledger = [d \in Pairs |-> NoDelivery]
    /\ pub = IdlePub
    /\ acked = {} /\ touched = {}
    /\ posts = [d \in Pairs |-> 0]
    /\ latePosts = [h \in Hooks |-> 0]
    /\ updates = 0 /\ passFails = 0

-----------------------------------------------------------------------------
(* The webhooks router.                                                    *)

SetHook(h, row) ==
    /\ updates + passFails < MaxTrouble
    /\ updates' = updates + 1
    /\ hook' = [hook EXCEPT ![h] = row]
    /\ touched' = touched \cup {h}
    /\ latePosts' = [latePosts EXCEPT ![h] = 0]
    /\ UNCHANGED <<log, ledger, pub, acked, posts, passFails>>

create(h) ==
    /\ hook[h].state = "absent"
    /\ \E f \in {{"end"}, Kinds} : SetHook(h, [state |-> "active", wants |-> f])

update(h) ==
    /\ Exists(h)
    /\ \E row \in HookRow : row.state \in {"active", "inactive"} /\ SetHook(h, row)

\* The foreign key of webhook_deliveries refuses the DELETE of a webhook that
\* ever had a delivery.
delete(h) ==
    /\ Exists(h)
    /\ \A i \in Ids : ledger[<<h, i>>].status = "none"
    /\ SetHook(h, [hook[h] EXCEPT !.state = "deleted"])

-----------------------------------------------------------------------------
(* _drain_once: the fan-out.                                               *)

_matches(h, i) == log[i].kind \in hook[h].wants

\* Mutant: a cursor instead of the processed_at column.
Unprocessed_cursor ==
    {i \in Committed : \A j \in Committed : log[j].stamp # 0 => j < i}
Unprocessed == {i \in Committed : log[i].stamp = 0}

NextStamp == Cardinality({log[i].stamp : i \in Ids})

\* The SELECTs of enqueue_for_new_events.
FanOutRead ==
    /\ pub.pc = "idle"
    /\ LET E == Page(Unprocessed, FanOutBatch)
       IN  pub' = [pub EXCEPT
                     !.pc = IF E = {} THEN "list" ELSE "fanout",
                     !.events = E,
                     !.targets = {d \in Pairs : /\ hook[d[1]].state = "active"
                                                /\ d[2] \in E
                                                /\ _matches(d[1], d[2])}]
    /\ UNCHANGED <<log, hook, ledger, counts>>

\* Its INSERTs and the COMMIT, refused when a webhook was deleted meanwhile.
FanOutCommit ==
    /\ pub.pc = "fanout"
    /\ \A d \in pub.targets : Exists(d[1])
    /\ log' = [i \in Ids |-> IF i \in pub.events THEN [log[i] EXCEPT !.stamp = NextStamp]
                                                 ELSE log[i]]
    /\ ledger' = [d \in Pairs |-> IF d \in pub.targets THEN NewDelivery ELSE ledger[d]]
    /\ pub' = [IdlePub EXCEPT !.pc = "list"]
    /\ UNCHANGED <<hook, counts>>

FanOutRefused ==
    /\ pub.pc = "fanout"
    /\ \E d \in pub.targets : ~Exists(d[1])
    /\ pub' = IdlePub
    /\ UNCHANGED <<log, hook, ledger, counts>>

-----------------------------------------------------------------------------
(* _drain_once: the deliveries.                                            *)

DueNow == {d \in Pairs : ledger[d].status = "pending" /\ ledger[d].due}
Older(d, e) == log[d[2]].stamp <= log[e[2]].stamp

pending_or_due_for_retry ==
    /\ pub.pc = "list"
    /\ \E D \in SUBSET DueNow :
          /\ Cardinality(D) = IF Cardinality(DueNow) < DueBatch THEN Cardinality(DueNow)
                                                                ELSE DueBatch
          /\ \A d \in D, e \in DueNow \ D : Older(d, e)
          /\ pub' = [pub EXCEPT !.pc = IF D = {} THEN "idle" ELSE "next", !.due = D]
    /\ UNCHANGED <<log, hook, ledger, counts>>

\* attempt_delivery takes the next delivery of the list, with the retry_count it
\* was listed with.
Take(d, pc) ==
    /\ pub.pc = "next"
    /\ d \in pub.due
    /\ \A e \in pub.due : Older(d, e)
    /\ pub' = [pub EXCEPT !.pc = pc, !.due = @ \ {d}, !.cur = <<d, ledger[d].retry>>]

\* Mutant: the webhook is not read again.
Lookup_trusts_the_list ==
    /\ \E d \in pub.due : Take(d, "post")
    /\ UNCHANGED <<log, hook, ledger, counts>>
\* The webhook is read again: a disabled one is given up.
Lookup ==
    /\ \E d \in pub.due : Take(d, IF hook[d[1]].state = "active" THEN "post" ELSE "abandon")
    /\ UNCHANGED <<log, hook, ledger, counts>>

\* assert_safe_webhook_url refuses an active webhook: a blocked address, or a
\* name that does not resolve at the moment.
Blocked ==
    /\ updates + passFails < MaxTrouble
    /\ updates' = updates + 1
    /\ \E d \in pub.due :
          /\ hook[d[1]].state = "active"
          /\ Take(d, "abandon")
          /\ touched' = touched \cup {d[1]}
    /\ UNCHANGED <<log, hook, ledger, acked, posts, latePosts, passFails>>

Continue == pub' = [pub EXCEPT !.pc = IF pub.due = {} THEN "idle" ELSE "next", !.cur = << >>]

\* The subscriber answers 2xx, or something else, or not at all.
Post ==
    /\ pub.pc = "post"
    /\ LET d == pub.cur[1]
       IN  \E ok \in BOOLEAN :
             /\ acked' = IF ok THEN acked \cup {d} ELSE acked
             /\ posts' = [posts EXCEPT ![d] = @ + 1]
             /\ latePosts' = [latePosts EXCEPT ![d[1]] =
                                IF hook[d[1]].state # "active" /\ @ < 2 THEN @ + 1 ELSE @]
             /\ pub' = [pub EXCEPT !.pc = IF ok THEN "delivered" ELSE "failed"]
    /\ UNCHANGED <<log, hook, ledger, touched, updates, passFails>>

Finish(status) ==
    /\ ledger' = [ledger EXCEPT ![pub.cur[1]].status = status, ![pub.cur[1]].due = FALSE]
    /\ Continue
    /\ UNCHANGED <<log, hook, counts>>

mark_delivered == pub.pc = "delivered" /\ Finish("delivered")

\* _next_delay_s(retry_count) is not None.
HasDelay(n) == n < MaxRetries

mark_abandoned ==
    /\ pub.pc = "abandon" \/ (pub.pc = "failed" /\ ~HasDelay(pub.cur[2]))
    /\ Finish("abandoned")

mark_retry ==
    /\ pub.pc = "failed"
    /\ HasDelay(pub.cur[2])
    /\ ledger' = [ledger EXCEPT ![pub.cur[1]] =
                    [status |-> "pending", retry |-> pub.cur[2] + 1, due |-> FALSE]]
    /\ Continue
    /\ UNCHANGED <<log, hook, counts>>

RetryDue(d) ==
    /\ ledger[d].status = "pending"
    /\ ~ledger[d].due
    /\ ledger' = [ledger EXCEPT ![d].due = TRUE]
    /\ UNCHANGED <<log, hook, pub, counts>>

\* A statement raises and the loop goes on, or serve dies and starts again.
PassFails ==
    /\ pub.pc # "idle"
    /\ updates + passFails < MaxTrouble
    /\ passFails' = passFails + 1
    /\ pub' = IdlePub
    /\ UNCHANGED <<log, hook, ledger, acked, posts, touched, latePosts, updates>>

PublisherStep ==
    \/ FanOutRead \/ FanOutCommit \/ FanOutRefused
    \/ pending_or_due_for_retry \/ Lookup \/ Blocked \/ Post
    \/ mark_delivered \/ mark_abandoned \/ mark_retry

RouterStep == \E h \in Hooks : create(h) \/ update(h) \/ delete(h)

HooksNext == PublisherStep \/ RouterStep \/ PassFails \/ \E d \in Pairs : RetryDue(d)

-----------------------------------------------------------------------------
HooksTypeOK ==
    /\ hook \in [Hooks -> HookRow]
    /\ ledger \in [Pairs -> Delivery]
    /\ acked \subseteq Pairs
    /\ posts \in [Pairs -> Nat]
    /\ touched \subseteq Hooks
    /\ latePosts \in [Hooks -> 0..2]

\* A subscriber that never changed and whose address was never refused.
Steady(h) == h \notin touched /\ hook[h].state = "active"

\* Every event that was processed has a delivery for every steady subscriber,
\* and only a committed event has one, whatever order the events committed in
\* and wherever a pass was cut short.
FannedOut ==
    /\ \A i \in Ids, h \in Hooks :
          Steady(h) /\ log[i].stamp # 0 => ledger[<<h, i>>].status # "none"
    /\ \A d \in Pairs : ledger[d].status # "none" => d[2] \in Committed /\ log[d[2]].stamp # 0

\* A delivery marked delivered was acknowledged.  One to a steady
\* subscriber is abandoned only after the whole retry schedule, one post more
\* than it has delays; and no delivery gets more posts than that unless a pass
\* was cut short.
FullSchedule ==
    \A d \in Pairs :
        /\ ledger[d].status = "delivered" => d \in acked
        /\ ledger[d].status = "abandoned" /\ Steady(d[1])
              => posts[d] > MaxRetries
        /\ passFails = 0 => posts[d] <= MaxRetries + 1

\* Of a subscriber that is switched off, at most the post under way still comes.
OnePostAfterDisable == \A h \in Hooks : latePosts[h] <= 1

\* What the outbox does for a subscriber: FannedOut, FullSchedule and
\* OnePostAfterDisable.
DeliveriesKept == FannedOut /\ FullSchedule /\ OnePostAfterDisable

\* Every event committed while a steady subscriber listens is in the end
\* delivered to it or given up, although passes are cut short and subscribers
\* come, go and fail.
Settles ==
    \A d \in Pairs :
        d[2] \in Committed ~> (ledger[d].status \in {"delivered", "abandoned"} \/ ~Steady(d[1]))
=============================================================================
