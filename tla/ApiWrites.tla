----------------------------- MODULE ApiWrites ------------------------------
(***************************************************************************)
(* A write request to carve serve: the bearer token (api/auth.py and       *)
(* core/state/tokens.py), the Idempotency-Key cache (api/idempotency.py    *)
(* and core/state/idempotency.py), the router's handler and the problem    *)
(* handlers (api/errors.py), with clients that retry, lost answers, a      *)
(* server that dies and the default token minted when it starts.           *)
(*                                                                         *)
(* Every await of the two middlewares is a step of its own.  A request is  *)
(* its operation, and an answer is the request that earned it.             *)
(***************************************************************************)
EXTENDS Integers, FiniteSets

CONSTANTS
    Slots,       \* requests in flight
    Tokens,      \* the tokens that can be minted
    MaxApiTrouble   \* bound on crashes and on cache writes that raise

VARIABLES
    server,   \* whether carve serve is up
    tokens,   \* the tokens table
    file,     \* .carve/token
    cache,    \* the idempotency_keys row of the one key: who stored what, for how long
    queued,   \* whether the pipeline has a queued job
    req,      \* the requests
    settled,  \* requests answered and cached, within the row's time to live
    trouble

apiVars == <<server, tokens, file, cache, queued, req, settled, trouble>>

Ops == {"plan_create", "run_pipeline", "mint_token", "revoke_token"}
NoToken == "none"
NoRow == [state |-> "none"]
Idle == [pc |-> "idle"]

Active(t) == t # NoToken /\ tokens[t].state = "active"
Fresh(t) == t # NoToken /\ tokens[t].state = "absent"
Create(t, default) == [tokens EXCEPT ![t] = [state |-> "active", default |-> default]]

ApiInit ==
    /\ server = "down"
    /\ tokens = [t \in Tokens |-> [state |-> "absent", default |-> FALSE]]
    /\ file = NoToken
    /\ cache = NoRow
    /\ queued = FALSE
    /\ req = [s \in Slots |-> Idle]
    /\ settled = {}
    /\ trouble = 0

ApiTrouble == trouble < MaxApiTrouble /\ trouble' = trouble + 1

-----------------------------------------------------------------------------
(* The server and its default token.                                       *)

has_active_default == \E t \in Tokens : Active(t) /\ tokens[t].default

\* The row is committed before the file is written: a crash in between leaves
\* an active default token that nobody can read.
ensure_default_token ==
    /\ server = "down"
    /\ \/ /\ has_active_default
          /\ server' = "up"
          /\ UNCHANGED <<tokens, file, trouble>>
       \/ /\ ~has_active_default
          /\ \E t \in Tokens :
                /\ Fresh(t)
                /\ tokens' = Create(t, TRUE)
                /\ \/ file' = t /\ server' = "up" /\ UNCHANGED trouble
                   \/ ApiTrouble /\ UNCHANGED <<file, server>>
    /\ UNCHANGED <<cache, queued, req, settled>>

\* Every request in flight is lost, the effects that committed stay.
Crash ==
    /\ server = "up"
    /\ ApiTrouble
    /\ server' = "down"
    /\ req' = [s \in Slots |-> Idle]
    /\ UNCHANGED <<tokens, file, cache, queued, settled>>

rotate_token ==
    /\ server = "up"
    /\ \E t \in Tokens : Fresh(t) /\ tokens' = Create(t, FALSE) /\ file' = t
    /\ UNCHANGED <<server, cache, queued, req, settled, trouble>>

-----------------------------------------------------------------------------
(* AuthMiddleware.dispatch, then IdempotencyMiddleware.dispatch.           *)

Step(s, pc) == req' = [req EXCEPT ![s].pc = pc]
Answered(s) == req' = [req EXCEPT ![s] = Idle]

\* A client sends, with a token and with or without the key.
SendRequest(s) ==
    /\ server = "up"
    /\ req[s].pc = "idle"
    /\ \E op \in Ops, t \in Tokens, keyed \in BOOLEAN :
          /\ tokens[t].state # "absent"
          /\ req' = [req EXCEPT ![s] = [pc |-> "auth", op |-> op, token |-> t, keyed |-> keyed,
                                        late |-> keyed /\ op \in settled, answer |-> "none"]]
    /\ UNCHANGED <<server, tokens, file, cache, queued, settled, trouble>>

find_by_token(s) ==
    /\ req[s].pc = "auth"
    /\ IF Active(req[s].token)
       THEN req' = [req EXCEPT ![s].pc = "lookup", ![s].token = NoToken]
       ELSE Answered(s)
    /\ UNCHANGED <<server, tokens, file, cache, queued, settled, trouble>>

_is_secret_returning_write(op) == op = "mint_token"
Cacheable(s) == req[s].keyed /\ ~_is_secret_returning_write(req[s].op)

\* Mutant: the request's hash is not compared.
lookup_any(s) ==
    /\ req[s].pc = "lookup"
    /\ IF ~Cacheable(s) \/ cache.state # "fresh" THEN Step(s, "execute")
       ELSE req' = [req EXCEPT ![s].pc = "replay", ![s].answer = cache.answer]
    /\ UNCHANGED <<server, tokens, file, cache, queued, settled, trouble>>
lookup(s) ==
    /\ req[s].pc = "lookup"
    /\ IF ~Cacheable(s) \/ cache.state # "fresh" THEN Step(s, "execute")
       ELSE IF cache.hash # req[s].op THEN Answered(s)
       ELSE req' = [req EXCEPT ![s].pc = "replay", ![s].answer = cache.answer]
    /\ UNCHANGED <<server, tokens, file, cache, queued, settled, trouble>>

-----------------------------------------------------------------------------
(* The handlers.                                                           *)

plan_create(s) ==
    /\ req[s].pc = "execute" /\ req[s].op = "plan_create"
    /\ Step(s, "store")
    /\ UNCHANGED <<server, tokens, file, cache, queued, settled, trouble>>

run_pipeline(s) ==
    /\ req[s].pc = "execute" /\ req[s].op = "run_pipeline" /\ ~queued
    /\ queued' = TRUE
    /\ Step(s, "store")
    /\ UNCHANGED <<server, tokens, file, cache, settled, trouble>>

mint_token(s) ==
    /\ req[s].pc = "execute" /\ req[s].op = "mint_token"
    /\ \E t \in Tokens : Fresh(t) /\ tokens' = Create(t, FALSE)
    /\ Step(s, "store")
    /\ UNCHANGED <<server, file, cache, queued, settled, trouble>>

revoke_token(s) ==
    /\ req[s].pc = "execute" /\ req[s].op = "revoke_token"
    /\ \E t \in Tokens : ~Fresh(t) /\ tokens' = [tokens EXCEPT ![t].state = "revoked"]
    /\ Step(s, "store")
    /\ UNCHANGED <<server, file, cache, queued, settled, trouble>>

\* What the exceptions of the handlers are mapped to, and who raises them.
_ERROR_MAP == [QueuedJobAlreadyExists |-> 409, ResourceNotFound |-> 404,
               PlanGenerationError |-> 422, Exception |-> 500]
Raises(op) ==
    {"Exception"} \cup CASE op = "plan_create"  -> {"PlanGenerationError"}
                         [] op = "run_pipeline" -> {"ResourceNotFound"} \cup
                                (IF queued THEN {"QueuedJobAlreadyExists"} ELSE {})
                         [] op = "revoke_token" -> {"ResourceNotFound"}
                         [] op = "mint_token"   -> {}

\* An exception of the handler passes through both middlewares: the handler of
\* Exception answers outside of them, and whatever the status nothing is cached.
HandlerRaises(s) ==
    /\ req[s].pc = "execute"
    /\ \E e \in Raises(req[s].op) : _ERROR_MAP[e] >= 400
    /\ Answered(s)
    /\ UNCHANGED <<server, tokens, file, cache, queued, settled, trouble>>

\* The answer is cached, best effort, before it is returned.  The row of an
\* earlier answer, expired or not, is overwritten.
Stored(s) == [state |-> "fresh", hash |-> req[s].op, answer |-> req[s].op]
store(s) ==
    /\ req[s].pc = "store"
    /\ IF Cacheable(s)
       THEN \/ /\ cache' = Stored(s)
               /\ settled' = settled \cup {req[s].op}
               /\ UNCHANGED trouble
            \/ ApiTrouble /\ UNCHANGED <<cache, settled>>
       ELSE UNCHANGED <<cache, settled, trouble>>
    /\ Answered(s)
    /\ UNCHANGED <<server, tokens, file, queued>>

_response_from_cache(s) ==
    /\ req[s].pc = "replay"
    /\ Answered(s)
    /\ UNCHANGED <<server, tokens, file, cache, queued, settled, trouble>>

\* The row outlives its time to live (and with it what was settled), and the
\* hourly pass deletes it.
Expires ==
    /\ cache.state = "fresh"
    /\ cache' = [cache EXCEPT !.state = "expired"]
    /\ settled' = {}
    /\ req' = [s \in Slots |-> IF req[s].pc = "idle" THEN Idle ELSE [req[s] EXCEPT !.late = FALSE]]
    /\ UNCHANGED <<server, tokens, file, queued, trouble>>

delete_expired ==
    /\ server = "up"
    /\ cache.state = "expired"
    /\ cache' = NoRow
    /\ UNCHANGED <<server, tokens, file, queued, req, settled, trouble>>

\* A worker takes the queued job.
JobClaimed ==
    /\ queued
    /\ queued' = FALSE
    /\ UNCHANGED <<server, tokens, file, cache, req, settled, trouble>>

ApiNext ==
    \/ ensure_default_token \/ Crash \/ rotate_token \/ Expires \/ delete_expired \/ JobClaimed
    \/ \E s \in Slots : SendRequest(s) \/ find_by_token(s) \/ lookup(s) \/ plan_create(s)
                        \/ run_pipeline(s) \/ mint_token(s) \/ revoke_token(s)
                        \/ HandlerRaises(s) \/ store(s) \/ _response_from_cache(s)
ApiSpec == ApiInit /\ [][ApiNext]_apiVars

-----------------------------------------------------------------------------
\* A request sent again after its answer was cached, within the time to live and
\* under the same key, has no second effect, whatever else used the key, expired
\* or was collected meanwhile.
RetryReplays == \A s \in Slots :
    req[s].pc \in {"execute", "store"} /\ Cacheable(s) => ~req[s].late

\* An answer is replayed only to a request identical to the one that earned it,
\* and never one that carries a secret.
ReplayIsOwn ==
    /\ \A s \in Slots : req[s].pc = "replay" => req[s].answer = req[s].op
    /\ cache # NoRow => cache.hash # "mint_token"

\* What the middleware answers from its cache: RetryReplays and ReplayIsOwn.
AnswersOnce == RetryReplays /\ ReplayIsOwn

\* "Guards duplicate-effect writes": of two identical requests under one key,
\* one has the effect.
NoDuplicateEffect == \A s, t \in Slots :
    s # t /\ req[s].pc = "store" /\ req[t].pc = "store" /\ Cacheable(s) /\ Cacheable(t)
        => req[s].op # req[t].op

\* Once the server started, .carve/token holds a token of the table.
TokenFileUsable == server = "up" => file # NoToken
=============================================================================
