----------------------------- MODULE AgentLoop ------------------------------
(***************************************************************************)
(* A delegated agent: SubagentRunner.run (core/agents/delegation.py), the  *)
(* turn-taking loop (core/agents/loop.py) with its retries, permission     *)
(* gate, hooks and terminator, and the two things other threads do to it,  *)
(* cancelling (cancel.py) and steering (steering.py).                      *)
(*                                                                         *)
(* The model answers anything: a list of tool calls, an end of turn, or a  *)
(* stop reason the loop does not know.  A message is its kind and, for a   *)
(* list of tool calls or of their results, its length.                     *)
(***************************************************************************)
EXTENDS Permissions, SequencesExt

CONSTANTS
    HookFiles,      \* the hook files of a project: sequences of hooks
    Requested,      \* the tools that the model may ask for, known or not
    MaxTurns,       \* max_turns
    MaxRetries,     \* max_retries of a rate-limited request
    MaxCalls,       \* bound on the tool calls of an answer
    MaxGuidance     \* bound on the messages pushed

VARIABLES
    chat,       \* self.messages
    loop,       \* the loop
    steer,      \* the steering queue
    pushed,     \* how many messages were pushed
    cancelled,  \* the cancellation token
    turnsAfter, \* turns begun after the token was set
    disk,       \* the turns that wrote a file
    tracked,    \* files_changed
    hooked      \* the commands that hooks ran

loopVars == <<chat, loop, steer, pushed, cancelled, turnsAfter, disk, tracked, hooked>>

Msg(kind, n) == [kind |-> kind, n |-> n]
Answers == UNION {[1..n -> Requested] : n \in 0..MaxCalls}
GitCommand(key) == [meta |-> FALSE, flag |-> FALSE, keys |-> <<key, "git">>]
ReadCommand == GitCommand("git_status")

\* carve/hooks.toml: when a hook runs, for which tool, and its command.
HookSpec == [on : {"pre_tool", "post_tool"}, tool : {"edit", "any"},
             run : {"git_status", "git_add"}]
ASSUME HooksAssumption == \A h \in HookFiles : \A i \in DOMAIN h : h[i] \in HookSpec

\* The tools that have an executor: a granted name without one is a stub that
\* raises when it is called.
_BASE_BUILDERS == {"read_file", "edit", "bash"}
bind_grant_tools(grant) ==
    [t \in (grant \cap Tools) \cup _TERMINATOR_TOOLS |-> t \in _BASE_BUILDERS \cup _TERMINATOR_TOOLS]

\* parent_mode and the agent's capability are clamped to the narrower; the gate
\* and the hooks use the clamped mode.
LoopInit ==
    /\ chat = <<Msg("task", 0)>>
    /\ \E parent, capability \in Modes, grant \in Grants, hooks \in HookFiles :
          loop = [pc |-> "turn", turn |-> 0, attempt |-> 0, calls |-> << >>, results |-> 0,
                  parent |-> parent, capability |-> capability, grant |-> grant,
                  hooks |-> hooks, tools |-> bind_grant_tools(grant),
                  policy |-> build_policy(min_mode(parent, capability), NoConfig, grant),
                  approver |-> "none", submitted |-> "none", terminator |-> FALSE,
                  end |-> "none", status |-> "none"]
    /\ steer = << >>
    /\ pushed = 0
    /\ cancelled = FALSE
    /\ turnsAfter = 0
    /\ disk = {}
    /\ tracked = {}
    /\ hooked = {}

Over == loop.pc = "over"
EndsAs(e) == [loop EXCEPT !.pc = "over", !.end = e]

\* The result the parent gets when the loop returns: no submission is a failure.
DelegationStatus == IF loop.submitted = "none" THEN "failed" ELSE loop.submitted
Returns(e) == [EndsAs(e) EXCEPT !.status = DelegationStatus]

-----------------------------------------------------------------------------
(* The other threads.                                                      *)

push ==
    /\ ~Over
    /\ pushed < MaxGuidance
    /\ pushed' = pushed + 1
    /\ steer' = Append(steer, pushed + 1)
    /\ UNCHANGED <<chat, loop, cancelled, turnsAfter, disk, tracked, hooked>>

cancel ==
    /\ ~Over
    /\ ~cancelled
    /\ cancelled' = TRUE
    /\ UNCHANGED <<chat, loop, steer, pushed, turnsAfter, disk, tracked, hooked>>

-----------------------------------------------------------------------------
(* run.                                                                    *)

\* The top of a turn: the budget, then the token.
raise_if_cancelled ==
    /\ loop.pc = "turn"
    /\ loop' = CASE loop.turn = MaxTurns -> EndsAs("max_turns")
                 [] loop.turn < MaxTurns /\ cancelled -> EndsAs("cancelled")
                 [] OTHER -> [loop EXCEPT !.pc = "drain", !.turn = @ + 1]
    /\ UNCHANGED <<chat, steer, pushed, cancelled, turnsAfter, disk, tracked, hooked>>

drain ==
    /\ loop.pc = "drain"
    /\ chat' = chat \o [i \in DOMAIN steer |-> Msg("guidance", steer[i])]
    /\ steer' = << >>
    /\ loop' = [loop EXCEPT !.pc = "call", !.attempt = 0]
    /\ turnsAfter' = IF cancelled THEN turnsAfter + 1 ELSE turnsAfter
    /\ UNCHANGED <<pushed, cancelled, disk, tracked, hooked>>

\* Rate limits are retried within the turn; any other error leaves the loop.
_call_api ==
    /\ loop.pc = "call"
    /\ loop' \in {IF loop.attempt < MaxRetries THEN [loop EXCEPT !.attempt = @ + 1]
                  ELSE EndsAs("rate_limited"), EndsAs("api_error")}
    /\ UNCHANGED <<chat, steer, pushed, cancelled, turnsAfter, disk, tracked, hooked>>

\* The answer joins the conversation before its stop reason is looked at.
Answer ==
    /\ loop.pc = "call"
    /\ \E calls \in Answers, stop \in {"end_turn", "tool_use", "max_tokens"} :
          /\ chat' = Append(chat, Msg("assistant", Len(calls)))
          /\ loop' = CASE stop = "end_turn" -> Returns("text")
                       [] stop = "max_tokens" -> EndsAs("unexpected_stop")
                       [] stop = "tool_use" ->
                            [loop EXCEPT !.pc = "tools", !.calls = calls, !.results = 0]
    /\ UNCHANGED <<steer, pushed, cancelled, turnsAfter, disk, tracked, hooked>>

-----------------------------------------------------------------------------
(* _execute_tool_calls.                                                    *)

\* A name the agent has no tool for, or one that the gate refuses.
Known(tool) == tool \in DOMAIN loop.tools
Allowed(tool) == check(loop.policy, tool, ReadCommand, loop.approver) = "allow"

\* Every call gets its result, an error or not.
Replied == [loop EXCEPT !.calls = Tail(@), !.results = @ + 1,
                        !.terminator = @ \/ Head(loop.calls) \in _TERMINATOR_TOOLS]

\* Mutant: a refused call is left without a result.
Refused_silent ==
    /\ loop.pc = "tools" /\ loop.calls # << >>
    /\ ~Known(Head(loop.calls)) \/ ~Allowed(Head(loop.calls))
    /\ loop' = [Replied EXCEPT !.results = loop.results]
    /\ UNCHANGED <<chat, steer, pushed, cancelled, turnsAfter, disk, tracked, hooked>>
Refused ==
    /\ loop.pc = "tools" /\ loop.calls # << >>
    /\ ~Known(Head(loop.calls)) \/ ~Allowed(Head(loop.calls))
    /\ loop' = Replied
    /\ UNCHANGED <<chat, steer, pushed, cancelled, turnsAfter, disk, tracked, hooked>>

\* The hooks of an event for a tool, in the file's order; HookRunner.run raises
\* when the gate does not allow the command, and when the command fails.
_matches(spec, on, tool) == spec.on = on /\ spec.tool \in {"any", tool}
build_tool_hooks(on, tool) == SelectSeq(loop.hooks, LAMBDA spec : _matches(spec, on, tool))
HookGate == build_policy(loop.policy.mode, NoConfig, Tools)
HookAllowed(spec) == check(HookGate, "bash", GitCommand(spec.run), loop.approver) = "allow"
\* The outcomes: how many of the hooks succeed before one raises, or all.
HookRuns(specs) ==
    {n \in 0..Len(specs) : \A i \in 1..n : HookAllowed(specs[i])}
\* The n-th ran too if it was allowed and then failed.
Ran(specs, n) ==
    {specs[i].run : i \in {i \in DOMAIN specs : i <= n + 1 /\ HookAllowed(specs[i])}}

\* The executor: a stub raises, submit_result raises the second time, and any
\* other may.
MayRun(tool) == loop.tools[tool] /\ (tool \in _TERMINATOR_TOOLS => loop.submitted = "none")
edit(tool, ran) == disk' = IF tool = "edit" /\ ran THEN disk \cup {loop.turn} ELSE disk
make_submit_result_tool(tool, ran) ==
    \E verdict \in IF tool \in _TERMINATOR_TOOLS /\ ran THEN {"success", "failed"}
                   ELSE {loop.submitted} :
        loop' = [Replied EXCEPT !.submitted = verdict]

\* gate, pre_tool hooks, executor, post_tool hooks, in this order: whatever
\* raises becomes the call's error result.  A file is tracked only when nothing
\* did.
Dispatch ==
    /\ loop.pc = "tools" /\ loop.calls # << >>
    /\ LET tool == Head(loop.calls)
           pre == build_tool_hooks("pre_tool", tool)
           post == build_tool_hooks("post_tool", tool)
       IN
       /\ Known(tool) /\ Allowed(tool)
       /\ \E n \in HookRuns(pre), ran \in BOOLEAN, k \in HookRuns(post) :
             /\ ran => n = Len(pre) /\ MayRun(tool)
             /\ ~ran => k = 0
             /\ edit(tool, ran)
             /\ tracked' = IF tool = "edit" /\ ran /\ k = Len(post)
                           THEN tracked \cup {loop.turn} ELSE tracked
             /\ hooked' = hooked \cup Ran(pre, n) \cup (IF ran THEN Ran(post, k) ELSE {})
             /\ make_submit_result_tool(tool, ran)
    /\ UNCHANGED <<chat, steer, pushed, cancelled, turnsAfter>>

\* The results go in, and the loop ends if the answer named the terminator,
\* whether or not that call was accepted.
TurnEnds ==
    /\ loop.pc = "tools" /\ loop.calls = << >>
    /\ chat' = Append(chat, Msg("results", loop.results))
    /\ loop' = IF loop.terminator THEN Returns("terminator") ELSE [loop EXCEPT !.pc = "turn"]
    /\ UNCHANGED <<steer, pushed, cancelled, turnsAfter, disk, tracked, hooked>>

LoopStep == \/ raise_if_cancelled \/ drain \/ _call_api \/ Answer
            \/ Refused \/ Dispatch \/ TurnEnds
LoopNext == LoopStep \/ push \/ cancel
LoopSpec == LoopInit /\ [][LoopNext]_loopVars

-----------------------------------------------------------------------------
\* The conversation stays one the API accepts: before every request each answer
\* with tool calls is followed at once by as many results, whatever was denied,
\* unknown or raised, and whatever guidance arrived in between.
ResultsPaired ==
    loop.pc = "call" =>
        \A i \in DOMAIN chat : chat[i].kind = "assistant" =>
            /\ i < Len(chat)
            /\ chat[i + 1] = Msg("results", chat[i].n)

\* Guidance pushed by another thread is delivered once and in order, or still
\* waits in the queue (SteeringQueue.drain).
GuidanceKept ==
    LET said == SelectSeq(chat, LAMBDA m : m.kind = "guidance")
    IN  [i \in DOMAIN said |-> said[i].n] \o steer = [i \in 1..pushed |-> i]

\* Once the token is set at most the turn in flight goes on: no second turn
\* begins ("an in-flight turn always completes cleanly").
CancelStopsSoon == turnsAfter <= 1

\* An agent and the hooks around its calls write only within the authority of the
\* one that delegated to it and within its own.
WritesAuthorised ==
    /\ "git_add" \in hooked => /\ mode_permits(loop.parent, "build")
                               /\ mode_permits(loop.capability, "build")
    /\ disk # {} => /\ mode_permits(loop.parent, "build")
                    /\ mode_permits(loop.capability, "build")
                    /\ "edit" \in loop.grant

\* files_changed names every file the loop's tools changed.
FilesReported == Over => tracked = disk
=============================================================================
