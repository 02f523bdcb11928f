----------------------------- MODULE Permissions ----------------------------
(***************************************************************************)
(* What an agent may do (core/agents/permissions): the four modes, the     *)
(* policy reconciled from the mode, the project's configuration, the       *)
(* agent's grant and the imported MCP tools, the tiers of a bash command,  *)
(* and the gate that the loop asks before every tool call.                 *)
(*                                                                         *)
(* Tools and commands stand for their classes: one tool of each kind, and  *)
(* one key (program, or program and subcommand) of each list.              *)
(***************************************************************************)
EXTENDS Integers, Sequences, FiniteSets

Modes == {"read_only", "plan", "build", "deploy"}
_ORDER == [read_only |-> 0, plan |-> 1, build |-> 2, deploy |-> 3]
\* Mutant: the wider of two modes.
min_mode_widest(a, b) == IF _ORDER[a] >= _ORDER[b] THEN a ELSE b
min_mode(a, b) == IF _ORDER[a] <= _ORDER[b] THEN a ELSE b
mode_permits(mode, required) == _ORDER[mode] >= _ORDER[required]

-----------------------------------------------------------------------------
(* Tools.                                                                  *)

_READ_TOOLS == {"read_file", "sql", "bash"}
WRITE_TOOLS == {"edit", "run_snowflake_ddl"}
_ALL_TOOLS == _READ_TOOLS \cup WRITE_TOOLS
McpTools == {"mcp:s:read", "mcp:s:write"}
_TERMINATOR_TOOLS == {"submit_result"}
Tools == _ALL_TOOLS \cup McpTools \cup _TERMINATOR_TOOLS

_permitted_tools_for_mode(mode) ==
    CASE mode \in {"read_only", "plan"} -> _READ_TOOLS
      [] mode = "build" -> _READ_TOOLS \cup {"edit"}
      [] mode = "deploy" -> _ALL_TOOLS

\* The MCP tools of a mode: the permitted ones, and those of them that prompt.
_mcp_permitted_for_mode(mode) ==
    [permitted |-> {"mcp:s:read"} \cup (IF mode_permits(mode, "build") THEN {"mcp:s:write"} ELSE {}),
     prompt    |-> IF mode_permits(mode, "build") THEN {"mcp:s:write"} ELSE {}]

\* A grant names MCP tools one by one or a server whole.
_grant_admits(names, grant) == {n \in names : n \in grant \/ "mcp:s:*" \in grant}

-----------------------------------------------------------------------------
(* bash.                                                                   *)

ReadKeys == {"git_status"}
BuildKeys == {"git_add"}
DeployKeys == {"git_push"}
DenyKeys == {"rm"}
Keys == ReadKeys \cup BuildKeys \cup DeployKeys \cup DenyKeys \cup {"git", "make"}

\* A command: a metacharacter or a dangerous flag in it, and the keys it is
\* looked up under, the most specific one first.  None if it has no program.
Commands == [meta : BOOLEAN, flag : BOOLEAN,
             keys : {<< >>, <<"rm">>, <<"make">>}
                    \cup {<<k, "git">> : k \in {"git_status", "git_add", "git_push"}}]

_bash_rules_for_mode(mode) ==
    [allow  |-> IF mode_permits(mode, "build") THEN ReadKeys \cup BuildKeys ELSE ReadKeys,
     prompt |-> IF mode = "deploy" THEN DeployKeys ELSE {},
     deny   |-> DenyKeys]

KeyIn(command, set) == \E k \in DOMAIN command.keys : command.keys[k] \in set

\* Mutant: the allow-list is looked up before the deny-list.
tier_bash_command_allow_first(command, rules) ==
    IF command.meta \/ command.keys = << >> THEN "deny"
    ELSE IF KeyIn(command, rules.prompt) THEN "prompt"
    ELSE IF KeyIn(command, rules.allow) THEN "allow"
    ELSE "deny"
tier_bash_command(command, rules) ==
    IF \/ command.meta \/ command.keys = << >>
       \/ KeyIn(command, rules.deny)
       \/ command.flag /\ command.keys \notin {<<"rm">>, <<"make">>}
    THEN "deny"
    ELSE IF KeyIn(command, rules.prompt) THEN "prompt"
    ELSE IF KeyIn(command, rules.allow) THEN "allow"
    ELSE "deny"

-----------------------------------------------------------------------------
(* The policy and the gate.                                                *)

NoConfig == [denied_tools |-> {}, bash_deny |-> {}]

\* mode defaults, less what the configuration denies, within the agent's grant,
\* and with the MCP tools that the grant admits.
build_policy(mode, config, grant) ==
    LET rules == _bash_rules_for_mode(mode)
        mcp == _mcp_permitted_for_mode(mode)
    IN  [mode |-> mode,
         permitted |-> ((_permitted_tools_for_mode(mode) \cap grant)
                          \cup _grant_admits(mcp.permitted, grant)) \ config.denied_tools,
         prompt |-> _grant_admits(mcp.prompt, grant) \ config.denied_tools,
         bash |-> [allow  |-> rules.allow \ config.bash_deny,
                   prompt |-> rules.prompt \ config.bash_deny,
                   deny   |-> rules.deny \cup config.bash_deny]]

Approvers == {"none", "yes", "no"}
Asked(approver) == IF approver = "yes" THEN "allow" ELSE "needs_user_input"

_check_bash(policy, command, approver) ==
    LET tier == tier_bash_command(command, policy.bash)
    IN  IF tier = "prompt" THEN Asked(approver) ELSE tier

\* PermissionGate.check.
check(policy, tool, command, approver) ==
    IF tool \in _TERMINATOR_TOOLS THEN "allow"
    ELSE IF \/ tool \notin policy.permitted
            \/ tool \in WRITE_TOOLS /\ ~mode_permits(policy.mode, "build")
            \/ tool = "run_snowflake_ddl" /\ ~mode_permits(policy.mode, "deploy")
    THEN "deny"
    ELSE IF tool = "bash" THEN _check_bash(policy, command, approver)
    ELSE IF tool \in policy.prompt THEN Asked(approver)
    ELSE "allow"

-----------------------------------------------------------------------------
Width == [deny |-> 0, needs_user_input |-> 1, allow |-> 2]
Grants == {_ALL_TOOLS, {"read_file", "edit"}, {"bash", "mcp:s:*"}, {"mcp:s:write", "run_snowflake_ddl"}}
Configs == {[denied_tools |-> t, bash_deny |-> b] :
              t \in {{}, {"edit"}, {"mcp:s:write"}},
              b \in {{}, {"git"}, {"git_push"}, {"git_status"}}}

\* Authority only shrinks: whatever the call, a narrower mode, a configuration or
\* a smaller grant never turns an answer of the gate into a wider one, so that
\* clamping a delegate to the narrower of two modes bounds it by both.
AuthorityShrinks(tool, command, approver) ==
    \A m, n \in Modes, config \in Configs, grant \in Grants :
        LET W(mode, c, g) == Width[check(build_policy(mode, c, g), tool, command, approver)]
        IN  /\ W(min_mode(m, n), config, grant) <= W(m, config, grant)
            /\ W(min_mode(m, n), config, grant) <= W(n, config, grant)
            /\ W(m, config, grant) <= W(m, NoConfig, grant)
            /\ W(m, config, grant) <= W(m, config, Tools \cup {"mcp:s:*"})
            /\ tool \in config.denied_tools => W(m, config, grant) = 0
            /\ tool = "bash" /\ KeyIn(command, config.bash_deny) => W(m, config, grant) = 0
=============================================================================
