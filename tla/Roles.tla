---------------------------------- MODULE Roles ----------------------------------
(***************************************************************************)
(* Who may do what: the permissions of the roles of packages/identity, and *)
(* the scopes of an agent.                                                 *)
(***************************************************************************)
EXTENDS Naturals, FiniteSets

everybody == {
  "message:send", "message:read", "message:edit_own", "message:delete_own",
  "message:react", "room:read", "mcp:tool_list", "a2a:task_create", "a2a:task_read",
  "a2a:task_cancel_own", "identity:read", "file:read"}

agentBasic == everybody \cup {"mcp:tool_call", "mcp:resource_read"}

roomKeeping == {"room:create", "room:update", "room:invite", "a2a:agent_discover",
                "call:join", "file:upload"}

humanUser == everybody \cup roomKeeping \cup {
  "agent:create", "agent:read", "agent:update_own", "agent:deactivate_own",
  "identity:update_own", "identity:key_rotate", "call:create", "file:delete_own"}

admin == humanUser \cup agentBasic \cup {
  "message:delete_any", "room:delete", "room:kick", "room:manage_members",
  "agent:update_any", "agent:deactivate_any", "agent:scope_manage",
  "mcp:server_register", "a2a:task_cancel_any", "a2a:agent_register", "call:manage",
  "admin:dashboard", "admin:audit_read", "admin:user_manage"}

Permission == admin \cup {"mcp:server_manage", "file:delete_any", "admin:system_config"}

Role == {"human_user", "agent_basic", "agent_privileged", "admin", "super_admin"}

rolePermissions == [
  human_user       |-> humanUser,
  agent_basic      |-> agentBasic,
  agent_privileged |-> agentBasic \cup roomKeeping,
  admin            |-> admin,
  super_admin      |-> Permission]

checkPermission(role, permission) == permission \in rolePermissions[role]

\* Agents with more than five scopes are privileged.
agentRole(scopes) ==
  IF Cardinality(scopes) > 5 THEN "agent_privileged" ELSE "agent_basic"

\* What AgentService makes of the skills and tools an agent is declared with:
\* nothing, some, or some of which one is a code skill.
Capability == {"none", "some", "code"}

inferScopes(capability) ==
  {"message:read", "identity:read"}
    \cup (IF capability = "none" THEN {} ELSE {"mcp:tool_call", "mcp:tool_list"})
    \cup (IF capability = "code" THEN {"message:send", "room:create"} ELSE {})
=============================================================================
