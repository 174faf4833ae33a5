------------------------------- MODULE ToolCalls -------------------------------
(***************************************************************************)
(* POST /mcp/invoke: the guard, McpService, the gateway's decision, the    *)
(* built-in tools of MCPServer and the row in mcp_calls.  The service      *)
(* registers no remote server, so the gateway decides and a tool runs      *)
(* without a wait; the save of the row is the only one.  Calls held by     *)
(* remote servers are MCPGateway's.                                        *)
(***************************************************************************)
EXTENDS Roles, Maps

CONSTANTS
  ToolCall,   \* the requests, a client's retries included
  MaxFlawed   \* arguments of one request that are missing or empty (a bound)

VARIABLES
  invocations,  \* request -> its role, tool and arguments, its outcome, how far it is
  callLog,      \* the gateway's audit log, in memory: requests
  callRows,     \* the table mcp_calls: request -> outcome
  writing       \* the requests whose insert the database has not handled yet

toolCallVars == <<invocations, callLog, callRows, writing>>

\* The arguments the tools' schemas require.  Nothing checks a schema.
registerBuiltinTools == [
  send_message    |-> {"roomId", "content"},
  create_room     |-> {"type"},
  list_rooms      |-> {},
  invite_user     |-> {"roomId", "userId", "userKind"},
  search_messages |-> {"query"},
  manage_agent    |-> {"action", "agentId"}]

BuiltinTools == DOMAIN registerBuiltinTools

argumentsOf(tool) == IF tool \in BuiltinTools THEN registerBuiltinTools[tool] ELSE {}

\* The arguments of a call: each that its schema requires is missing, empty (an empty
\* string, which is as good as none to a handler) or filled.
Arguments(tool) == [argumentsOf(tool) -> {"missing", "empty", "filled"}]

Outcome == {"ok", "error", "denied"}

McpCall(row) ==
  /\ DOMAIN row = {"role", "tool", "args", "outcome", "at"}
  /\ row.role \in Role /\ row.outcome \in Outcome
  /\ row.at \in {"saving", "answered", "failed", "lost"}
  /\ row.tool \in BuiltinTools \cup {"unknown"} /\ row.args \in Arguments(row.tool)

ToolCallsTypeOK ==
  /\ DOMAIN invocations \subseteq ToolCall
  /\ \A i \in DOMAIN invocations : McpCall(invocations[i])
  /\ callLog \cup writing \cup DOMAIN callRows \subseteq DOMAIN invocations
  /\ callRows \in [DOMAIN callRows -> Outcome]

ToolCallsInit ==
  invocations = emptyMap /\ callLog = {} /\ callRows = emptyMap /\ writing = {}
-----------------------------------------------------------------------------
truthy(args, names) == \A n \in names : args[n] = "filled"

\* What the handlers check, each for itself.
answerIf(ok) == IF ok THEN "ok" ELSE "error"

handleSendMessage(args) == answerIf(truthy(args, {"roomId", "content"}))
handleCreateRoom == "ok"   \* checks nothing
handleListRooms == "ok"
handleInviteUser(args) == answerIf(truthy(args, {"roomId", "userId", "userKind"}))
handleSearchMessages(args) == answerIf(truthy(args, {"query"}))
handleManageAgent(args) == answerIf(truthy(args, {"action", "agentId"}))

callTool(tool, args) ==
  CASE tool = "send_message" -> handleSendMessage(args)
    [] tool = "create_room" -> handleCreateRoom
    [] tool = "list_rooms" -> handleListRooms
    [] tool = "invite_user" -> handleInviteUser(args)
    [] tool = "search_messages" -> handleSearchMessages(args)
    [] tool = "manage_agent" -> handleManageAgent(args)

\* The controller passes one of two roles to the service, whatever the token's is.
controllerRole(role) == IF role = "human_user" THEN "human_user" ELSE "agent_basic"

requiredPermission(role) ==
  IF role = "human_user" THEN "mcp:tool_list" ELSE "mcp:tool_call"

\* routeToolCall with no remote server: the role, then the tool.
routeToolCall(role, tool, args) ==
  IF ~checkPermission(controllerRole(role), requiredPermission(role)) THEN "denied"
  ELSE IF tool \notin BuiltinTools THEN "denied"
  ELSE callTool(tool, args)

\* The route's own permission is mcp:tool_call, which no human has: only agents get
\* past the guard.
invokeTool(i, role, tool, args) ==
  /\ checkPermission(role, "mcp:tool_call")
  /\ i \notin DOMAIN invocations
  /\ invocations' = put(invocations, i,
       [role |-> role, tool |-> tool, args |-> args,
        outcome |-> routeToolCall(role, tool, args), at |-> "saving"])
  /\ callLog' = callLog \cup {i}
  /\ writing' = writing \cup {i}
  /\ UNCHANGED callRows

answer(i, at) ==
  invocations' = [invocations EXCEPT ![i].at = IF @ = "saving" THEN at ELSE @]

RowLands(i) ==
  /\ i \in writing
  /\ callRows' = put(callRows, i, invocations[i].outcome)
  /\ writing' = writing \ {i}
  /\ answer(i, "answered")
  /\ UNCHANGED callLog

\* Mutant of RowFails: the caller is answered although the row is not there.
RowFails_Answered(i) ==
  /\ i \in writing
  /\ writing' = writing \ {i}
  /\ answer(i, "answered")
  /\ UNCHANGED <<callRows, callLog>>

\* The tool has run, and its caller gets an error for an answer.
RowFails(i) ==
  /\ i \in writing
  /\ writing' = writing \ {i}
  /\ answer(i, "failed")
  /\ UNCHANGED <<callRows, callLog>>

\* A restart loses the log and the calls; what was sent to the database stays sent.
RestartServer ==
  /\ callLog # {}
  /\ callLog' = {}
  /\ invocations' = [i \in DOMAIN invocations |->
       IF invocations[i].at = "saving" THEN [invocations[i] EXCEPT !.at = "lost"]
       ELSE invocations[i]]
  /\ UNCHANGED <<callRows, writing>>

\* What is asked for, with few flaws.
flawed(tool, args) == {n \in argumentsOf(tool) : args[n] # "filled"}

Request ==
  UNION {{[tool |-> tool, args |-> args] :
            args \in {x \in Arguments(tool) : Cardinality(flawed(tool, x)) <= MaxFlawed}} :
         tool \in BuiltinTools \cup {"unknown"}}

ToolCallsNext ==
  \/ \E i \in ToolCall \ DOMAIN invocations, r \in Request,
        role \in {"human_user", "agent_basic", "agent_privileged"} :
       invokeTool(i, role, r.tool, r.args)
  \/ \E i \in writing : RowLands(i) \/ RowFails(i)
  \/ RestartServer

ToolCallsSpec == ToolCallsInit /\ [][ToolCallsNext]_toolCallVars
-----------------------------------------------------------------------------
\* An answered call has its row, with the outcome the caller was told; a tool that
\* ran and left no row, and is not about to, has told its caller of an error or died
\* with the server, and until then the audit log has it ("for audit and billing",
\* mcp.service.ts:79).  What the guard lets through the gateway denies only for want
\* of a tool; a tool refuses its arguments only if the schema asks for one of them
\* that is missing or empty, and all of them but create_room do refuse such
\* arguments, so that a call may satisfy its schema and be refused (content "").
CallsAccounted ==
  \A i \in DOMAIN invocations :
     LET call == invocations[i] IN
       /\ call.at = "answered" => i \in DOMAIN callRows
       /\ i \in DOMAIN callRows => callRows[i] = call.outcome
       /\ i \notin DOMAIN callRows \cup writing => call.at \in {"failed", "lost"}
       /\ call.at = "saving" => i \in callLog /\ i \in writing
       /\ call.outcome = "denied" <=> call.tool \notin BuiltinTools
       /\ call.outcome = "error" <=>
            /\ call.tool \in BuiltinTools \ {"create_room"}
            /\ \E n \in argumentsOf(call.tool) : call.args[n] \in {"missing", "empty"}
=============================================================================
