------------------------------ MODULE MCPGateway ------------------------------
(***************************************************************************)
(* GatewayService of packages/mcp-gateway: the servers registered with it, *)
(* the routing table from tool names to servers, the tool calls it routes  *)
(* and the slots they hold.  The allow list it asks is AllowList.          *)
(*                                                                         *)
(* Node runs a handler to its next await without interruption.  An action  *)
(* is therefore the code between two awaits: registerServer, unregister-   *)
(* Server, shutdown and routeToolCall each take several actions, and any   *)
(* other action may come between them.                                     *)
(***************************************************************************)
EXTENDS Naturals, FiniteSets, Maps

CONSTANTS
  Server,              \* the server ids
  Client,              \* the MCPClient objects, one per registerServer call (a bound)
  Tool,                \* the names tools have at their servers
  Name,                \* toolRegistry's keys and the names calls are made by: strings too
  qualified,           \* server id and tool -> `${serverId}:${tool.name}`
  BuiltinTool,         \* those the local server starts with
  Caller,              \* agents and users
  Permitted,           \* callers whose role has the permission a call requires
  Call,                \* the routeToolCall invocations (a bound)
  Governed,            \* the names the allow list is edited about (a bound)
  GovernedCaller,      \* the callers it is edited about (a bound)
  maxUnregistering,    \* unregisterServer calls of one server that await at once (a bound)
  maxConcurrentCalls   \* config.maxConcurrentCalls

ASSUME GatewayAssumption ==
  /\ maxConcurrentCalls \in Nat
  /\ maxUnregistering \in Nat
  /\ BuiltinTool \subseteq Tool
  /\ Permitted \subseteq Caller
  /\ Governed \subseteq Name
  /\ GovernedCaller \subseteq Caller
  /\ Tool \subseteq Name
  /\ IsFiniteSet(Call)

\* A qualified name is a string as any other: a tool may have it for its own name, and
\* two servers may share one ("a:b" with "c", "a" with "b:c").  Concatenation only
\* gives that the names of one server differ when its tools do.
ASSUME QualifiedAssumption ==
  /\ qualified \in [Server \X Tool -> Name]
  /\ \A s \in Server, t, u \in Tool : qualified[<<s, t>>] = qualified[<<s, u>>] => t = u

VARIABLES
  clients,       \* MCPClient -> its state, its server, how far its registration is
  servers,       \* server id -> the client and the tools it is registered with
  toolRegistry,  \* name -> server id and tool
  localTools,    \* the tools of the local MCPServer
  unregistering, \* server id -> its unregisterServer calls that await the disconnect
  shutdown,      \* whether shutdown() is running, and the servers it has visited
  calls,         \* invocation -> its caller, its name, the remote server it was sent to
  activeCalls,   \* caller -> count
  auditLog,      \* invocation -> its number of entries
  cleared,       \* history: shutdown() has cleared activeCalls
  overlapped,    \* history: clients whose registerServer ran beside another one, or
                 \* beside an unregisterServer, of the same server id
  entries, globalDenied, lastSaid  \* the AllowList

serverVars == <<clients, servers, toolRegistry, unregistering, shutdown, overlapped>>
callVars == <<calls, activeCalls, auditLog>>
listVars == <<entries, globalDenied, lastSaid>>
vars == <<serverVars, localTools, callVars, cleared, listVars>>

List == INSTANCE AllowList WITH Entity <- Caller, ToolName <- Name

TypeServers ==
  /\ DOMAIN clients \subseteq Client
  /\ clients \in [DOMAIN clients ->
       [state : {"connecting", "connected", "error", "disconnected"},
        serverId : Server,
        registration : {"connecting", "listing", "done", "failed"}]]
  /\ DOMAIN servers \subseteq Server
  /\ servers \in [DOMAIN servers -> [client : DOMAIN clients, tools : SUBSET Tool]]
  /\ unregistering \in [Server -> Nat]
  /\ shutdown \in [running : BOOLEAN, visited : SUBSET Server]
  /\ overlapped \subseteq DOMAIN clients

TypeTable ==
  /\ DOMAIN toolRegistry \subseteq Name
  /\ toolRegistry \in [DOMAIN toolRegistry -> [serverId : Server, tool : Tool]]

CallRecord == [caller : Caller, toolName : Name, sentTo : SUBSET Server, inFlight : BOOLEAN]

TypeCalls ==
  /\ DOMAIN calls \subseteq Call
  /\ calls \in [DOMAIN calls -> CallRecord]
  /\ activeCalls \in [Caller -> Nat]
  /\ auditLog \in [Call -> Nat]
  /\ cleared \in BOOLEAN

TypeOK == TypeServers /\ TypeTable /\ TypeCalls /\ localTools \subseteq Tool /\ List!TypeOK

Init ==
  /\ clients = emptyMap
  /\ servers = emptyMap
  /\ toolRegistry = emptyMap
  /\ localTools = BuiltinTool
  /\ unregistering = [s \in Server |-> 0]
  /\ shutdown = [running |-> FALSE, visited |-> {}]
  /\ calls = emptyMap
  /\ activeCalls = [c \in Caller |-> 0]
  /\ auditLog = [i \in Call |-> 0]
  /\ cleared = FALSE
  /\ overlapped = {}
  /\ List!Init
-----------------------------------------------------------------------------
(* Registering a server: one client, three awaits, then the routing table.   *)

isRegistered(s) == s \in DOMAIN servers

\* Clients whose registerServer of s has not come to its end.
pending(s) ==
  {d \in DOMAIN clients :
     clients[d].serverId = s /\ clients[d].registration \in {"connecting", "listing"}}

RegisterServer(c, s) ==
  /\ c \in Client \ DOMAIN clients
  /\ ~isRegistered(s)
  /\ clients' = put(clients, c, [state |-> "connecting", serverId |-> s,
                                registration |-> "connecting"])
  /\ overlapped' = overlapped \cup
       {d \in pending(s) \cup {c} : pending(s) # {} \/ unregistering[s] > 0}
  /\ UNCHANGED <<servers, toolRegistry, unregistering, shutdown, localTools, callVars, cleared,
                 listVars>>

advance(c, state, registration) ==
  /\ clients' = [clients EXCEPT ![c] = [state |-> state, serverId |-> @.serverId,
                                        registration |-> registration]]
  /\ UNCHANGED <<unregistering, shutdown, overlapped, localTools, callVars, cleared, listVars>>

\* connectToServer returns, or closes what it opened and throws.
ConnectReturns(c) ==
  /\ c \in DOMAIN clients /\ clients[c].registration = "connecting"
  /\ \/ advance(c, "connected", "listing")
     \/ advance(c, "error", "failed")
  /\ UNCHANGED <<servers, toolRegistry>>

\* listTools or listResources throws: registerServer leaves the client open.
ListingFails(c) ==
  /\ c \in DOMAIN clients /\ clients[c].registration = "listing"
  /\ advance(c, clients[c].state, "failed")
  /\ UNCHANGED <<servers, toolRegistry>>

Route(s, t) == [serverId |-> s, tool |-> t]

qualifiedNames(s, tools) == {qualified[<<s, t>>] : t \in tools}

namesWith(s, tools) == qualifiedNames(s, tools) \cup DOMAIN toolRegistry \cup tools

\* The tool of s that n is the qualified name of.
qualifiedTool(s, n) == CHOOSE t \in Tool : n = qualified[<<s, t>>]

\* Mutant of tableWith: a simple name goes to the server registered last.
tableWith_LastWins(s, tools) ==
  [n \in namesWith(s, tools) |->
     IF n \in qualifiedNames(s, tools) THEN Route(s, qualifiedTool(s, n))
     ELSE IF n \in tools THEN Route(s, n)
     ELSE toolRegistry[n]]

\* A qualified name is (re)set, whoever has it; a simple name is taken if nobody has it.
tableWith(s, tools) ==
  [n \in namesWith(s, tools) |->
     IF n \in qualifiedNames(s, tools) THEN Route(s, qualifiedTool(s, n))
     ELSE IF n \in DOMAIN toolRegistry THEN toolRegistry[n]
     ELSE Route(s, n)]

ListingReturns(c, tools) ==
  /\ c \in DOMAIN clients /\ clients[c].registration = "listing"
  /\ LET s == clients[c].serverId IN
       /\ toolRegistry' = tableWith(s, tools)
       /\ servers' = put(servers, s, [client |-> c, tools |-> tools])
  /\ advance(c, clients[c].state, "done")
-----------------------------------------------------------------------------
(* Unregistering, shutdown: disconnect, an await, then the maps.             *)

disconnect(s) ==
  clients' = [clients EXCEPT ![servers[s].client].state = "disconnected"]

UnregisterServer(s) ==
  /\ isRegistered(s) /\ unregistering[s] < maxUnregistering
  /\ disconnect(s)
  /\ unregistering' = [unregistering EXCEPT ![s] = @ + 1]
  /\ UNCHANGED <<servers, toolRegistry, shutdown, overlapped, localTools, callVars, cleared,
                 listVars>>

\* Mutant of tableWithout: a server's simple names are left behind.
tableWithout_SimpleKept(s) ==
  restrictTo(toolRegistry, DOMAIN toolRegistry \ qualifiedNames(s, Tool))

\* Mutant of tableWithout: the tools of the server are deleted, whoever has them.
tableWithout_ByTool(s) ==
  restrictTo(toolRegistry, {n \in DOMAIN toolRegistry :
    isRegistered(s) => toolRegistry[n].tool \notin servers[s].tools})

tableWithout(s) ==
  restrictTo(toolRegistry, {n \in DOMAIN toolRegistry : toolRegistry[n].serverId # s})

\* Mutant of FinishUnregister: the table is cleaned, the server is not deleted.
FinishUnregister_ServerKept(s) ==
  /\ unregistering[s] > 0
  /\ toolRegistry' = tableWithout(s)
  /\ unregistering' = [unregistering EXCEPT ![s] = @ - 1]
  /\ shutdown' = [shutdown EXCEPT !.visited = @ \ {s}]
  /\ UNCHANGED <<clients, servers, overlapped, localTools, callVars, cleared, listVars>>

\* The call deletes what is registered under s by now, its own entry or a later one.
\* A server registered again later is a new entry of the Map shutdown iterates.
FinishUnregister(s) ==
  /\ unregistering[s] > 0
  /\ toolRegistry' = tableWithout(s)
  /\ servers' = restrictTo(servers, DOMAIN servers \ {s})
  /\ unregistering' = [unregistering EXCEPT ![s] = @ - 1]
  /\ shutdown' = [shutdown EXCEPT !.visited = @ \ {s}]
  /\ UNCHANGED <<clients, overlapped, localTools, callVars, cleared, listVars>>

\* Mutant of visit: shutdown disconnects one server and clears them all.
visit_FirstOnly(s) ==
  /\ s \in DOMAIN servers \ shutdown.visited
  /\ disconnect(s)
  /\ shutdown' = [running |-> TRUE, visited |-> DOMAIN servers]
  /\ UNCHANGED <<servers, toolRegistry, activeCalls, cleared>>

visit(s) ==
  /\ s \in DOMAIN servers \ shutdown.visited
  /\ disconnect(s)
  /\ shutdown' = [running |-> TRUE, visited |-> shutdown.visited \cup {s}]
  /\ UNCHANGED <<servers, toolRegistry, activeCalls, cleared>>

clearAll ==
  /\ DOMAIN servers \subseteq shutdown.visited
  /\ servers' = emptyMap
  /\ toolRegistry' = emptyMap
  /\ activeCalls' = [c \in Caller |-> 0]
  /\ shutdown' = [running |-> FALSE, visited |-> {}]
  /\ cleared' = TRUE
  /\ UNCHANGED clients

\* shutdown() runs to its first await, or to its end if no server is registered;
\* the model runs one shutdown at a time.
Shutdown ==
  /\ ~shutdown.running
  /\ (\E s \in Server : visit(s)) \/ clearAll
  /\ UNCHANGED <<unregistering, overlapped, localTools, calls, auditLog, listVars>>

ContinueShutdown ==
  /\ shutdown.running
  /\ (\E s \in Server : visit(s)) \/ clearAll
  /\ UNCHANGED <<unregistering, overlapped, localTools, calls, auditLog, listVars>>
-----------------------------------------------------------------------------
(* Tool calls.                                                               *)

RegisterTool(t) ==
  /\ t \in Tool \ localTools
  /\ localTools' = localTools \cup {t}
  /\ UNCHANGED <<serverVars, callVars, cleared, listVars>>

\* The tools listAllTools returns.
listAllTools == {toolRegistry[n].tool : n \in DOMAIN toolRegistry} \cup localTools

inFlightOf(c) == {i \in DOMAIN calls : calls[i].caller = c /\ calls[i].inFlight}

\* Mutant of hasSlot: one call too many.
hasSlot_OneMore(c) == activeCalls[c] <= maxConcurrentCalls

hasSlot(c) == activeCalls[c] < maxConcurrentCalls

mayCall(c, n) == hasSlot(c) /\ c \in Permitted /\ List!isAllowed(c, n)

\* The local server's tools come first, then the table.
isRoutable(n) ==
  n \in localTools \/ (n \in DOMAIN toolRegistry /\ isRegistered(toolRegistry[n].serverId))

recordAudit(i) == auditLog' = [auditLog EXCEPT ![i] = @ + 1]

\* Mutant of releaseSlot: the count may fall below zero.
releaseSlot_Unclamped(count) == count - 1

\* The finally block: Math.max(0, count - 1).
releaseSlot(count) == IF count = 0 THEN 0 ELSE count - 1

begin(i, c, n, sentTo, inFlight) ==
  /\ i \in Call \ DOMAIN calls
  /\ calls' = put(calls, i, [caller |-> c, toolName |-> n, sentTo |-> sentTo,
                            inFlight |-> inFlight])
  /\ UNCHANGED <<serverVars, localTools, cleared, listVars>>

\* Denied before the slot is taken.
DenyCall(i, c, n) ==
  /\ begin(i, c, n, {}, FALSE)
  /\ ~mayCall(c, n)
  /\ recordAudit(i)
  /\ UNCHANGED activeCalls

\* Mutant of FindNoServer: the early return skips the finally block.
FindNoServer_SlotKept(i, c, n) ==
  /\ begin(i, c, n, {}, FALSE)
  /\ mayCall(c, n) /\ ~isRoutable(n)
  /\ recordAudit(i)
  /\ activeCalls' = [activeCalls EXCEPT ![c] = @ + 1]

\* Denied inside the try: the slot is taken and given back in one turn.
FindNoServer(i, c, n) ==
  /\ begin(i, c, n, {}, FALSE)
  /\ mayCall(c, n) /\ ~isRoutable(n)
  /\ recordAudit(i)
  /\ activeCalls' = [activeCalls EXCEPT ![c] = releaseSlot(@ + 1)]

\* The local server has the call, or the server of the table's entry; either is given
\* the name as the caller gave it.
SendCall(i, c, n) ==
  /\ mayCall(c, n) /\ isRoutable(n)
  /\ begin(i, c, n, IF n \in localTools THEN {} ELSE {toolRegistry[n].serverId}, TRUE)
  /\ activeCalls' = [activeCalls EXCEPT ![c] = @ + 1]
  /\ UNCHANGED auditLog

RouteToolCall(i, c, n) == DenyCall(i, c, n) \/ FindNoServer(i, c, n) \/ SendCall(i, c, n)

\* Mutant of FinishCall: only a call that succeeds is audited.
FinishCall_ErrorsUnaudited(i) ==
  /\ i \in DOMAIN calls /\ calls[i].inFlight
  /\ calls' = [calls EXCEPT ![i].inFlight = FALSE]
  /\ recordAudit(i) \/ UNCHANGED auditLog
  /\ activeCalls' = [activeCalls EXCEPT ![calls[i].caller] = releaseSlot(@)]
  /\ UNCHANGED <<serverVars, localTools, cleared, listVars>>

\* The answer, an error of the tool, a timeout or the closing of the connection:
\* each is audited and gives the slot back.
FinishCall(i) ==
  /\ i \in DOMAIN calls /\ calls[i].inFlight
  /\ calls' = [calls EXCEPT ![i].inFlight = FALSE]
  /\ recordAudit(i)
  /\ activeCalls' = [activeCalls EXCEPT ![calls[i].caller] = releaseSlot(@)]
  /\ UNCHANGED <<serverVars, localTools, cleared, listVars>>
-----------------------------------------------------------------------------
EditAllowList ==
  /\ \/ \E c \in GovernedCaller, n \in Governed : List!AllowTool(c, n) \/ List!DenyTool(c, n)
     \/ \E n \in Governed : List!DenyGlobal(n) \/ List!RemoveGlobalDeny(n)
     \/ \E c \in GovernedCaller, restrictive \in BOOLEAN : List!SetRestrictive(c, restrictive)
     \/ \E c \in GovernedCaller : List!RemoveEntity(c)
  /\ UNCHANGED <<serverVars, localTools, callVars, cleared>>

Next ==
  \/ \E c \in Client, s \in Server : RegisterServer(c, s)
  \/ \E c \in Client : ConnectReturns(c) \/ ListingFails(c)
  \/ \E c \in Client, tools \in SUBSET Tool : ListingReturns(c, tools)
  \/ \E s \in Server : UnregisterServer(s) \/ FinishUnregister(s)
  \/ Shutdown
  \/ ContinueShutdown
  \/ \E t \in Tool : RegisterTool(t)
  \/ \E i \in Call, c \in Caller, n \in Name : RouteToolCall(i, c, n)
  \/ \E i \in Call : FinishCall(i)
  \/ EditAllowList

Spec == Init /\ [][Next]_vars

\* A call ends: MCPClient answers, times out or rejects it when it disconnects,
\* and a tool of the local server is assumed to return.
FairSpec == Spec /\ \A i \in Call : WF_vars(FinishCall(i))
-----------------------------------------------------------------------------
\* activeCalls counts the calls in flight, until shutdown() clears it under them;
\* from then on it may undercount, and never overcounts (the clamp in finally).
ActiveCallsCounted ==
  \A c \in Caller :
    /\ activeCalls[c] <= Cardinality(inFlightOf(c))
    /\ ~cleared => activeCalls[c] = Cardinality(inFlightOf(c))

\* Maximum concurrent tool calls per caller, for as long as shutdown() has not
\* forgotten the calls in flight.
LimitUntilShutdown ==
  ~cleared => \A c \in Caller : Cardinality(inFlightOf(c)) <= maxConcurrentCalls

\* routeToolCall "Audit logs every call regardless of outcome": a call that was
\* made comes to have one entry, and never gets a second.
EveryCallAuditedOnce ==
  \A i \in Call : i \in DOMAIN calls ~> [](auditLog[i] = 1)

\* The table never names a server that is gone, at any await of registerServer,
\* unregisterServer and shutdown: "is not connected" in routeToolCall is dead code.
RoutesLead == \A n \in DOMAIN toolRegistry : isRegistered(toolRegistry[n].serverId)

\* What a server that is sent a call by name n makes of it: it has a tool of that name;
\* or it has none, the name being one the gateway made of its id and a tool of its;
\* or it is registered twice, and the name may be one that the first listing had.
isUnderstood(s, n) == n \in servers[s].tools

isOwnQualified(s, n) == n \in qualifiedNames(s, servers[s].tools)

isEnteredTwice(s) == servers[s].client \in overlapped

isKnown(s, n) ==
  isRegistered(s) /\ (isUnderstood(s, n) \/ isOwnQualified(s, n) \/ isEnteredTwice(s))

isShared(s, t) == \E r \in Server \ {s} : qualified[<<s, t>>] \in qualifiedNames(r, Tool)

\* Every name in the table leads to a server that knows it, through every order of
\* overlapping registrations, unregistrations and shutdown; and every tool of a
\* registered server has its qualified name there, unless another server may have the
\* same string.  Only the first kind of name is understood at the other end:
\* routeToolCall hands a qualified name on as it is.
NamesRoute ==
  /\ \A n \in DOMAIN toolRegistry : isKnown(toolRegistry[n].serverId, n)
  /\ \A s \in DOMAIN servers : \A t \in servers[s].tools :
       \/ /\ qualified[<<s, t>>] \in DOMAIN toolRegistry
          /\ toolRegistry[qualified[<<s, t>>]] = Route(s, t)
       \/ isShared(s, t)

\* A name stays with the server that has it while that server is there, except a
\* tool's own name that is, as a string, another server's qualified name: registering
\* that server takes it, whatever the collision check says of simple names.
SimpleNamesStay ==
  [][\A n \in DOMAIN toolRegistry \cap DOMAIN toolRegistry' :
       \/ toolRegistry'[n] = toolRegistry[n]
       \/ \E s \in Server, t \in Tool :
            n = qualified[<<s, t>>] /\ toolRegistry'[n] = Route(s, t)]_vars

\* What the two status requests say of a remote server.
healthCheck(s) == clients[servers[s].client].state = "connected"

listServers == [s \in DOMAIN servers |-> IF healthCheck(s) THEN "connected" ELSE "error"]

\* The servers that unregisterServer or shutdown is closing.
closing == {s \in Server : unregistering[s] > 0} \cup shutdown.visited

\* A server other than one being closed is registered with a connected client, so
\* that both status requests report it so.
RegisteredAreConnected ==
  \A s \in DOMAIN servers \ closing : healthCheck(s) /\ listServers[s] = "connected"

\* A connection that nothing can close any more comes from a discovery that failed
\* after the handshake, or from a registration that ran beside another registration
\* of the same server id, or beside an unregistration of it that deleted its entry.
LeaksExplained ==
  \A c \in DOMAIN clients :
    \/ clients[c].state # "connected"
    \/ clients[c].registration \in {"listing", "failed"}
    \/ \E s \in DOMAIN servers : servers[s].client = c
    \/ c \in overlapped

\* listAllTools: "all available tools across all registered servers".  What it
\* lists, under the name it lists it by, can be called.
ListedToolsRoutable == \A t \in listAllTools : isRoutable(t)

\* The allow list's own properties, in the system that uses it.
LastDecisionWins == List!LastDecisionWins
ListingAgrees == List!ListingAgrees
=============================================================================
