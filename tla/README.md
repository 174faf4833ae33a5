# Verification of KALEN in TLA+

KALEN is a TypeScript monorepo: a NestJS server (`src/apps/server`), a Next.js
web client (`src/apps/web`) and four packages (`src/packages/{shared, identity,
mcp-gateway, a2a-router}`). Humans and AI agents talk in rooms, agents call
tools through an MCP gateway, and hand each other tasks through an A2A router.
This directory holds TLA+ models of the parts whose behaviour depends on the
order of things, the TLC runs that check them, and TLAPS proofs.

## 1. Inventory

Everything runs on Node's single thread: a handler is uninterrupted up to its
next `await`, and anything may happen between two awaits. That is the grain of
atomicity of every model here.

| Component | State | Operations | Talks to | Hard because |
|---|---|---|---|---|
| Task lifecycle (`a2a-router/src/task`) | none | `transitionTask`, `addArtifact` | called by the router | no-op on the same status, terminal statuses |
| A2A router (`a2a-router/src/router`) | `tasks`, `agentTaskCounts` | create, delegate, cancel, transition, message, artifact | lifecycle, card registry; called by A2A service | slots counted apart from tasks; `delegateTask` awaits in the middle |
| Agent cards (`a2a-router/src/agent-card`) | `cards`, `nameIndex` | register, update, unregister, fetch | router, remote agents | two indexes, fetch across an await |
| Allow list (`mcp-gateway/src/governance`) | `entries`, `globalDenied` | allow, deny, global deny, restrictive, remove | asked by the gateway | evaluation order |
| MCP gateway (`mcp-gateway/src/gateway`) | `servers`, `toolRegistry`, `activeCalls`, `auditLog` | register/unregister server, route call, shutdown | clients, local server, allow list, RBAC | four async operations on the same maps |
| MCP client (`mcp-gateway/src/client`) | connection state, `pendingRequests`, caches | connect, list, call, disconnect | SSE stream, POST | answers, timers and disconnects race |
| A2A / MCP services (`apps/server/src/{a2a,mcp}`) | database rows | the REST and JSON-RPC entry points | router, gateway, TypeORM | memory and rows written one after the other |
| Auth (`identity/src/webauthn`, `identity/src/token`, `server/src/auth`) | challenges, credential counters | register, login, refresh | users, agents | read, await, delete; counters |
| RBAC (`identity/src/rbac`, guards) | none | permission checks | every controller | a static table |
| Agent identities (`identity/src/agent-identity`, `server/src/identity`) | agents | create, update, verify | repositories | validation only |
| Rooms, messages (`server/src/messaging`, repositories) | rows | create room, send, react, read, edit | database | several writes without a transaction, read-modify-write |
| Real-time gateway (`server/src/gateway`) | `socketIdentities`, `userSockets`, socket.io rooms | auth, subscribe, typing, presence, disconnect | token verification, web client | disconnect during an await, timers |
| Rate limiter (`server/src/common/middleware`) | windows per key | `use`, `cleanup` | every request | windows, several limits on one counter |
| Interceptors, filters, health, configuration | none | wrap requests | - | - |
| Web client (`apps/web`) | socket, tokens | connect, login, logout | server | reconnects |

What makes each correct:

- **Router**: a slot is taken exactly while a task is open; an agent is not given
  more than its limit; a task gets one outcome; histories follow the table; a
  delegation is always linked into its original task.
- **Gateway**: a call holds a slot exactly while in flight, is audited once and
  ends; the routing table never points at a server that is gone, nor at one that knows
  nothing of the name; a name does not move between servers unless a qualified name is
  the same string; connections do not leak.
- **Allow list**: the last decision about a tool wins, global denial overrides,
  listing and deciding agree.
- **Client**: an answer settles its own request, once; every request ends.
- **A2A service**: what it answers of a task goes forward only, after failed writes
  and restarts too, or falls back in ways that can be named.
- **Tool calls over HTTP**: every tool that ran is on record, or its caller was told
  of an error.
- **Accounts**: a challenge that proved something proves nothing again; a credential
  counter goes down only by a stale write.
- **Tokens, identities**: no chain of logins and refreshes yields more than the
  subject's row grants; whose tokens verify an identity; names of agents are told
  apart.
- **Rooms, messages**: what a half-created room can look like; only members post;
  nothing is lost but to a call that saved what it had read earlier.
- **Agent cards**: a look-up by name finds the card of that name; no card keeps a
  signature over contents it no longer has.
- **Real-time gateway**: a user is online exactly while a live socket is theirs.
- **Rate limiter**: no window admits more than its limit.
- **Web session**: the API client, localStorage and the socket follow the session.

`PROJECT.json` lists, with its line, every hazard behind these.

## 2. Modules

| Module | Models | Role |
|---|---|---|
| `TaskLifecycle` | the task state machine, as operators on a task record | used by the router |
| `A2ATaskBoard` | what the router promises: one outcome per task, delegations linked once | abstract specification |
| `A2ARouter` | `A2ARouterService` | state machine, properties, refinement of the board |
| `A2ARouterProofs` | - | theorems about `A2ARouter` |
| `MCA2ARouter` | - | TLC instance (symmetry) |
| `AllowList` | `AllowList` | state machine; instantiated by the gateway |
| `AllowListProofs` | - | theorems about `AllowList` |
| `MCPGateway` | `GatewayService`, with the tool set of the local `MCPServer` | state machine, properties |
| `MCPGatewayProofs` | - | theorems about `MCPGateway` |
| `MCPGatewayMC` | - | TLC instance: names as concatenated strings, symmetry |
| `MCPClient` | `MCPClient` | state machine, properties |
| `MCPClientProofs` | - | theorems about `MCPClient` |
| `EventsGateway` | `EventsGateway` | state machine, properties |
| `EventsGatewayProofs` | - | theorems about `EventsGateway` |
| `A2AService` | `A2AService` over the router's memory and the table `a2a_tasks` | state machine, a property |
| `A2AServiceProofs` | - | theorems about `A2AService` and `AgentCards` |
| `Accounts` | the WebAuthn ceremonies of `AuthService`, the challenge store, the users table | state machine, properties |
| `AccountsProofs` | - | theorems about `Accounts` and `Identities` |
| `AgentCards` | `AgentCardService` and `signAgentCard` | state machine, a property |
| `Roles` | the permission table, `checkPermission`, the scopes of an agent | operators used by `Identities` and `ToolCalls` |
| `Identities` | `jwt.ts`, the two guards, `AgentService.createAgent`, manifests and their verification, the logins and `refresh` | state machine, a property |
| `Rooms` | `RoomService`, `MessageService` and the three tables under them | state machine, a property |
| `MessageRows` | `MessageRepository` on one row | state machine, a property |
| `RateLimiter` | `RateLimiterMiddleware` | state machine, a property |
| `WebSession` | `AuthProvider`, the API client's token, `SocketClient`, `localStorage` | state machine, a property |
| `ToolCalls` | `POST /mcp/invoke`: guard, `McpService`, the built-in tools, the row | state machine, a property |
| `Platform` | - | the nine modules above with a state, in one run |
| `PlatformProofs` | - | theorems about `RateLimiter`, `WebSession`, `ToolCalls`, `MessageRows`, `Rooms`, and about `Platform` from all nine |
| `Maps` | - | a JavaScript `Map` as a function on its keys |

Definitions carry the names of the code; `name_Mutant` definitions are the
faulty variants that show a property can fail (one per property, used by
`PROJECT.json` "mutants").

### A2ARouter

`tasks` is the Map of that name: a partial function from the task ids in use to
records. `messages` keeps, of each message, whether it is the link of a
delegation and to which task. `agentTaskCounts` is total, with 0 for "no entry"
(the code reads it with `?? 0`). `NoAgent` is the missing agent id that
`createTask` accepts. `delegations` holds the `delegateTask` calls between their
halves: `DelegateTask` is the code up to `await this.createTask`,
`LinkDelegation` the rest, which appends to the messages array of the task object
captured before the await; replacements of that object share the array, so the
append is visible whatever happened meanwhile. `overReleased` is a history
variable: the slots freed by closing a task that was closed already. The code
has no such count; `OverrunExplained` needs it to say by how much the limit can
be passed.

### AllowList

`entries` is a partial function, because an entity without an entry and one with
an empty entry differ only until `setRestrictive`. `lastSaid` is a history
variable, the last of `allowTool`/`denyTool` for each pair since the entity was
last removed, against which `LastDecisionWins` reads the evaluation order.

### MCPGateway

One `Client` value stands for the `MCPClient` of one `registerServer` call, and
carries the progress of that call: *connecting*, *listing* (tools, then
resources), *done*, *failed*. `servers` and `toolRegistry` are partial functions;
its keys are strings of one kind, `Name`. `qualified` gives `${serverId}:${tool.name}`,
of which the module assumes only what concatenation gives: the names one server makes of
two tools differ. A tool's own name may be a qualified name (a tool "s:t" and the tool
"t" of a server "s"), and two servers may share one; `MCPGatewayMC` concatenates
real strings among which both happen. A registration sets its qualified names whoever
has them, and a simple name if nobody does. `unregistering` counts, for each server, the
`unregisterServer` calls between `disconnect` and the deletions: nothing keeps two of one
server from overlapping, and then the second deletes what is registered under the id
by then. `shutdown` is the progress of the
loop over the live Map: `visited` are the entries it has passed, an entry deleted
and set again is a new one. `overlapped` is history: the clients whose `registerServer`
ran beside another one of the same server id or beside an `unregisterServer` of it, which
is how a connection can be left without an entry (`LeaksExplained`). `calls` and `auditLog` are per `routeToolCall`;
`DenyCall` and `FindNoServer` are the synchronous ends, `SendCall` runs to the
await of the tool, which it hands the name as the caller gave it (`sentTo` is the remote
server, if any), and `FinishCall` is everything after it, the `finally` block
included. Any action may come between two awaits. This is generous to the
environment in one place: `unregisterServer` resumes in the same turn of the event
loop, and a registration ends between only when two messages of one SSE chunk
resolve both.

### MCPClient

One `Attempt` is one call of `connectToServer` with the `EventSource` it creates;
`timers` and `sources` are per attempt because an abandoned one goes on firing.
`pendingRequests` maps ids to requests; a `Request` keeps its id, outcome and,
as history, which request's answer resolved it. An action is a callback with the
microtasks it resolves, with one exception: a promise that `cleanup` rejects runs
`connectToServer`'s catch block only when the caller of `disconnect()` has returned,
and that caller may call the client again first. The attempt is *failing* until
then; methods may be called, events and timers wait (`noMicrotask`).
`overlapped` is a history variable for the one way to lose an `EventSource`, two
calls of `connectToServer` at a time. The gateway makes one call per client, and
uses none of this generality: it belongs to the class, which the package exports.
In `MCPGateway` the same client is its `state` and the fact that a call ends, which
`EveryRequestEnds` establishes; a `connectToServer` that never returns is a
registration that takes no further step.

### EventsGateway

`socketIdentities` and `userSockets` are the two Maps; `identity` is
`client.identity`, which outlives the entry; `rooms` is what socket.io keeps. An
identity is abstracted to its user (`sub`; the suffix goes with it), a token to
the user it names or `NoUser`. `verifying` holds the `handleAuth` calls awaiting
`verifyToken`: `HandleAuth` is the code up to the await, `FinishAuth` the rest, and
the socket may end between them. Handlers run only for connected sockets, timers
(`typingTimers`) and continuations for any. On disconnect socket.io leaves the
rooms before it calls `handleDisconnect`, so the loop over `client.rooms` there
finds none and the offline broadcast reaches nobody; `Disconnect` has therefore no
message to send. `typing` is what the receivers have been told: who is typing
where. Three history variables say why an entry or an indicator stays behind:
`late` (authenticated after its end), `switched` (authenticated as two users) and
`cut` (users whose socket ended or switched while a timer ran). They mark real
faults of the code, and the properties say there are no others: without `late` and
`switched` a user is online only with a connected socket.

### A2AService

`router` is what `A2ARouterService` holds of the service's tasks, reduced to the two
statuses the service can bring about: through it a task is only created and
cancelled. `taskRows` is the table. `createTask` and `cancelTask` are the code up to
the `await` of the insert or the update, `saving` and `cancelling` what is on its way
to the database, `InsertLands`, `InsertFails`, `UpdateLands` and `UpdateFails` what
becomes of it; a restart loses the router, not what was sent. `getTask` and
`errorCode` are what the REST and the JSON-RPC entry points answer (an internal error,
-32603, when the save of `tasks/send` or the update of `tasks/cancel` throws). `replies` and
`missed` are history. (`a2a_tasks` has NOT NULL columns that `createTask` never
sets, so with the entity as it stands every insert fails; the model keeps both
outcomes.)

### Accounts

A ceremony is named by the user id `registerBegin` draws or by the challenge
`loginBegin` draws. A finish call is `at` "verifying" from its read of the challenge
and of the user's row until the verification ends, then "writing": the challenge is
deleted in between, and the row is written with what was read before. `stored` is
the counter it read. `Expire` and `Restart` are the store's time to live and its
being in memory. Emails are pairs, since `createUser` makes the username of the
local part and both columns are unique. The email of a finish is a parameter of its
own: the code never compares it with the one the ceremony began with. The
`register:` and `auth:` entries that bind a challenge to an email or a user are
written and never read, so they are not in the state. The comment on
`deleteChallenge` speaks of "ensuring one-time use" (challenge-store.ts:58); as a
challenge is read before the verification and deleted after, two finishes that overlap
may both succeed on it. `SpentBeforeWritten` is
what holds: none that begins later does. `StoreHasInterface` says
whether the store has the methods the ceremonies call; the one `AuthService` builds
has not (run `auth_store`), and the run `platform` takes one that has.

### Roles and Identities

`Roles` is the table of `roles.ts` and the scopes of `agent.service.ts` as they
stand. In `Identities` a token is its payload. `resolveRole` is the guard's: it reads
the role off the token, where `refresh` and `verify` answer with the row's, and
`TokensJustified`, the first part of `IdentitiesHold`, says that the two never differ. An
agent's name is three parts: the trimmed name, of which the rule about `(ai)` is
checked and which the manifest gets, and the blanks before and after it, which the row
and its unique column keep as they were sent. Agents can therefore share a manifest's
name while their rows differ in the blanks at one end, in number or in kind
(`NamesTold`); and blanks at the end, not those at the beginning, hide the suffix from
`checkSuffixEnforcement`, which looks at the name as it was sent. The manifest stored with an agent is
signed with a key pair that is drawn for it and thrown away, while the key in the
row is the client's; so `verifyAgentIdentity` takes an agent's own tokens and no
others with the drawn key, and none at all with the row's (`OwnTokensVerify`).
`updateAgent` and the deactivation
of an agent need `agent:update_any` and `agent:deactivate_any`, which no role that
`resolveRole` returns has: these routes always answer 403, and have no action.
`POST /mcp/invoke` likewise needs `mcp:tool_call`, which no human has. A refresh
token is never spent.

### Rooms and MessageRows

`creations` says how far each `createRoom` is: the room's row first, its owner, then
the members one by one, each an insert of its own that may be refused (the unique
index) or fail. `CheckSender` and `StoreMessage` are the two sides of the awaits in
`sendMessage`. The limit on members is on the request; with a creator the request
does not name, a room has one more. `MessageRows` is `MessageRepository` on one row:
`FindRow` is the read, `SaveRow` the write of the whole of what was read and
changed. TypeORM loads the row again before it saves and writes the columns that
differ, which comes to the same as long as that second read and the write are
taken as one step. No service calls these methods yet; they belong to the
repository, which is exported. Two things are taken to be repaired: the relation
`MessageEntity.sender` to `Object`, and the two foreign keys on one column of
`room_members`: the first keeps TypeORM from starting, the second refuses every member
that is not a user and an agent at once.

### RateLimiter

`Use` is a request, `cleanup` the timer, `Tick` the clock. The key is an address:
the middleware runs before the guards, so `request.user` is never there. One counter
per address serves all paths, so that requests to strict and to generous paths use up
each other's quota.

### AgentCards

A card is its name, its URL, whether it has a public key, and what its signature is
worth under that key. `updateCard` validates the card it has put together, then
signs it, then puts the old key back, and leaves the index alone. `discoverAgent`
waits for a fetch only if the registry has no card (the router answers with a cached
one of any age), and `FetchReturns` stores what comes whatever happened meanwhile.
`disturbed` is history: the names a rename or a fetch touched.

### WebSession

One tab. `session` is `AuthState` with the user a sign-in waits for; `page`,
`apiToken` and `stored` are the page, the API client's token and `localStorage`.
`sockets` are the sockets made since the page was loaded and `current` is
`SocketClient.socket`: `connect` replaces a socket that is not connected without
closing it. While a sign-in is under way `AppShell` renders no page, which is why
only one runs; its error goes to a form that is no longer there. The tokens are
simulated in the client, and stand for their user. `SignInUnstored` is
`localStorage.setItem` throwing in the middle of a sign-in: the state and the API token
are set, nothing is stored and no socket is made. `signedOver` and `unstored` are history.

### ToolCalls

The route's guard, `McpService.invokeTool`, the gateway's decision (the service
registers no remote server, so it takes no time), the six built-in handlers with
what each checks, and the row in `mcp_calls`, whose save is the only wait. An argument
that a tool's schema requires is missing, empty or filled: nothing checks the schema, and
the handlers test for truth, so that an empty string, which satisfies the schema, is
refused like a missing one (`create_room` checks nothing and refuses neither). Two
requests may be one and its retry: `requestId`, "for idempotency", is read by
nothing.

### Platform

These nine share no state: `A2AService` and `ToolCalls` each have a table of their
own, `Accounts` and `Identities` meet only in that a finished login is a
`HumanLogin`, `WebSession` talks to nothing but its simulation. So a behaviour of all
is, seen from one, a behaviour of that one, and `Platform` runs one of them at a time
(`part`) under one configuration: no interleaving is lost, since none of their
actions reads what another writes.

## 3. Runs

| Run | Instance | Shows |
|---|---|---|
| `a2a_slots` | 3 tasks, 2 agents with 1 slot, symmetry | type, no leaked slot, the limit up to repeated closings |
| `a2a_board` | 2 tasks, 1 agent, messages and an artifact | histories, delegation, refinement of `A2ATaskBoard`, links are written (liveness) |
| `a2a_limit` | 3 tasks, 1 agent | violation: a second `cancelTask` frees another task's slot |
| `a2a_no_agent` | 2 tasks, no agent id | violation: tasks without an agent keep their slots for ever |
| `mcp_calls` | 2 calls, 2 callers (1 permitted), limit 1, 1 server, 1 tool, its simple name governed | slots, limit, audit (liveness), the allow list |
| `mcp_servers` | 2 server ids, 3 registrations, 2 tools, names that collide, symmetry of the clients | routing table, connections |
| `mcp_listed` | 2 servers with the same tool | violation: a listed tool cannot be called |
| `mcp_client` | 2 attempts, 3 requests, `tools/list` and `tools/call` | requests, ids, cache, sources; every request and handshake ends (liveness) |
| `mcp_opening` | 1 attempt | violation: opening a connection may take for ever |
| `events` | 2 sockets, 2 users, 1 room, 2 timers, 1 token being verified | the two maps, presence, subscribers; typing indicators end (liveness) |
| `platform` | the nine services, one at a time (bounds below) | 10 properties, one or two to a service, and their types |
| `auth_store` | 2 registrations, 1 login, the store as `AuthService` builds it | violation: a begin request throws |

**Bounds.** Three tasks are the least with which one agent can hold an open task,
have a closed one closed again, and take a third past its limit; two agents
separate their counts. `MaxHistory` 2 to 3 lets a task reach every status kind,
`MaxOverReleases` 1 is the first over-release. Two calls suffice for the limit
(limit 1), for the clear-under-flight (one call before, one after) and for a
decrement of somebody else's count. Three registrations let two of one id overlap
while another id is registered, and let a server come back after unregistering; two
`unregisterServer` calls of one id (`maxUnregistering`) let the second delete an entry
made after the first. The ids "s" and "s:s" with the tools "t" and "s:t" make "s:t" a
qualified name and a tool's own, and "s:s:t" the qualified name of both servers.
`GovernedCaller` and `Governed` are whom and what the allow list is edited about.
Two attempts let the second start while the first is opening, is shaking hands, fails
or has gone; three requests are a handshake for each and a call between, or two
calls on one connection. Two sockets are two devices of one user or one of each of
two; a socket id is used once, as socket.io's are, so what one life of a socket can
leave behind is seen in full. Bounds are guards or the sizes of sets: every one is a CONSTANT whose comment says
"bound".

In `platform` a second of each thing is what lets two overlap: two registrations of
emails that differ but share a local part (the username collides), two logins and two
finishes at a time, two signatures (a counter can be written back out of order); two
calls on a row; two tasks; two URLs and three names (a rename onto a taken name and
onto a free one); two people and three sockets; two tool calls (a retry). One room
with up to two named members of three persons of two kinds meets a member twice, the
creator among the members, and a person who is not one. Limits 1 and 3, windows of
two ticks and six ticks of time hold two windows, the instant between them, and the
removal of an entry a window after its end; the limits differ so that one counter for
both shows. Two agents with one trimmed name and three kinds of blanks (none, one, two)
are told apart by number and by side; one human owns them (the theorem is about any
number). A tool call has at most one argument that is missing or empty (`MaxFlawed`):
each handler refuses a single one.


**Fairness.** `EveryDelegationLinked` assumes that the continuation after the
`await` of `delegateTask` runs: the promise it awaits is resolved already.
`EveryCallAuditedOnce` assumes that a call in flight ends: a remote one has a
timer in `MCPClient.sendRequest` (and is rejected by `disconnect`); a local one
is the application's handler, which is assumed to return. Callers, operators and
remote servers are under no obligation. `EveryRequestEnds` and `EveryConnectEnds`
assume that timers fire and that the catch block of a rejected promise runs;
`TypingEnds` that the typing timers fire.

**Disagreements found.** `a2a_limit`, `a2a_no_agent`, `mcp_listed`,
`mcp_opening` and `auth_store` are violations TLC finds; `PROJECT.json` "findings" quotes the lines. The passing
runs state what does hold around each: `OverrunExplained` (without repeated
closings the limit holds), `NoLeakedSlot` (for named agents), `NamesRoute`
(the second server's qualified name still leads to it; but it is handed that name as it
is, which only a server with a tool so named understands), `EveryRequestEnds` (from the
handshake on, a connection does end), and the properties of `Accounts` hold of
the same service over a store that has the methods it calls.

## 4. Proofs

Eight modules hold theorems; each states, for every value of the constants, what
the runs check on small instances, under the assumption of its component's module
(`RouterAssumption`, `GatewayAssumption`, `ClientAssumption`, `EventsAssumption`,
`AccountsAssumption`, `IdentitiesAssumption`, `MessageRowsAssumption`,
`RateLimiterAssumption`, `WebSessionAssumption`; the allow list, the A2A service, the
cards, the rooms and the tool calls need none). Every invariant and every action
property that a passing run checks is proved; what is not is at the end of this section.

**A2ARouterProofs.** `TypeCorrect` and `HistoriesLegal` are inductive as they are
(the second with the first). `SlotsNeverLeak` and `OverrunsExplained` come from
one invariant, `SlotInv`: the tasks are finitely many, no count is above the limit,
no agent has more slots than open tasks, and its open tasks are covered by its
slots and the over-releases. The two parts about slots need each other: a slot
taken back from a count of zero would break the first unless the second says an
open task is there. `RouterImplementsBoard` is the refinement of `A2ATaskBoard`;
it needs `DelegationsExist`, that the tasks of a delegation between its halves are
still on the board when its second half runs. From the steps of the board alone follow
`DelegatedOnce` (a task has one parent at most, which was there before it; its link is
owed or written, never both) and `LinksNeverLost`; with the first, `LinksWrittenOnce`
says of the messages themselves that no link is written twice.

**AllowListProofs.** `LastDecisionsWin` is not inductive: in an entity's
permissive mode nothing can be seen of its allowed set, which decides again when it
is made restrictive. `EntriesFollow` says what both sets hold at all times.
`ListingsAgree` follows from the types alone.

**MCPGatewayProofs.** `OverlapInv` says of registrations under way what they may find
when they end, and that it is on record in `overlapped`: another one of the same server
(`PairsOverlap`), an entry (`EntriesOverlap`), an unregistration (`ClosingOverlap`); and,
in `EntriesRegistered`, that an entry names the client that registered that server, so
that two servers never share one and closing a server leaves the others alone.
`TableInvariant` rests on it and carries `RoutesLead` and, for `NamesRoute`, `NamesFit`
(a name is that of its entry's tool or the qualified name of it), `RoutesListed` (the
tool is one its server listed, unless the server was entered twice) and `QualifiedHeld`
(a server keeps its qualified names, but for strings another may share). From it come
`NamesAlwaysRoute`, `SentNamesAlwaysKnown` (no call is sent to a server that knows
nothing of its name) and the action property `SimpleNamesAlwaysStay`.
`ConnectionsInvariant` carries `RegisteredAreConnected` and `LeaksExplained`, with
`ClosedOrReplaced`: the entry of a server being closed names the closed client, unless
it was entered twice, so that deleting it loses no connection that is not explained. `CallsInvariant` carries
`ActiveCallsCounted` and `LimitUntilShutdown`, each of which needs the other:
the limit is checked on the counts and holds of the calls. `ListInside` shows that
the gateway's steps are steps of `AllowList` or none, so the list's theorems hold
inside it (`LastDecisionsWinInside`, `ListingsAgreeInside`); `TypeCorrect` puts
the parts together. `CallsAlwaysAudited` follows the audit through the paths out of
`routeToolCall` (`AuditCases` leaves two kinds of them), `CallsEndOnce` is the action
property beside it.

**MCPClientProofs.** `ClientInvariant` carries `PendingUnsettled`, `AnswersMatch`,
`ConnectedCanPost` and `CacheOfConnection`. It needs `IdsUnique` (an answer finds its
own request because ids are never given out twice) and `MethodsConnected` (a list
that is answered was asked for on the present connection); `ConnectedCanPost` in turn
is why a request enters the Map unsettled. `ConnectionInvariant` proves
`NoStraySource` from `SourcesHeld`, which says whose an open source is.
`HandshakesInv` ties the two halves together: an attempt awaits its handshake exactly
while its request is in the Map (`HandshakesHeld`), which needs that no attempt sends
two (`OneHandshake`); that each attempt goes through its stages in order and settles
once (`AttemptsAdvance`) comes out of the same steps.

**EventsGatewayProofs.** `EventsInv` carries `MapsAgree` and `OnlineExplained`. It
needs `IdentityKnown` (otherwise a socket that authenticates again as the same user
could not be told from one that switches), `KnownWhileConnected` (from which, with
`IdentityKnown`, `SubscribersKnown` follows) and `VerifyingConnected` (an
authentication may finish too late, never too early). `ForgetRemoves` and `TrackAdds`
say what the two edits do to the pair of maps. `IndicatorsTimed` is about the typing
timers: whichever way a socket stops being the one a timer would speak for, by
its end or by a new identity, its user is recorded in `cut` in that step.

**A2AServiceProofs.** `ServiceInv` carries `AnswersAlwaysStand`. It needs
`ConfirmedHaveRows` (a task whose creation was confirmed has a row, so a restart
cannot make it disappear), `CancelsAccounted` (a task cancelled in memory has its
update on the way, in the row, or on record as missed) and `SavedOnce` (an insert that
lands never overwrites a row: otherwise it would undo a cancellation).

**AccountsProofs.** `AlwaysSpentBeforeWritten` needs `TracesOfBegun`: `begin` puts a
challenge into the store, and must not put back one that is spent, which holds because
nothing is left of a ceremony that has not begun. `CountersFallStale` is an action
property on `RowsOfResults` (a row is there because its registration was saved, so a
write of the registration over it is a second one) and `WritesAccepted` (a login about
to write was accepted over the counter it read). The provers handle the union of the
two kinds of finish call badly, so `CallKinds` splits it once.

Of `Identities`, `IdentitiesInv` says what the three parts of `IdentitiesHold` come from:
`WellIssued` of every token (its scopes are its agent's, and a refresh token's subject
has proved who it is), `AsCreated` of every row (nothing createAgent wrote is changed
later, the manifest included) and `NamesUnique` (by the names as they were sent, blanks
included, from which `NamesTold` follows).

**The cards, in A2AServiceProofs.** `LookupsConfined` speaks of sets of cards and is
not inductive; `InStep` says of a name that the index and the cards point at each other,
which each operation keeps for the names it does not touch. `CardShape` and
`UpdatedFacts` say what card an update, and the signing after it, leave;
`ValidatedCurrent` what the validation is worth. With `SignaturesCurrent` these give
`LookupsAlwaysConfined`.

**PlatformProofs.** Five services are proved here, and then all nine together.

- *Rate limiter.* `WindowsHold` counts requests, which no step-by-step argument bounds:
  `RateInv` says that the requests let through in a window are numbered from one on
  without gaps (`EntryOfLast`, `PassedInWindow`), that no number is given twice and
  windows of a key do not overlap (`WindowsApart`), and that a key without an entry is
  out of its windows (`NoEntryNoWindow`: why `cleanup`, which waits for two windows,
  forgets no number still in use). Counting is then done once: requests with numbers of
  their own are no more than the numbers (`NumberedRequests`, an injection), and a
  stretch as long as a window meets two windows of a key at the most (`TwoWindows`).
- *Web session.* `SocketFollowsSession` is inductive with the types and
  `WaitsForSomebody`; `ConnectKeeps` and `DisconnectKeeps` say what the two calls of
  `SocketClient` leave, whichever handler makes them.
- *Tool calls.* `CallsAccounted` is inductive with the types. Its part about denials
  rests on `GuardSuffices` (whom the route's guard lets through has the permission the
  gateway asks for, so a denial is of an unknown tool), the one about errors on
  `HandlersAnswer` (but for create_room, a handler refuses its arguments exactly if one
  that its tool's schema requires is missing or empty).
- *Rows of messages.* `OperationsTakeOwn` is what one operation does to a row, and
  `LostOnlyToOverlap` follows: a call that saves over the row it had read takes from
  nobody but its own caller.
- *Rooms.* `RoomsHold` is about rooms at rest and at every await of `createRoom`.
  `CreationOnItsWay` follows a creation through its inserts (who is named has a row or
  is still to be inserted), `RoomOfOwner` says who may be in a room, `SendersStay` that
  nobody who has passed `sendMessage`'s check stops being a member before it stores.
- *All nine.* `PlatformImplementsParts` is the composition: a step of the platform is,
  for each service, a step of its own or none, so `PlatformSpec` implies every
  component's specification. `PlatformTypeCorrect` and `PlatformAlwaysHolds` then carry
  over all that is proved of one service alone; the run `platform` checks the same
  formulas on its instance, one service at a time.

**Only model-checked: that things happen.** The prover has no rule for fairness and
the enabledness it speaks of, so the four liveness properties are TLC's. What they need
beside it is proved, so that fairness is all that is left to the runs:

| Property | Proved for every instance | Left to TLC |
|---|---|---|
| `EveryDelegationLinked` | `ContinuedDelegationsLinked`: a delegation that is not pending for ever is linked, and stays so | the second half of `delegateTask` runs |
| `EveryCallAuditedOnce` | `EndedCallsStayAudited`: a call that ends has its one entry from then on | the call ends |
| `EveryRequestEnds` | `PendingAlwaysUnsettled`, `HandshakesAlwaysHeld`: who waits has a timer; `AttemptsSettle`: once it is over the caller is told, for good | timers fire, catch blocks run |
| `TypingEnds` | `IndicatorsAlwaysTimed`: an indicator that shows has a timer that will stop it, or its user was cut off | timers fire, each of a finite number |

The bounds (`MaxTime`, `MaxSocket` and the like) are parameters of the theorems as of
the runs: what is proved holds for every bound.

## 5. Not modelled

- **Operations nothing can reach.** Updating and deleting rooms, changing and
  removing members: repository methods that no service calls, and simple writes.
  `updateAgent`, the deactivation of agents and `POST /mcp/servers` are behind
  permissions no resolved role has; `McpService.registerServer` throws "not yet
  implemented". If a role is given these permissions, `Identities` needs the
  actions, and `TokensJustified` will then be at risk: a token keeps the scopes it was
  made with.
- **Wrapping.** The exception filter, the response transform, health and
  configuration keep no state; the audit interceptor is bound to no controller.
- **Presentation.** The pages and components of the web client, over simulated
  data; `useSocket`, used by no page; the API client's paths under `/api/v1/identity`,
  which the server does not have, so a composition of the client with the server
  would model a conversation that cannot take place.
- **Cryptography and formats.** Signatures (modelled as the key they verify under),
  WebAuthn attestations, what a manifest declares, validation of strings beyond
  whether a name or an email is accepted, the OpenAPI files, logging, deployment.
- **The database.** TypeORM and PostgreSQL are modelled by what the code in `src/`
  gets from them: a statement happens once or fails, unique columns refuse, an insert
  sent before a crash may still be handled.

What would come next: `A2AService` over the whole of `A2ARouter` once a service can do
more with a task than create and cancel it.
