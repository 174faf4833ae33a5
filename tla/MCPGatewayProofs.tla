---------------------------- MODULE MCPGatewayProofs ----------------------------
(* What holds of the gateway for any servers, tools, callers and calls: its   *)
(* routing table, its call slots, and the allow list inside it.               *)
EXTENDS MCPGateway, TLAPS, FiniteSetTheorems

ListProofs == INSTANCE AllowListProofs WITH Entity <- Caller, ToolName <- Name

otherVars == <<unregistering, overlapped, localTools, calls, auditLog, listVars>>

\* The cases of a step, one per action; shutdown's steps are those of its loop.
LEMMA StepCases ==
  ASSUME [Next]_vars
  PROVE  \/ \E c \in Client, s \in Server : RegisterServer(c, s)
         \/ \E c \in Client : ConnectReturns(c) \/ ListingFails(c)
         \/ \E c \in Client, tools \in SUBSET Tool : ListingReturns(c, tools)
         \/ \E s \in Server : UnregisterServer(s)
         \/ \E s \in Server : FinishUnregister(s)
         \/ \E s \in Server : visit(s) /\ UNCHANGED otherVars
         \/ clearAll /\ UNCHANGED otherVars
         \/ \E t \in Tool : RegisterTool(t)
         \/ \E i \in Call, c \in Caller, n \in Name : RouteToolCall(i, c, n)
         \/ \E i \in Call : FinishCall(i)
         \/ EditAllowList
         \/ UNCHANGED vars
  BY Zenon DEF Next, Shutdown, ContinueShutdown, otherVars

\* Tool calls, local tools and the allow list do not touch the servers.
LEMMA ServersUntouched ==
  /\ \A t \in Tool : RegisterTool(t) => UNCHANGED serverVars
  /\ \A i \in Call, c \in Caller, n \in Name : RouteToolCall(i, c, n) => UNCHANGED serverVars
  /\ \A i \in Call : FinishCall(i) => UNCHANGED serverVars
  /\ EditAllowList => UNCHANGED serverVars
  /\ UNCHANGED vars => UNCHANGED serverVars
<1>1. ASSUME NEW t \in Tool, RegisterTool(t) PROVE UNCHANGED serverVars
  BY <1>1 DEF RegisterTool
<1>2. ASSUME NEW i \in Call, NEW c \in Caller, NEW n \in Name, RouteToolCall(i, c, n)
      PROVE  UNCHANGED serverVars
  BY <1>2, Zenon DEF RouteToolCall, DenyCall, FindNoServer, SendCall, begin
<1>3. ASSUME NEW i \in Call, FinishCall(i) PROVE UNCHANGED serverVars
  BY <1>3, Zenon DEF FinishCall
<1>4. ASSUME EditAllowList PROVE UNCHANGED serverVars
  BY <1>4, Zenon DEF EditAllowList
<1>5. ASSUME UNCHANGED vars PROVE UNCHANGED serverVars
  BY <1>5, Zenon DEF vars
<1> QED BY <1>1, <1>2, <1>3, <1>4, <1>5, Zenon

-----------------------------------------------------------------------------
(* Types.                                                                    *)

\* A new gateway is well typed.
LEMMA InitTypes == Init => TypeOK
<1> SUFFICES ASSUME Init PROVE TypeOK
  OBVIOUS
<1>1. TypeServers /\ TypeTable /\ TypeCalls /\ localTools \subseteq Tool
  BY GatewayAssumption DEF Init, TypeServers, TypeTable, TypeCalls, emptyMap
<1>2. List!TypeOK
  BY DEF Init, List!Init, List!TypeOK, List!Entry
<1> QED BY <1>1, <1>2 DEF TypeOK

\* Disconnecting the client of a registered server keeps the clients typed.
LEMMA DisconnectTyped ==
  ASSUME TypeServers, NEW s \in DOMAIN servers, disconnect(s)
  PROVE  /\ DOMAIN clients' = DOMAIN clients
         /\ clients' \in [DOMAIN clients ->
              [state : {"connecting", "connected", "error", "disconnected"},
               serverId : Server,
               registration : {"connecting", "listing", "done", "failed"}]]
  BY DEF TypeServers, disconnect

\* Every action keeps clients, servers and shutdown's progress typed.
LEMMA TypeServersStep == TypeServers /\ [Next]_vars => TypeServers'
<1> SUFFICES ASSUME TypeServers, [Next]_vars PROVE TypeServers'
  OBVIOUS
<1>1. ASSUME NEW c \in Client, NEW s \in Server, RegisterServer(c, s) PROVE TypeServers'
  BY <1>1 DEF RegisterServer, TypeServers, put, pending
<1>2. ASSUME NEW c \in Client, ConnectReturns(c) \/ ListingFails(c) PROVE TypeServers'
  <2>1. ASSUME NEW state \in {"connected", "error", clients[c].state},
               NEW registration \in {"listing", "failed"},
               c \in DOMAIN clients, UNCHANGED servers, advance(c, state, registration)
        PROVE  TypeServers'
    BY <2>1 DEF advance, TypeServers
  <2>2. CASE ConnectReturns(c)
    BY <2>1, <2>2 DEF ConnectReturns
  <2>3. CASE ListingFails(c)
    BY <2>1, <2>3 DEF ListingFails
  <2> QED BY <1>2, <2>2, <2>3
<1>3. ASSUME NEW c \in Client, NEW tools \in SUBSET Tool, ListingReturns(c, tools)
      PROVE  TypeServers'
  <2>1. /\ c \in DOMAIN clients /\ clients[c].serverId \in Server
        /\ clients' = [clients EXCEPT ![c] =
             [state |-> clients[c].state, serverId |-> clients[c].serverId,
              registration |-> "done"]]
    BY <1>3 DEF ListingReturns, advance, TypeServers
  <2>2. /\ DOMAIN clients' = DOMAIN clients
        /\ clients' \in [DOMAIN clients ->
             [state : {"connecting", "connected", "error", "disconnected"},
              serverId : Server,
              registration : {"connecting", "listing", "done", "failed"}]]
    BY <2>1 DEF TypeServers
  <2>3. /\ DOMAIN servers' \subseteq Server
        /\ servers' \in [DOMAIN servers' -> [client : DOMAIN clients, tools : SUBSET Tool]]
    BY <1>3, <2>1 DEF ListingReturns, TypeServers, put
  <2> QED BY <1>3, <2>2, <2>3 DEF ListingReturns, advance, TypeServers
<1>4. ASSUME NEW s \in Server, UnregisterServer(s) PROVE TypeServers'
  BY <1>4, DisconnectTyped DEF UnregisterServer, isRegistered, TypeServers
<1>5. ASSUME NEW s \in Server, FinishUnregister(s) PROVE TypeServers'
  BY <1>5 DEF FinishUnregister, restrictTo, TypeServers
<1>6. ASSUME NEW s \in Server, visit(s), UNCHANGED otherVars PROVE TypeServers'
  BY <1>6, DisconnectTyped DEF visit, otherVars, TypeServers
<1>7. ASSUME clearAll, UNCHANGED otherVars PROVE TypeServers'
  BY <1>7 DEF clearAll, emptyMap, otherVars, TypeServers
<1>8. ASSUME UNCHANGED serverVars PROVE TypeServers'
  BY <1>8 DEF serverVars, TypeServers
<1> QED
  BY <1>1, <1>2, <1>3, <1>4, <1>5, <1>6, <1>7, <1>8, StepCases, ServersUntouched, Zenon

-----------------------------------------------------------------------------
(* Registrations that overlap.                                               *)

isPending(c) == clients[c].registration \in {"connecting", "listing"}

\* Who an entry belongs to: two servers never share a client, so that closing one
\* leaves the other's connection alone.
EntriesRegistered ==
  \A s \in DOMAIN servers :
    /\ clients[servers[s].client].serverId = s
    /\ clients[servers[s].client].registration = "done"

\* What a registration that is under way may find when it ends, and that it is on
\* record: another one of its server, an entry, or a server that is being closed.
PairsOverlap ==
  \A c, d \in DOMAIN clients :
    c # d /\ clients[c].serverId = clients[d].serverId /\ isPending(c) /\ isPending(d)
      => c \in overlapped

EntriesOverlap ==
  \A c \in DOMAIN clients :
    isPending(c) /\ isRegistered(clients[c].serverId)
      => c \in overlapped /\ isEnteredTwice(clients[c].serverId)

ClosingOverlap ==
  \A c \in DOMAIN clients :
    isPending(c) /\ unregistering[clients[c].serverId] > 0 => c \in overlapped

OverlapInv ==
  /\ TypeServers /\ EntriesRegistered
  /\ PairsOverlap /\ EntriesOverlap /\ ClosingOverlap
  /\ shutdown.visited \subseteq DOMAIN servers

\* A registration before its last step changes one client, and no other state but
\* the record of overlaps.
LEMMA PendingSteps ==
  ASSUME TypeServers, NEW c \in Client,
         \/ \E s \in Server : RegisterServer(c, s)
         \/ ConnectReturns(c) \/ ListingFails(c)
  PROVE  /\ UNCHANGED <<servers, unregistering, shutdown>>
         /\ DOMAIN clients' = DOMAIN clients \cup {c}
         /\ \A d \in DOMAIN clients \ {c} : clients'[d] = clients[d]
         /\ c \in DOMAIN clients =>
              /\ isPending(c)
              /\ clients'[c].serverId = clients[c].serverId
         /\ \/ clients'[c].registration = "connecting" /\ clients'[c].state = "connecting"
            \/ clients'[c].registration = "listing" /\ clients'[c].state = "connected"
            \/ clients'[c].registration = "failed"
         /\ overlapped \subseteq overlapped'
<1>1. ASSUME NEW s \in Server, RegisterServer(c, s)
      PROVE  /\ c \notin DOMAIN clients
             /\ UNCHANGED <<servers, unregistering, shutdown>>
             /\ DOMAIN clients' = DOMAIN clients \cup {c}
             /\ \A d \in DOMAIN clients \ {c} : clients'[d] = clients[d]
             /\ clients'[c].registration = "connecting" /\ clients'[c].state = "connecting"
             /\ overlapped \subseteq overlapped'
  BY <1>1 DEF RegisterServer, put
<1>2. ASSUME NEW state, NEW registration, c \in DOMAIN clients, advance(c, state, registration)
      PROVE  /\ UNCHANGED <<unregistering, shutdown, overlapped>>
             /\ DOMAIN clients' = DOMAIN clients
             /\ \A d \in DOMAIN clients \ {c} : clients'[d] = clients[d]
             /\ clients'[c].serverId = clients[c].serverId
             /\ clients'[c].state = state /\ clients'[c].registration = registration
  BY <1>2 DEF advance, TypeServers
<1>3. CASE ConnectReturns(c)
  <2>1. /\ c \in DOMAIN clients /\ isPending(c) /\ UNCHANGED servers
        /\ advance(c, "connected", "listing") \/ advance(c, "error", "failed")
    BY <1>3, Zenon DEF ConnectReturns, isPending
  <2>2. CASE advance(c, "connected", "listing")
    BY <1>2, <2>1, <2>2
  <2>3. CASE advance(c, "error", "failed")
    BY <1>2, <2>1, <2>3
  <2> QED BY <2>1, <2>2, <2>3, Zenon
<1>4. CASE ListingFails(c)
  <2>1. /\ c \in DOMAIN clients /\ isPending(c) /\ UNCHANGED servers
        /\ advance(c, clients[c].state, "failed")
    BY <1>4 DEF ListingFails, isPending
  <2> QED BY <1>2, <2>1
<1> QED BY <1>1, <1>3, <1>4

\* The last step of a registration sets the server's entry, whatever was there.
enters(c, s, tools) ==
  /\ c \in DOMAIN clients /\ clients[c].registration = "listing"
  /\ clients[c].serverId = s /\ clients'[c].serverId = s
  /\ UNCHANGED <<unregistering, shutdown, overlapped>>
  /\ DOMAIN clients' = DOMAIN clients
  /\ \A d \in DOMAIN clients \ {c} : clients'[d] = clients[d]
  /\ clients'[c].state = clients[c].state /\ clients'[c].registration = "done"
  /\ DOMAIN servers' = DOMAIN servers \cup {s}
  /\ servers'[s].client = c /\ servers'[s].tools = tools
  /\ \A r \in DOMAIN servers \ {s} : servers'[r] = servers[r]
  /\ toolRegistry' = tableWith(s, tools)

\* What the end of a registration does to clients, servers and table.
LEMMA LastStep ==
  ASSUME TypeServers, NEW c \in Client, NEW tools \in SUBSET Tool, ListingReturns(c, tools)
  PROVE  \E s \in Server : enters(c, s, tools)
<1> PICK s \in Server : s = clients[c].serverId
  BY DEF ListingReturns, TypeServers
<1>1. /\ c \in DOMAIN clients /\ clients[c].registration = "listing"
      /\ UNCHANGED <<unregistering, shutdown, overlapped>>
      /\ clients' = [clients EXCEPT ![c] =
           [state |-> clients[c].state, serverId |-> s, registration |-> "done"]]
  BY DEF ListingReturns, advance, TypeServers
<1>2. /\ DOMAIN servers' = DOMAIN servers \cup {s}
      /\ servers'[s].client = c /\ servers'[s].tools = tools
      /\ \A r \in DOMAIN servers \ {s} : servers'[r] = servers[r]
      /\ toolRegistry' = tableWith(s, tools)
  BY DEF ListingReturns, put
<1>3. /\ DOMAIN clients' = DOMAIN clients
      /\ \A d \in DOMAIN clients \ {c} : clients'[d] = clients[d]
      /\ clients'[c].state = clients[c].state /\ clients'[c].serverId = s
      /\ clients'[c].registration = "done"
  BY <1>1
<1> QED BY <1>1, <1>2, <1>3 DEF enters

\* Closing a server's client changes that client's state alone.
LEMMA CloseStep ==
  ASSUME OverlapInv, NEW s \in DOMAIN servers, disconnect(s)
  PROVE  /\ DOMAIN clients' = DOMAIN clients
         /\ clients'[servers[s].client].state = "disconnected"
         /\ \A d \in DOMAIN clients \ {servers[s].client} : clients'[d] = clients[d]
         /\ \A d \in DOMAIN clients :
              /\ clients'[d].serverId = clients[d].serverId
              /\ clients'[d].registration = clients[d].registration
  BY DEF OverlapInv, disconnect, TypeServers

\* Every action keeps the record of overlaps true.
LEMMA OverlapStep == OverlapInv /\ [Next]_vars => OverlapInv'
<1> SUFFICES ASSUME OverlapInv, [Next]_vars PROVE OverlapInv'
  OBVIOUS
<1>typed. TypeServers /\ TypeServers'
  BY TypeServersStep DEF OverlapInv
<1>1. ASSUME NEW c \in Client, NEW s \in Server, RegisterServer(c, s) PROVE OverlapInv'
  <2>1. /\ c \notin DOMAIN clients /\ ~isRegistered(s)
        /\ clients'[c].serverId = s
        /\ UNCHANGED <<servers, unregistering, shutdown>>
        /\ DOMAIN clients' = DOMAIN clients \cup {c}
        /\ \A d \in DOMAIN clients : clients'[d] = clients[d]
        /\ overlapped \subseteq overlapped'
        /\ pending(s) # {} => pending(s) \cup {c} \subseteq overlapped'
        /\ unregistering[s] > 0 => c \in overlapped'
    BY <1>1 DEF RegisterServer, put
  <2>2. \A d \in DOMAIN clients : clients[d].serverId = s /\ isPending(d) => d \in pending(s)
    BY DEF pending, isPending
  <2>3. PairsOverlap'
    BY <2>1, <2>2 DEF OverlapInv, PairsOverlap, isPending
  <2>4. EntriesOverlap' /\ ClosingOverlap' /\ EntriesRegistered'
    BY <1>typed, <2>1
    DEF OverlapInv, TypeServers, EntriesOverlap, ClosingOverlap, EntriesRegistered, isPending,
        isRegistered, isEnteredTwice
  <2> QED BY <1>typed, <2>1, <2>3, <2>4 DEF OverlapInv
<1>2. ASSUME NEW c \in Client, ConnectReturns(c) \/ ListingFails(c) PROVE OverlapInv'
  <2>1. /\ UNCHANGED <<servers, unregistering, shutdown>>
        /\ c \in DOMAIN clients /\ DOMAIN clients' = DOMAIN clients
        /\ \A d \in DOMAIN clients \ {c} : clients'[d] = clients[d]
        /\ isPending(c) /\ clients'[c].serverId = clients[c].serverId
        /\ overlapped \subseteq overlapped'
    <3>1. c \in DOMAIN clients
      BY <1>2 DEF ConnectReturns, ListingFails
    <3> QED BY <1>typed, <1>2, <3>1, PendingSteps
  <2>2. \A d \in DOMAIN clients : isPending(d)' => isPending(d)
    BY <2>1 DEF isPending
  <2>3. \A s \in DOMAIN servers : servers[s].client # c /\ servers[s].client \in DOMAIN clients
    BY <1>typed, <2>1 DEF OverlapInv, TypeServers, EntriesRegistered, isPending
  <2> QED
    BY <1>typed, <2>1, <2>2, <2>3
    DEF OverlapInv, PairsOverlap, EntriesOverlap, ClosingOverlap, EntriesRegistered,
        isRegistered, isEnteredTwice
<1>3. ASSUME NEW c \in Client, NEW tools \in SUBSET Tool, ListingReturns(c, tools)
      PROVE  OverlapInv'
  <2> PICK s \in Server : enters(c, s, tools)
    BY <1>typed, <1>3, LastStep
  <2> USE DEF enters
  <2>1. \A d \in DOMAIN clients : isPending(d)' => isPending(d) /\ d # c /\ clients'[d] = clients[d]
    BY DEF isPending
  <2>2. \A r \in DOMAIN servers : servers[r].client # c /\ servers[r].client \in DOMAIN clients
    BY <1>typed DEF OverlapInv, TypeServers, EntriesRegistered
  <2>3. EntriesRegistered'
    BY <2>2 DEF OverlapInv, EntriesRegistered
  <2>4. PairsOverlap' /\ ClosingOverlap'
    BY <2>1 DEF OverlapInv, PairsOverlap, ClosingOverlap
  <2>5. EntriesOverlap'
    <3> SUFFICES ASSUME NEW d \in DOMAIN clients, isPending(d)',
                        clients'[d].serverId \in DOMAIN servers'
                 PROVE  d \in overlapped /\ servers'[clients'[d].serverId].client \in overlapped
      BY DEF EntriesOverlap, isRegistered, isEnteredTwice
    <3>1. isPending(d) /\ d # c /\ clients'[d] = clients[d] /\ isPending(c)
      BY <2>1 DEF isPending
    <3>2. CASE clients[d].serverId = s
      BY <3>1, <3>2 DEF OverlapInv, PairsOverlap
    <3>3. CASE clients[d].serverId # s
      BY <3>1, <3>3 DEF OverlapInv, EntriesOverlap, isRegistered, isEnteredTwice
    <3> QED BY <3>2, <3>3
  <2> QED BY <1>typed, <2>3, <2>4, <2>5 DEF OverlapInv
<1>4. ASSUME NEW s \in DOMAIN servers, disconnect(s), UNCHANGED <<servers, overlapped>>,
             \A r \in Server \ {s} : unregistering'[r] = unregistering[r],
             shutdown'.visited \subseteq shutdown.visited \cup {s}
      PROVE  OverlapInv'
  <2>1. /\ DOMAIN clients' = DOMAIN clients
        /\ \A d \in DOMAIN clients :
             /\ clients'[d].serverId = clients[d].serverId
             /\ clients'[d].registration = clients[d].registration
    BY <1>4, CloseStep
  <2>2. EntriesRegistered' /\ PairsOverlap' /\ EntriesOverlap'
    BY <1>typed, <1>4, <2>1
    DEF OverlapInv, TypeServers, EntriesRegistered, PairsOverlap, EntriesOverlap, isPending,
        isRegistered, isEnteredTwice
  <2>3. ClosingOverlap'
    <3> SUFFICES ASSUME NEW d \in DOMAIN clients, isPending(d),
                        unregistering'[clients[d].serverId] > 0
                 PROVE  d \in overlapped
      BY <1>4, <2>1 DEF ClosingOverlap, isPending
    <3>1. CASE clients[d].serverId = s
      BY <1>4, <3>1 DEF OverlapInv, EntriesOverlap, isRegistered
    <3>2. CASE clients[d].serverId # s
      BY <1>typed, <1>4, <3>2 DEF OverlapInv, ClosingOverlap, TypeServers
    <3> QED BY <3>1, <3>2
  <2>4. shutdown'.visited \subseteq DOMAIN servers'
    BY <1>4 DEF OverlapInv
  <2> QED BY <1>typed, <2>2, <2>3, <2>4 DEF OverlapInv
<1>5. ASSUME NEW s \in Server, UnregisterServer(s) PROVE OverlapInv'
  BY <1>typed, <1>4, <1>5 DEF UnregisterServer, isRegistered, TypeServers
<1>6. ASSUME NEW s \in Server, visit(s), UNCHANGED otherVars PROVE OverlapInv'
  BY <1>4, <1>6 DEF visit, otherVars
<1>7. ASSUME UNCHANGED <<clients, overlapped>>, NEW S,
             DOMAIN servers' = DOMAIN servers \ S,
             \A r \in DOMAIN servers \ S : servers'[r] = servers[r],
             \A r \in Server : unregistering'[r] > 0 => unregistering[r] > 0,
             shutdown'.visited \subseteq shutdown.visited \ S
      PROVE  OverlapInv'
  BY <1>typed, <1>7
  DEF OverlapInv, TypeServers, EntriesRegistered, PairsOverlap, EntriesOverlap, ClosingOverlap,
      isPending, isRegistered, isEnteredTwice
<1>8. ASSUME NEW s \in Server, FinishUnregister(s) PROVE OverlapInv'
  BY <1>typed, <1>7, <1>8 DEF FinishUnregister, restrictTo, TypeServers
<1>9. ASSUME clearAll, UNCHANGED otherVars PROVE OverlapInv'
  <2>1. /\ UNCHANGED <<clients, overlapped, unregistering>>
        /\ DOMAIN servers' = DOMAIN servers \ DOMAIN servers /\ shutdown'.visited = {}
    BY <1>9 DEF clearAll, otherVars, emptyMap
  <2> QED BY <1>7, <2>1
<1>10. ASSUME UNCHANGED serverVars PROVE OverlapInv'
  BY <1>typed, <1>10
  DEF serverVars, OverlapInv, EntriesRegistered, PairsOverlap, EntriesOverlap, ClosingOverlap,
      isPending, isRegistered, isEnteredTwice
<1> QED
  BY <1>1, <1>2, <1>3, <1>5, <1>6, <1>8, <1>9, <1>10, StepCases, ServersUntouched, Zenon

-----------------------------------------------------------------------------
(* The routing table.                                                        *)

\* A name's entry is the tool of that name, or the one the name qualifies.
NamesFit ==
  \A n \in DOMAIN toolRegistry :
    \/ toolRegistry[n].tool = n
    \/ n = qualified[<<toolRegistry[n].serverId, toolRegistry[n].tool>>]

\* Its server is registered with that tool, unless the server was entered twice.
RoutesListed ==
  \A n \in DOMAIN toolRegistry :
    \/ toolRegistry[n].tool \in servers[toolRegistry[n].serverId].tools
    \/ isEnteredTwice(toolRegistry[n].serverId)

\* The table has the qualified names that no other server may have.
hasQualified(s, t) ==
  \/ /\ qualified[<<s, t>>] \in DOMAIN toolRegistry
     /\ toolRegistry[qualified[<<s, t>>]] = Route(s, t)
  \/ isShared(s, t)

QualifiedHeld == \A s \in DOMAIN servers : \A t \in servers[s].tools : hasQualified(s, t)

TableInv ==
  OverlapInv /\ TypeTable /\ RoutesLead /\ NamesFit /\ RoutesListed /\ QualifiedHeld

\* A qualified name is a name.
LEMMA QualifiedTyped == \A s \in Server, t \in Tool : qualified[<<s, t>>] \in Name
  BY QualifiedAssumption

\* The table after a registration: who has which name.
LEMMA TableWith ==
  ASSUME NEW s \in Server, NEW tools \in SUBSET Tool
  PROVE  /\ DOMAIN tableWith(s, tools) =
              qualifiedNames(s, tools) \cup DOMAIN toolRegistry \cup tools
         /\ \A t \in tools : tableWith(s, tools)[qualified[<<s, t>>]] = Route(s, t)
         /\ \A n \in DOMAIN toolRegistry \ qualifiedNames(s, tools) :
              tableWith(s, tools)[n] = toolRegistry[n]
         /\ \A t \in tools \ (DOMAIN toolRegistry \cup qualifiedNames(s, tools)) :
              tableWith(s, tools)[t] = Route(s, t)
<1>1. \A t \in tools :
        /\ qualified[<<s, t>>] \in qualifiedNames(s, tools)
        /\ qualifiedTool(s, qualified[<<s, t>>]) = t
  <2> SUFFICES ASSUME NEW t \in tools
               PROVE  qualifiedTool(s, qualified[<<s, t>>]) = t
    BY DEF qualifiedNames
  <2>1. \A u \in Tool : qualified[<<s, t>>] = qualified[<<s, u>>] => u = t
    BY QualifiedAssumption
  <2> QED BY <2>1 DEF qualifiedTool
<1> QED BY <1>1 DEF tableWith, namesWith

\* Every action keeps the routing table's invariant.
LEMMA TableInvStep == TableInv /\ [Next]_vars => TableInv'
<1> SUFFICES ASSUME TableInv, [Next]_vars PROVE TableInv'
  OBVIOUS
<1>0. OverlapInv /\ OverlapInv' /\ TypeServers /\ TypeServers'
  BY OverlapStep DEF TableInv, OverlapInv
<1>1. ASSUME UNCHANGED <<servers, toolRegistry>>, overlapped \subseteq overlapped'
      PROVE  TableInv'
  BY <1>0, <1>1
  DEF TableInv, TypeTable, NamesFit, RoutesLead, RoutesListed, isRegistered, isEnteredTwice,
      QualifiedHeld, hasQualified, isShared
<1>2. ASSUME NEW c \in Client, NEW tools \in SUBSET Tool, ListingReturns(c, tools)
      PROVE  TableInv'
  <2> PICK s \in Server : enters(c, s, tools)
    BY <1>0, <1>2, LastStep
  <2>2. /\ toolRegistry' = tableWith(s, tools)
        /\ c \in DOMAIN clients /\ isPending(c) /\ clients[c].serverId = s
        /\ UNCHANGED overlapped
        /\ DOMAIN servers' = DOMAIN servers \cup {s}
        /\ servers'[s].client = c /\ servers'[s].tools = tools
        /\ \A r \in DOMAIN servers \ {s} : servers'[r] = servers[r]
    BY DEF enters, isPending
  <2>table. /\ DOMAIN toolRegistry' = qualifiedNames(s, tools) \cup DOMAIN toolRegistry \cup tools
            /\ \A t \in tools : toolRegistry'[qualified[<<s, t>>]] = Route(s, t)
            /\ \A n \in DOMAIN toolRegistry \ qualifiedNames(s, tools) :
                 toolRegistry'[n] = toolRegistry[n]
            /\ \A t \in tools \ (DOMAIN toolRegistry \cup qualifiedNames(s, tools)) :
                 toolRegistry'[t] = Route(s, t)
    <3>1. toolRegistry' = tableWith(s, tools)
      BY <2>2
    <3> QED BY <3>1, TableWith, Zenon
  <2>names. qualifiedNames(s, tools) \subseteq Name /\ tools \subseteq Name
    BY QualifiedTyped, GatewayAssumption DEF qualifiedNames
  <2> DEFINE Old(n) == n \in DOMAIN toolRegistry /\ toolRegistry'[n] = toolRegistry[n]
             New(n, t) == /\ n = qualified[<<s, t>>] \/ n = t
                          /\ toolRegistry'[n] = Route(s, t)
                          /\ toolRegistry'[n].serverId = s /\ toolRegistry'[n].tool = t
  <2>3. \A n \in DOMAIN toolRegistry' : Old(n) \/ \E t \in tools : New(n, t)
    <3> SUFFICES ASSUME NEW n \in DOMAIN toolRegistry'
                 PROVE  Old(n) \/ \E t \in tools : New(n, t)
      OBVIOUS
    <3>1. ASSUME NEW t \in tools, n = qualified[<<s, t>>] \/ n = t,
                 toolRegistry'[n] = Route(s, t)
          PROVE  New(n, t)
      BY <3>1 DEF Route
    <3> HIDE DEF New
    <3>2. CASE n \in qualifiedNames(s, tools)
      <4>1. PICK t \in tools : n = qualified[<<s, t>>]
        BY <3>2 DEF qualifiedNames
      <4>2. toolRegistry'[n] = Route(s, t)
        BY <2>table, <4>1
      <4> QED BY <3>1, <4>1, <4>2
    <3>3. CASE n \in DOMAIN toolRegistry \ qualifiedNames(s, tools)
      BY <2>table, <3>3
    <3>4. CASE n \in tools \ (DOMAIN toolRegistry \cup qualifiedNames(s, tools))
      BY <2>table, <3>1, <3>4
    <3> QED BY <2>table, <3>2, <3>3, <3>4
  <2>4. TypeTable'
    <3>1. ASSUME NEW n \in DOMAIN toolRegistry'
          PROVE  n \in Name /\ toolRegistry'[n] \in [serverId : Server, tool : Tool]
      <4>1. CASE Old(n)
        BY <4>1 DEF TableInv, TypeTable
      <4>2. ASSUME NEW t \in tools, New(n, t)
            PROVE  n \in Name /\ toolRegistry'[n] \in [serverId : Server, tool : Tool]
        <5>1. n \in Name
          BY <4>2, QualifiedTyped, GatewayAssumption
        <5> QED BY <4>2, <5>1 DEF Route
      <4> QED BY <2>3, <4>1, <4>2
    <3>2. toolRegistry' = [n \in DOMAIN toolRegistry' |-> toolRegistry'[n]]
      BY <2>2, Zenon DEF tableWith
    <3> QED BY <3>1, <3>2 DEF TypeTable
  <2>5. NamesFit'
    BY <2>3 DEF TableInv, NamesFit
  <2>6. RoutesLead'
    BY <2>2, <2>3 DEF TableInv, RoutesLead, isRegistered
  <2>7. RoutesListed'
    <3>1. isRegistered(s) => isEnteredTwice(s)'
      BY <1>0, <2>2 DEF OverlapInv, EntriesOverlap, isEnteredTwice
    <3> SUFFICES ASSUME NEW n \in DOMAIN toolRegistry'
                 PROVE  \/ toolRegistry'[n].tool \in servers'[toolRegistry'[n].serverId].tools
                        \/ servers'[toolRegistry'[n].serverId].client \in overlapped'
      BY DEF RoutesListed, isEnteredTwice
    <3>4. CASE Old(n)
      <4>1. toolRegistry[n].serverId \in DOMAIN servers
        BY <3>4 DEF TableInv, RoutesLead, isRegistered
      <4>2. CASE toolRegistry[n].serverId = s
        BY <2>2, <3>1, <3>4, <4>1, <4>2 DEF isRegistered, isEnteredTwice
      <4>3. CASE toolRegistry[n].serverId # s
        BY <2>2, <3>4, <4>1, <4>3 DEF TableInv, RoutesListed, isEnteredTwice
      <4> QED BY <4>2, <4>3
    <3> QED BY <2>2, <2>3, <3>4
  <2>8. QualifiedHeld'
    <3> SUFFICES ASSUME NEW x \in DOMAIN servers', NEW t \in servers'[x].tools, ~isShared(x, t)
                 PROVE  /\ qualified[<<x, t>>] \in DOMAIN toolRegistry'
                        /\ toolRegistry'[qualified[<<x, t>>]] = Route(x, t)
      BY DEF QualifiedHeld, hasQualified, isShared, Route, qualifiedNames
    <3>1. CASE x = s
      BY <2>2, <2>table, <3>1 DEF qualifiedNames
    <3>2. CASE x # s
      <4>1. /\ qualified[<<x, t>>] \in DOMAIN toolRegistry
            /\ toolRegistry[qualified[<<x, t>>]] = Route(x, t)
        BY <2>2, <3>2 DEF TableInv, QualifiedHeld, hasQualified
      <4>2. qualified[<<x, t>>] \notin qualifiedNames(s, tools)
        BY <2>2, <3>2 DEF isShared, qualifiedNames
      <4> QED BY <2>table, <4>1, <4>2
    <3> QED BY <3>1, <3>2
  <2> QED BY <1>0, <2>4, <2>5, <2>6, <2>7, <2>8 DEF TableInv
<1>3. ASSUME NEW s \in Server, FinishUnregister(s) PROVE TableInv'
  <2>1. /\ DOMAIN servers' = DOMAIN servers \ {s} /\ UNCHANGED overlapped
        /\ \A x \in DOMAIN servers \ {s} : servers'[x] = servers[x]
        /\ \A n : n \in DOMAIN toolRegistry' <=>
                  n \in DOMAIN toolRegistry /\ toolRegistry[n].serverId # s
        /\ \A n \in DOMAIN toolRegistry' : toolRegistry'[n] = toolRegistry[n]
        /\ toolRegistry' = [n \in DOMAIN toolRegistry' |-> toolRegistry[n]]
    BY <1>3 DEF FinishUnregister, restrictTo, tableWithout
  <2>2. TypeTable' /\ NamesFit'
    BY <2>1 DEF TableInv, TypeTable, NamesFit
  <2>3. RoutesLead' /\ RoutesListed'
    BY <2>1 DEF TableInv, RoutesLead, RoutesListed, isRegistered, isEnteredTwice
  <2>4. QualifiedHeld'
    <3> SUFFICES ASSUME NEW x \in DOMAIN servers', NEW t \in servers'[x].tools, ~isShared(x, t)
                 PROVE  /\ qualified[<<x, t>>] \in DOMAIN toolRegistry'
                        /\ toolRegistry'[qualified[<<x, t>>]] = Route(x, t)
      BY DEF QualifiedHeld, hasQualified, isShared, Route, qualifiedNames
    <3>1. /\ x # s /\ qualified[<<x, t>>] \in DOMAIN toolRegistry
          /\ toolRegistry[qualified[<<x, t>>]] = Route(x, t)
      BY <2>1 DEF TableInv, QualifiedHeld, hasQualified
    <3>2. toolRegistry[qualified[<<x, t>>]].serverId = x
      BY <3>1 DEF Route
    <3> QED BY <2>1, <3>1, <3>2
  <2> QED BY <1>0, <2>2, <2>3, <2>4 DEF TableInv
<1>4. ASSUME clearAll PROVE TableInv'
  BY <1>0, <1>4
  DEF clearAll, emptyMap, TableInv, TypeTable, NamesFit, RoutesLead, RoutesListed, QualifiedHeld
<1>5. ASSUME NEW c \in Client,
             \/ \E s \in Server : RegisterServer(c, s)
             \/ ConnectReturns(c) \/ ListingFails(c)
      PROVE  UNCHANGED <<servers, toolRegistry>> /\ overlapped \subseteq overlapped'
  <2>1. UNCHANGED servers /\ overlapped \subseteq overlapped'
    BY <1>0, <1>5, PendingSteps
  <2>2. UNCHANGED toolRegistry
    BY <1>5, Zenon DEF RegisterServer, ConnectReturns, ListingFails
  <2> QED BY <2>1, <2>2
<1>6. \A s \in Server :
        /\ UnregisterServer(s) => UNCHANGED <<servers, toolRegistry, overlapped>>
        /\ visit(s) /\ UNCHANGED otherVars => UNCHANGED <<servers, toolRegistry, overlapped>>
  BY DEF UnregisterServer, visit, otherVars
<1>7. UNCHANGED serverVars => UNCHANGED <<servers, toolRegistry, overlapped>>
  BY DEF serverVars
<1>8. UNCHANGED <<servers, toolRegistry, overlapped>> => TableInv'
  BY <1>1
<1> QED
  BY <1>1, <1>2, <1>3, <1>4, <1>5, <1>6, <1>7, <1>8, StepCases, ServersUntouched, Zenon

\* The table and the servers stay in step through every interleaving of
\* registrations, unregistrations and shutdown.
THEOREM TableInvariant == Spec => []TableInv
<1>1. Init => TableInv
  <2>1. Init => TypeServers /\ TypeTable
    BY InitTypes DEF TypeOK
  <2> QED
    BY <2>1
    DEF Init, emptyMap, TableInv, OverlapInv, EntriesRegistered, PairsOverlap, EntriesOverlap,
        ClosingOverlap, NamesFit, RoutesLead, RoutesListed, QualifiedHeld
<1> QED BY <1>1, TableInvStep, PTL DEF Spec

\* At no await does the table name a server that is gone.
THEOREM RoutesAlwaysLead == Spec => []RoutesLead
  BY TableInvariant, PTL DEF TableInv

\* Every name in the table is known where it leads, however names collide.
LEMMA NamesKnown ==
  ASSUME TableInv, NEW n \in DOMAIN toolRegistry
  PROVE  isKnown(toolRegistry[n].serverId, n)
<1> DEFINE s == toolRegistry[n].serverId
           t == toolRegistry[n].tool
<1>1. isRegistered(s) /\ (t = n \/ n = qualified[<<s, t>>])
  BY DEF TableInv, RoutesLead, NamesFit
<1>2. t \in servers[s].tools \/ isEnteredTwice(s)
  BY DEF TableInv, RoutesListed
<1> HIDE DEF s, t
<1>3. isKnown(s, n)
  BY <1>1, <1>2 DEF isKnown, isUnderstood, isOwnQualified, qualifiedNames
<1> QED BY <1>3 DEF s

\* Every name leads to a server that knows it, and a registered server's tools have
\* their qualified names, unless another server may have the same string.
THEOREM NamesAlwaysRoute == Spec => []NamesRoute
<1>1. TableInv => NamesRoute
  <2> SUFFICES ASSUME TableInv PROVE NamesRoute
    OBVIOUS
  <2>1. \A n \in DOMAIN toolRegistry : isKnown(toolRegistry[n].serverId, n)
    BY NamesKnown
  <2>2. QualifiedHeld
    BY DEF TableInv
  <2> QED BY <2>1, <2>2, Zenon DEF NamesRoute, QualifiedHeld, hasQualified
<1> QED BY <1>1, TableInvariant, PTL

\* A call that is sent goes to a server that knows the name it is made by: either it
\* has a tool of that name, or the name is one that the gateway made and does not take
\* apart again, or the server was entered twice.
SentNamesKnown ==
  \A i \in DOMAIN calls' \ DOMAIN calls :
    \A s \in calls'[i].sentTo : isKnown(s, calls'[i].toolName)

\* routeToolCall (gateway-service.ts) sends no call to a server that knows nothing of
\* its name, whatever overlaps and whatever names collide.
THEOREM SentNamesAlwaysKnown == Spec => [][SentNamesKnown]_vars
<1>1. ASSUME TableInv, [Next]_vars PROVE SentNamesKnown
  <2>1. ASSUME NEW i \in Call, NEW c \in Caller, NEW n \in Name, NEW sentTo,
               NEW inFlight \in BOOLEAN, begin(i, c, n, sentTo, inFlight),
               \A s \in sentTo : isKnown(s, n)
        PROVE  SentNamesKnown
    <3>1. /\ DOMAIN calls' = DOMAIN calls \cup {i}
          /\ calls'[i].sentTo = sentTo /\ calls'[i].toolName = n
      BY <2>1 DEF begin, put
    <3> QED BY <2>1, <3>1 DEF SentNamesKnown
  <2>2. ASSUME NEW i \in Call, NEW c \in Caller, NEW n \in Name, RouteToolCall(i, c, n)
        PROVE  SentNamesKnown
    <3>1. CASE begin(i, c, n, {}, FALSE)
      BY <3>1 DEF begin, put, SentNamesKnown
    <3>2. CASE SendCall(i, c, n)
      <4> DEFINE sentTo == IF n \in localTools THEN {} ELSE {toolRegistry[n].serverId}
      <4>1. begin(i, c, n, sentTo, TRUE)
        BY <3>2, Zenon DEF SendCall
      <4>2. \A s \in sentTo : isKnown(s, n)
        <5>1. n \notin localTools => n \in DOMAIN toolRegistry
          BY <3>2 DEF SendCall, isRoutable
        <5> QED BY <1>1, <5>1, NamesKnown
      <4> HIDE DEF sentTo
      <4> QED BY <2>1, <4>1, <4>2
    <3> QED BY <2>2, <3>1, <3>2, Zenon DEF RouteToolCall, DenyCall, FindNoServer
  <2>3. DOMAIN calls' = DOMAIN calls => SentNamesKnown
    BY DEF SentNamesKnown
  <2>4. \A c \in Client, s \in Server : RegisterServer(c, s) => UNCHANGED calls
    BY DEF RegisterServer, callVars
  <2>5. \A c \in Client : ConnectReturns(c) \/ ListingFails(c) => UNCHANGED calls
    BY DEF ConnectReturns, ListingFails, advance, callVars
  <2>6. \A c \in Client, tools \in SUBSET Tool : ListingReturns(c, tools) => UNCHANGED calls
    BY DEF ListingReturns, advance, callVars
  <2>7. \A s \in Server : UnregisterServer(s) \/ FinishUnregister(s) => UNCHANGED calls
    BY DEF UnregisterServer, FinishUnregister, callVars
  <2>8. UNCHANGED otherVars => UNCHANGED calls
    BY DEF otherVars
  <2>9. (\E t \in Tool : RegisterTool(t)) \/ EditAllowList \/ UNCHANGED vars => UNCHANGED calls
    BY Zenon DEF RegisterTool, EditAllowList, vars, callVars
  <2>10. \A i \in Call : FinishCall(i) => DOMAIN calls' = DOMAIN calls
    BY DEF FinishCall
  <2>11. UNCHANGED calls => DOMAIN calls' = DOMAIN calls
    OBVIOUS
  <2> QED
    BY <1>1, <2>2, <2>3, <2>4, <2>5, <2>6, <2>7, <2>8, <2>9, <2>10, <2>11, StepCases, Zenon
<1>2. TableInv /\ [Next]_vars => SentNamesKnown
  BY <1>1
<1> QED BY <1>2, TableInvariant, PTL DEF Spec

\* A name is redirected while its server is there only by a registration whose
\* qualified name it is.
THEOREM SimpleNamesAlwaysStay == Spec => SimpleNamesStay
<1> DEFINE Stay == \A n \in DOMAIN toolRegistry \cap DOMAIN toolRegistry' :
                     \/ toolRegistry'[n] = toolRegistry[n]
                     \/ \E s \in Server, t \in Tool :
                          n = qualified[<<s, t>>] /\ toolRegistry'[n] = Route(s, t)
<1>1. ASSUME TableInv, [Next]_vars PROVE Stay
  <2>1. ASSUME NEW c \in Client, NEW tools \in SUBSET Tool, ListingReturns(c, tools) PROVE Stay
    <3>1. clients[c].serverId \in Server /\ toolRegistry' = tableWith(clients[c].serverId, tools)
      BY <1>1, <2>1 DEF ListingReturns, TableInv, OverlapInv, TypeServers
    <3> PICK s \in Server : s = clients[c].serverId
      BY <3>1
    <3>2. /\ \A t \in tools : toolRegistry'[qualified[<<s, t>>]] = Route(s, t)
          /\ \A n \in DOMAIN toolRegistry \ qualifiedNames(s, tools) :
               toolRegistry'[n] = toolRegistry[n]
      <4>1. toolRegistry' = tableWith(s, tools)
        BY <3>1
      <4> QED BY <4>1, TableWith, Zenon
    <3>3. \A n \in qualifiedNames(s, tools) : \E t \in tools : n = qualified[<<s, t>>]
      BY DEF qualifiedNames
    <3> SUFFICES ASSUME NEW n \in DOMAIN toolRegistry
                 PROVE  \/ toolRegistry'[n] = toolRegistry[n]
                        \/ \E r \in Server, t \in Tool :
                             n = qualified[<<r, t>>] /\ toolRegistry'[n] = Route(r, t)
      OBVIOUS
    <3>4. CASE n \in qualifiedNames(s, tools)
      <4>1. PICK t \in tools : n = qualified[<<s, t>>]
        BY <3>3, <3>4
      <4>2. t \in Tool /\ toolRegistry'[n] = Route(s, t)
        BY <3>2, <4>1
      <4> QED BY <4>1, <4>2
    <3> QED BY <3>2, <3>4
  <2>2. ASSUME NEW s \in Server, FinishUnregister(s) PROVE Stay
    BY <2>2 DEF FinishUnregister, tableWithout, restrictTo
  <2>3. ASSUME clearAll PROVE Stay
    BY <2>3 DEF clearAll, emptyMap
  <2>4. ASSUME UNCHANGED toolRegistry PROVE Stay
    BY <2>4
  <2>5. \A c \in Client, s \in Server : RegisterServer(c, s) => UNCHANGED toolRegistry
    BY DEF RegisterServer
  <2>6. \A c \in Client : ConnectReturns(c) \/ ListingFails(c) => UNCHANGED toolRegistry
    BY DEF ConnectReturns, ListingFails
  <2>7. \A s \in Server : UnregisterServer(s) \/ visit(s) => UNCHANGED toolRegistry
    BY DEF UnregisterServer, visit
  <2>8. UNCHANGED serverVars => UNCHANGED toolRegistry
    BY DEF serverVars
  <2> HIDE DEF Stay
  <2> QED
    BY <1>1, <2>1, <2>2, <2>3, <2>4, <2>5, <2>6, <2>7, <2>8, StepCases, ServersUntouched, Zenon
<1>2. TableInv /\ [Next]_vars => [Stay]_vars
  BY <1>1
<1> QED BY <1>2, TableInvariant, PTL DEF Spec, SimpleNamesStay

-----------------------------------------------------------------------------
(* Connections.                                                              *)

\* A registration holds no connection before its handshake, and one after it.
OpenWhileListing ==
  \A c \in DOMAIN clients :
    /\ clients[c].registration = "connecting" => clients[c].state = "connecting"
    /\ clients[c].registration = "listing" => clients[c].state = "connected"

\* The entry of a server that is being closed is the closed client's, unless it was
\* entered twice: why deleting the entry loses no other client.
ClosedOrReplaced ==
  \A s \in DOMAIN servers \cap closing :
    clients[servers[s].client].state # "connected" \/ isEnteredTwice(s)

OthersConnected == \A s \in DOMAIN servers \ closing : healthCheck(s)

ConnInv ==
  OverlapInv /\ OpenWhileListing /\ ClosedOrReplaced /\ OthersConnected /\ LeaksExplained

\* A registration before its last step leaves the clients of entries alone.
LEMMA RegistrationKeeps ==
  ASSUME ConnInv, OverlapInv', NEW c \in Client,
         \/ \E s \in Server : RegisterServer(c, s)
         \/ ConnectReturns(c) \/ ListingFails(c)
  PROVE  ConnInv'
<1>1. /\ UNCHANGED <<servers, unregistering, shutdown>>
      /\ DOMAIN clients' = DOMAIN clients \cup {c}
      /\ \A d \in DOMAIN clients \ {c} : clients'[d] = clients[d]
      /\ c \in DOMAIN clients => isPending(c)
      /\ \/ clients'[c].registration = "connecting" /\ clients'[c].state = "connecting"
         \/ clients'[c].registration = "listing" /\ clients'[c].state = "connected"
         \/ clients'[c].registration = "failed"
      /\ overlapped \subseteq overlapped'
  BY PendingSteps DEF ConnInv, OverlapInv
<1>2. \A s \in DOMAIN servers :
        /\ servers[s].client # c /\ servers[s].client \in DOMAIN clients
        /\ clients'[servers[s].client] = clients[servers[s].client]
  BY <1>1 DEF ConnInv, OverlapInv, EntriesRegistered, TypeServers, isPending
<1>3. OpenWhileListing'
  BY <1>1 DEF ConnInv, OpenWhileListing
<1>4. ClosedOrReplaced' /\ OthersConnected'
  BY <1>1, <1>2
  DEF ConnInv, ClosedOrReplaced, OthersConnected, closing, healthCheck, isEnteredTwice
<1>5. LeaksExplained'
  BY <1>1 DEF ConnInv, LeaksExplained
<1> QED BY <1>3, <1>4, <1>5 DEF ConnInv

\* Its last step sets the server's entry, whatever was there.
LEMMA ListingKeeps ==
  ASSUME ConnInv, OverlapInv', NEW c \in Client, NEW tools \in SUBSET Tool,
         ListingReturns(c, tools)
  PROVE  ConnInv'
<1> PICK s \in Server : enters(c, s, tools)
  BY LastStep DEF ConnInv, OverlapInv
<1> USE DEF enters
<1>1. clients'[c].state = "connected" /\ isPending(c)
  BY DEF ConnInv, OpenWhileListing, isPending
<1>2. /\ isRegistered(s) => c \in overlapped /\ isEnteredTwice(s)
      /\ unregistering[s] > 0 => c \in overlapped
      /\ s \in shutdown.visited => isRegistered(s)
  BY <1>1 DEF ConnInv, OverlapInv, EntriesOverlap, ClosingOverlap, isRegistered
<1>3. \A r \in DOMAIN servers :
        /\ servers[r].client # c /\ servers[r].client \in DOMAIN clients
        /\ clients'[servers[r].client] = clients[servers[r].client]
  BY DEF ConnInv, OverlapInv, EntriesRegistered, TypeServers
<1>4. OpenWhileListing'
  BY DEF ConnInv, OpenWhileListing
<1>5. ClosedOrReplaced'
  <2>1. closing' = closing /\ (s \in closing => c \in overlapped)
    BY <1>2 DEF closing
  <2> QED BY <1>3, <2>1 DEF ConnInv, ClosedOrReplaced, isEnteredTwice
<1>6. OthersConnected'
  BY <1>1, <1>3 DEF ConnInv, OthersConnected, closing, healthCheck
<1>7. LeaksExplained'
  <2> SUFFICES ASSUME NEW x \in DOMAIN clients, x # c, clients[x].state = "connected",
                      clients[x].registration \notin {"listing", "failed"},
                      \A r \in DOMAIN servers' : servers'[r].client # x
               PROVE  x \in overlapped
    BY DEF LeaksExplained
  <2>1. CASE \E r \in DOMAIN servers : servers[r].client = x
    <3>1. s \in DOMAIN servers /\ servers[s].client = x
      BY <2>1
    <3> QED BY <1>2, <3>1 DEF isRegistered, isEnteredTwice
  <2>2. CASE ~\E r \in DOMAIN servers : servers[r].client = x
    BY <2>2 DEF ConnInv, LeaksExplained
  <2> QED BY <2>1, <2>2
<1> QED BY <1>4, <1>5, <1>6, <1>7 DEF ConnInv

\* Closing a server's client touches no other server's.
LEMMA CloseKeeps ==
  ASSUME ConnInv, OverlapInv', NEW s \in DOMAIN servers, disconnect(s),
         UNCHANGED <<servers, overlapped>>, closing' = closing \cup {s}
  PROVE  ConnInv'
<1>1. /\ DOMAIN clients' = DOMAIN clients
      /\ clients'[servers[s].client].state = "disconnected"
      /\ \A d \in DOMAIN clients \ {servers[s].client} : clients'[d] = clients[d]
      /\ \A d \in DOMAIN clients : clients'[d].registration = clients[d].registration
  BY CloseStep DEF ConnInv
<1>2. \A r \in DOMAIN servers \ {s} :
        clients'[servers[r].client] = clients[servers[r].client]
  BY <1>1 DEF ConnInv, OverlapInv, EntriesRegistered, TypeServers
<1>3. OpenWhileListing'
  BY <1>1 DEF ConnInv, OverlapInv, EntriesRegistered, OpenWhileListing
<1>4. ClosedOrReplaced' /\ OthersConnected'
  BY <1>1, <1>2 DEF ConnInv, ClosedOrReplaced, OthersConnected, healthCheck, isEnteredTwice
<1>5. LeaksExplained'
  BY <1>1 DEF ConnInv, LeaksExplained
<1> QED BY <1>3, <1>4, <1>5 DEF ConnInv

\* Entries go for servers that were closed; nobody's connection is lost with them, but
\* that of a registration that overlapped.
LEMMA DeleteKeeps ==
  ASSUME ConnInv, OverlapInv', UNCHANGED <<clients, overlapped>>, NEW S, S \subseteq closing,
         DOMAIN servers' = DOMAIN servers \ S, closing' \subseteq closing,
         closing \ S \subseteq closing',
         \A r \in DOMAIN servers \ S : servers'[r] = servers[r]
  PROVE  ConnInv'
<1>1. OpenWhileListing'
  BY DEF ConnInv, OpenWhileListing
<1>2. ClosedOrReplaced' /\ OthersConnected'
  BY DEF ConnInv, ClosedOrReplaced, OthersConnected, healthCheck, isEnteredTwice
<1>3. LeaksExplained'
  BY DEF ConnInv, LeaksExplained, ClosedOrReplaced, isEnteredTwice
<1> QED BY <1>1, <1>2, <1>3 DEF ConnInv

\* Every action keeps the invariant of the connections.
LEMMA ConnInvStep == ConnInv /\ [Next]_vars => ConnInv'
<1> SUFFICES ASSUME ConnInv, [Next]_vars PROVE ConnInv'
  OBVIOUS
<1>1. OverlapInv /\ OverlapInv' /\ TypeServers
  BY OverlapStep DEF ConnInv, OverlapInv
<1>2. ASSUME NEW s \in Server, UnregisterServer(s) PROVE ConnInv'
  <2>1. /\ s \in DOMAIN servers /\ disconnect(s) /\ UNCHANGED <<servers, overlapped>>
        /\ closing' = closing \cup {s}
    BY <1>1, <1>2 DEF UnregisterServer, isRegistered, closing, TypeServers
  <2> QED BY <1>1, <2>1, CloseKeeps
<1>3. ASSUME NEW s \in Server, visit(s), UNCHANGED otherVars PROVE ConnInv'
  <2>1. /\ s \in DOMAIN servers /\ disconnect(s) /\ UNCHANGED <<servers, overlapped>>
        /\ closing' = closing \cup {s}
    BY <1>3 DEF visit, otherVars, closing
  <2> QED BY <1>1, <2>1, CloseKeeps
<1>4. ASSUME NEW s \in Server, FinishUnregister(s) PROVE ConnInv'
  <2>1. /\ UNCHANGED <<clients, overlapped>> /\ {s} \subseteq closing
        /\ DOMAIN servers' = DOMAIN servers \ {s}
        /\ \A r \in DOMAIN servers \ {s} : servers'[r] = servers[r]
    BY <1>1, <1>4 DEF FinishUnregister, restrictTo, closing
  <2>2. closing' \subseteq closing /\ closing \ {s} \subseteq closing'
    BY <1>1, <1>4 DEF FinishUnregister, closing, TypeServers
  <2> QED BY <1>1, <2>1, <2>2, DeleteKeeps
<1>5. ASSUME clearAll, UNCHANGED otherVars PROVE ConnInv'
  <2>1. /\ UNCHANGED <<clients, overlapped>> /\ shutdown.visited \subseteq closing
        /\ DOMAIN servers' = DOMAIN servers \ shutdown.visited
        /\ closing' \subseteq closing /\ closing \ shutdown.visited \subseteq closing'
        /\ \A r \in DOMAIN servers \ shutdown.visited : servers'[r] = servers[r]
    BY <1>5 DEF clearAll, otherVars, emptyMap, closing
  <2> QED BY <1>1, <2>1, DeleteKeeps
<1>6. ASSUME UNCHANGED serverVars PROVE ConnInv'
  BY <1>1, <1>6 DEF serverVars, ConnInv, OpenWhileListing, ClosedOrReplaced, OthersConnected,
       LeaksExplained, closing, healthCheck, isEnteredTwice
<1> QED
  BY <1>1, <1>2, <1>3, <1>4, <1>5, <1>6, StepCases, ServersUntouched, RegistrationKeeps,
     ListingKeeps, Zenon

\* The connections of clients and the entries of servers stay in step.
THEOREM ConnectionsInvariant == Spec => []ConnInv
<1>1. Init => ConnInv
  <2>1. Init => TypeServers
    BY InitTypes DEF TypeOK
  <2> QED
    BY <2>1
    DEF Init, emptyMap, ConnInv, OverlapInv, EntriesRegistered, PairsOverlap, EntriesOverlap,
        ClosingOverlap, OpenWhileListing, ClosedOrReplaced, OthersConnected, LeaksExplained
<1> QED BY <1>1, ConnInvStep, PTL DEF Spec

\* A server that is not being closed is registered with a connected client.
THEOREM RegisteredAlwaysConnected == Spec => []RegisteredAreConnected
<1>1. ConnInv => RegisteredAreConnected
  BY DEF ConnInv, OthersConnected, RegisteredAreConnected, listServers
<1> QED BY <1>1, ConnectionsInvariant, PTL

\* A connection out of everybody's reach comes from a failed listing, or from a
\* registration that overlapped another one, or an unregistration, of its server id.
THEOREM LeaksAlwaysExplained == Spec => []LeaksExplained
  BY ConnectionsInvariant, PTL DEF ConnInv

-----------------------------------------------------------------------------
(* The slots of calls.                                                       *)

CallsInv == TypeCalls /\ ActiveCallsCounted /\ LimitUntilShutdown

\* A caller's calls in flight are finitely many, so they can be counted.
LEMMA InFlightFinite ==
  ASSUME TypeCalls, NEW c
  PROVE  IsFiniteSet(inFlightOf(c)) /\ Cardinality(inFlightOf(c)) \in Nat
<1>1. inFlightOf(c) \subseteq Call /\ IsFiniteSet(Call)
  BY GatewayAssumption DEF inFlightOf, TypeCalls
<1> QED BY <1>1, FS_Subset, FS_CardinalityType

\* Whose calls are in flight after a call begins, and after one ends.
LEMMA BeginInFlight ==
  ASSUME TypeCalls, NEW i \in Call, NEW c \in Caller, NEW n \in Name,
         NEW sentTo \in SUBSET Server, NEW inFlight \in BOOLEAN,
         begin(i, c, n, sentTo, inFlight)
  PROVE  /\ i \notin inFlightOf(c)
         /\ \A x \in Caller :
              inFlightOf(x)' = IF x = c /\ inFlight THEN inFlightOf(x) \cup {i} ELSE inFlightOf(x)
         /\ DOMAIN calls' \subseteq Call
         /\ calls' \in [DOMAIN calls' -> CallRecord]
  BY DEF begin, put, inFlightOf, TypeCalls, CallRecord

\* When a call ends, it and no other leaves the calls in flight of its caller.
LEMMA FinishInFlight ==
  ASSUME TypeCalls, NEW i \in Call, FinishCall(i)
  PROVE  /\ calls[i].caller \in Caller /\ i \in inFlightOf(calls[i].caller)
         /\ \A x \in Caller :
              inFlightOf(x)' = IF x = calls[i].caller THEN inFlightOf(x) \ {i} ELSE inFlightOf(x)
         /\ DOMAIN calls' \subseteq Call
         /\ calls' \in [DOMAIN calls' -> CallRecord]
  BY DEF FinishCall, inFlightOf, TypeCalls, CallRecord

\* Every action keeps the counts in step with the calls in flight.
LEMMA CallsInvStep == TypeTable /\ CallsInv /\ [Next]_vars => CallsInv'
<1> SUFFICES ASSUME TypeTable, CallsInv, [Next]_vars PROVE CallsInv'
  OBVIOUS
<1> DEFINE BegunAs(i, c, inFlight) ==
             /\ i \notin inFlightOf(c)
             /\ \A x \in Caller :
                  inFlightOf(x)' = IF x = c /\ inFlight THEN inFlightOf(x) \cup {i} ELSE inFlightOf(x)
             /\ DOMAIN calls' \subseteq Call
             /\ calls' \in [DOMAIN calls' -> CallRecord]
<1>typed. TypeCalls
  BY DEF CallsInv
<1>0. TypeCalls /\ \A x \in Caller : activeCalls[x] \in Nat /\ Cardinality(inFlightOf(x)) \in Nat
  BY InFlightFinite DEF CallsInv, TypeCalls
<1>begun. ASSUME NEW i \in Call, NEW c \in Caller, NEW n \in Name, NEW sentTo \in SUBSET Server,
                 NEW inFlight \in BOOLEAN, begin(i, c, n, sentTo, inFlight)
          PROVE  BegunAs(i, c, inFlight)
  BY <1>typed, <1>begun, BeginInFlight, Zenon
<1> HIDE DEF BegunAs
<1>1. ASSUME UNCHANGED <<calls, activeCalls, auditLog, cleared>> PROVE CallsInv'
  BY <1>1 DEF CallsInv, TypeCalls, ActiveCallsCounted, LimitUntilShutdown, inFlightOf
<1>2. ASSUME clearAll, UNCHANGED otherVars PROVE CallsInv'
  BY <1>0, <1>2
  DEF clearAll, otherVars, CallsInv, TypeCalls, ActiveCallsCounted, LimitUntilShutdown, inFlightOf
<1>3. ASSUME NEW i \in Call, NEW c \in Caller, NEW n \in Name,
             DenyCall(i, c, n) \/ FindNoServer(i, c, n)
      PROVE  CallsInv'
  <2>1. begin(i, c, n, {}, FALSE) /\ recordAudit(i) /\ UNCHANGED cleared
    BY <1>3, Zenon DEF DenyCall, FindNoServer, begin
  <2>begun. BegunAs(i, c, FALSE)
    <3>1. {} \in SUBSET Server
      OBVIOUS
    <3> QED BY <2>1, <3>1, <1>begun, Zenon
  <2>2. UNCHANGED activeCalls
    <3>1. \/ UNCHANGED activeCalls
          \/ activeCalls' = [activeCalls EXCEPT ![c] = releaseSlot(activeCalls[c] + 1)]
      BY <1>3, Zenon DEF DenyCall, FindNoServer
    <3>2. releaseSlot(activeCalls[c] + 1) = activeCalls[c]
      BY <1>0 DEF releaseSlot
    <3>3. activeCalls = [activeCalls EXCEPT ![c] = activeCalls[c]]
      BY <1>typed DEF TypeCalls
    <3> QED BY <3>1, <3>2, <3>3, Zenon
  <2>3. TypeCalls'
    <3>1. auditLog' \in [Call -> Nat]
      BY <1>typed, <2>1 DEF TypeCalls, recordAudit
    <3> QED BY <1>typed, <2>1, <2>2, <2>begun, <3>1 DEF TypeCalls, BegunAs
  <2>4. \A x \in Caller : inFlightOf(x)' = inFlightOf(x)
    BY <2>begun, Zenon DEF BegunAs
  <2> QED
    BY <2>1, <2>2, <2>3, <2>4 DEF CallsInv, ActiveCallsCounted, LimitUntilShutdown
<1>4. ASSUME NEW i \in Call, NEW c \in Caller, NEW n \in Name, SendCall(i, c, n)
      PROVE  CallsInv'
  <2> DEFINE sentTo == IF n \in localTools THEN {} ELSE {toolRegistry[n].serverId}
  <2>1. begin(i, c, n, sentTo, TRUE) /\ UNCHANGED <<auditLog, cleared>>
    BY <1>4, Zenon DEF SendCall, begin
  <2>sent. sentTo \in SUBSET Server
    BY <1>4 DEF SendCall, isRoutable, TypeTable
  <2> HIDE DEF sentTo
  <2>2. /\ activeCalls[c] < maxConcurrentCalls
        /\ activeCalls' = [activeCalls EXCEPT ![c] = @ + 1]
    BY <1>4 DEF SendCall, mayCall, hasSlot
  <2>begun. BegunAs(i, c, TRUE)
    BY <2>1, <2>sent, <1>begun, Zenon
  <2>3. TypeCalls'
    <3>1. activeCalls' \in [Caller -> Nat]
      BY <1>typed, <2>2 DEF TypeCalls
    <3> QED BY <1>typed, <2>1, <2>begun, <3>1 DEF TypeCalls, BegunAs
  <2>4. /\ \A x \in Caller \ {c} :
             inFlightOf(x)' = inFlightOf(x) /\ activeCalls'[x] = activeCalls[x]
        /\ activeCalls'[c] = activeCalls[c] + 1
    <3>1. \A x \in Caller \ {c} : inFlightOf(x)' = inFlightOf(x)
      BY <2>begun, Zenon DEF BegunAs
    <3> QED BY <1>typed, <2>2, <3>1 DEF TypeCalls
  <2>5. Cardinality(inFlightOf(c)') = Cardinality(inFlightOf(c)) + 1
    <3>1. inFlightOf(c)' = inFlightOf(c) \cup {i} /\ i \notin inFlightOf(c)
      BY <2>begun, Zenon DEF BegunAs
    <3>2. IsFiniteSet(inFlightOf(c))
      BY <1>typed, InFlightFinite, Zenon
    <3> QED BY <3>1, <3>2, FS_AddElement
  <2>6. maxConcurrentCalls \in Nat
    BY GatewayAssumption
  <2>7. ActiveCallsCounted'
    BY <1>0, <2>1, <2>4, <2>5 DEF CallsInv, ActiveCallsCounted
  <2>8. LimitUntilShutdown'
    BY <1>0, <2>1, <2>2, <2>4, <2>5, <2>6
    DEF CallsInv, ActiveCallsCounted, LimitUntilShutdown
  <2> QED BY <2>3, <2>7, <2>8 DEF CallsInv
<1>5. ASSUME NEW i \in Call, FinishCall(i) PROVE CallsInv'
  <2>caller. calls[i].caller \in Caller
    BY <1>typed, <1>5, FinishInFlight, Zenon
  <2> PICK c \in Caller : c = calls[i].caller
    BY <2>caller
  <2>1. /\ recordAudit(i) /\ UNCHANGED cleared
        /\ activeCalls' = [activeCalls EXCEPT ![c] = releaseSlot(@)]
    BY <1>5 DEF FinishCall
  <2>2. /\ i \in inFlightOf(c)
        /\ \A x \in Caller :
             inFlightOf(x)' = IF x = c THEN inFlightOf(x) \ {i} ELSE inFlightOf(x)
        /\ DOMAIN calls' \subseteq Call
        /\ calls' \in [DOMAIN calls' -> CallRecord]
    BY <1>typed, <1>5, FinishInFlight, Zenon
  <2>finite. IsFiniteSet(inFlightOf(c))
    BY <1>typed, InFlightFinite, Zenon
  <2>slots. /\ activeCalls' \in [Caller -> Nat]
            /\ \A x \in Caller \ {c} : activeCalls'[x] = activeCalls[x]
            /\ activeCalls'[c] = IF activeCalls[c] = 0 THEN 0 ELSE activeCalls[c] - 1
    <3>1. activeCalls[c] \in Nat /\ activeCalls \in [Caller -> Nat]
      BY <1>typed DEF TypeCalls
    <3>2. /\ releaseSlot(activeCalls[c]) \in Nat
          /\ releaseSlot(activeCalls[c]) = IF activeCalls[c] = 0 THEN 0 ELSE activeCalls[c] - 1
      BY <3>1 DEF releaseSlot
    <3>3. activeCalls' = [activeCalls EXCEPT ![c] = releaseSlot(activeCalls[c])]
      BY <2>1, Zenon
    <3> QED BY <3>1, <3>2, <3>3
  <2>3. TypeCalls'
    <3>1. auditLog' \in [Call -> Nat]
      BY <1>typed, <2>1 DEF TypeCalls, recordAudit
    <3> QED BY <1>typed, <2>1, <2>2, <2>slots, <3>1 DEF TypeCalls
  <2>4. Cardinality(inFlightOf(c) \ {i}) = Cardinality(inFlightOf(c)) - 1
    BY <2>2, <2>finite, FS_RemoveElement
  <2>5. /\ \A x \in Caller \ {c} :
             inFlightOf(x)' = inFlightOf(x) /\ activeCalls'[x] = activeCalls[x]
        /\ inFlightOf(c)' = inFlightOf(c) \ {i}
        /\ activeCalls'[c] = IF activeCalls[c] = 0 THEN 0 ELSE activeCalls[c] - 1
    <3>1. /\ \A x \in Caller \ {c} : inFlightOf(x)' = inFlightOf(x)
          /\ inFlightOf(c)' = inFlightOf(c) \ {i}
      BY <2>2, Zenon
    <3> QED BY <2>slots, <3>1
  <2>6. Cardinality(inFlightOf(c)) > 0
    BY <1>0, <2>2, <2>finite, FS_EmptySet
  <2>7. ActiveCallsCounted'
    <3>1. \A x \in Caller \ {c} :
            /\ activeCalls'[x] <= Cardinality(inFlightOf(x)')
            /\ ~cleared' => activeCalls'[x] = Cardinality(inFlightOf(x)')
      BY <2>1, <2>5 DEF CallsInv, ActiveCallsCounted
    <3>2. /\ activeCalls'[c] <= Cardinality(inFlightOf(c)')
          /\ ~cleared' => activeCalls'[c] = Cardinality(inFlightOf(c)')
      BY <1>0, <2>1, <2>4, <2>5, <2>6 DEF CallsInv, ActiveCallsCounted
    <3> QED BY <3>1, <3>2 DEF ActiveCallsCounted
  <2>8. LimitUntilShutdown'
    BY <1>0, <2>1, <2>2, <2>4, <2>5, GatewayAssumption DEF CallsInv, LimitUntilShutdown
  <2> QED BY <2>3, <2>7, <2>8 DEF CallsInv
<1>6. \A c \in Client, s \in Server :
        RegisterServer(c, s) => UNCHANGED <<calls, activeCalls, auditLog, cleared>>
  BY DEF RegisterServer, callVars
<1>7. ASSUME NEW c \in Client, ConnectReturns(c) \/ ListingFails(c)
      PROVE  UNCHANGED <<calls, activeCalls, auditLog, cleared>>
  BY <1>7 DEF ConnectReturns, ListingFails, advance, callVars
<1>8. ASSUME NEW c \in Client, NEW tools \in SUBSET Tool, ListingReturns(c, tools)
      PROVE  UNCHANGED <<calls, activeCalls, auditLog, cleared>>
  BY <1>8 DEF ListingReturns, advance, callVars
<1>9. ASSUME NEW s \in Server, UnregisterServer(s) \/ FinishUnregister(s)
      PROVE  UNCHANGED <<calls, activeCalls, auditLog, cleared>>
  BY <1>9 DEF UnregisterServer, FinishUnregister, callVars
<1>10. ASSUME NEW s \in Server, visit(s), UNCHANGED otherVars
       PROVE  UNCHANGED <<calls, activeCalls, auditLog, cleared>>
  BY <1>10 DEF visit, otherVars
<1>11. ASSUME (\E t \in Tool : RegisterTool(t)) \/ EditAllowList \/ UNCHANGED vars
       PROVE  UNCHANGED <<calls, activeCalls, auditLog, cleared>>
  BY <1>11, Zenon DEF RegisterTool, EditAllowList, vars, callVars
<1> QED
  BY <1>1, <1>2, <1>3, <1>4, <1>5, <1>6, <1>7, <1>8, <1>9, <1>10, <1>11, StepCases, Zenon
  DEF RouteToolCall

\* The counts stay in step with the calls in flight, whatever path a call
\* leaves routeToolCall by.
THEOREM CallsInvariant == Spec => []CallsInv
<1>1. Init => CallsInv
  <2> SUFFICES ASSUME Init PROVE CallsInv
    OBVIOUS
  <2>1. TypeCalls
    BY InitTypes DEF TypeOK
  <2>2. \A c \in Caller : inFlightOf(c) = {} /\ activeCalls[c] = 0
    BY DEF Init, emptyMap, inFlightOf
  <2> QED
    BY <2>1, <2>2, FS_EmptySet, GatewayAssumption
    DEF CallsInv, ActiveCallsCounted, LimitUntilShutdown
<1>2. TableInv => TypeTable
  BY DEF TableInv
<1> QED BY <1>1, <1>2, CallsInvStep, TableInvariant, PTL DEF Spec

\* The counts are those of the calls in flight until shutdown() clears them, and
\* never too high after.
THEOREM CallsAlwaysCounted == Spec => []ActiveCallsCounted
  BY CallsInvariant, PTL DEF CallsInv

\* The limit on concurrent calls holds until shutdown() forgets some.
THEOREM LimitHoldsUntilShutdown == Spec => []LimitUntilShutdown
  BY CallsInvariant, PTL DEF CallsInv

-----------------------------------------------------------------------------
(* The allow list.                                                           *)

\* Nothing in the gateway touches the list but its own operations.
LEMMA ListSteps == [Next]_vars => [ListProofs!Next]_listVars
<1> SUFFICES ASSUME [Next]_vars PROVE [ListProofs!Next]_listVars
  OBVIOUS
<1>1. ASSUME EditAllowList PROVE ListProofs!Next
  <2>1. (\A n \in Governed : n \in Name) /\ \A c \in GovernedCaller : c \in Caller
    BY GatewayAssumption
  <2>2. \/ \E c \in Caller, n \in Name : List!AllowTool(c, n) \/ List!DenyTool(c, n)
        \/ \E n \in Name : List!DenyGlobal(n) \/ List!RemoveGlobalDeny(n)
        \/ \E c \in Caller, restrictive \in BOOLEAN : List!SetRestrictive(c, restrictive)
        \/ \E c \in Caller : List!RemoveEntity(c)
    BY <1>1, <2>1, Zenon DEF EditAllowList
  <2> QED
    BY <2>2, Zenon
    DEF ListProofs!Next, List!AllowTool, List!DenyTool, List!DenyGlobal,
        List!RemoveGlobalDeny, List!SetRestrictive, List!RemoveEntity,
        ListProofs!AllowTool, ListProofs!DenyTool, ListProofs!DenyGlobal,
        ListProofs!RemoveGlobalDeny, ListProofs!SetRestrictive, ListProofs!RemoveEntity,
        List!entryOf, ListProofs!entryOf, List!setEntry, ListProofs!setEntry,
        List!say, ListProofs!say
<1>2. \A c \in Client, s \in Server : RegisterServer(c, s) => UNCHANGED listVars
  BY Zenon DEF RegisterServer
<1>3. \A c \in Client : ConnectReturns(c) \/ ListingFails(c) => UNCHANGED listVars
  BY Zenon DEF ConnectReturns, ListingFails, advance
<1>4. \A c \in Client, tools \in SUBSET Tool : ListingReturns(c, tools) => UNCHANGED listVars
  BY Zenon DEF ListingReturns, advance
<1>5. \A s \in Server : UnregisterServer(s) \/ FinishUnregister(s) => UNCHANGED listVars
  BY Zenon DEF UnregisterServer, FinishUnregister
<1>6. UNCHANGED otherVars => UNCHANGED listVars
  BY DEF otherVars
<1>7. \A t \in Tool : RegisterTool(t) => UNCHANGED listVars
  BY Zenon DEF RegisterTool
<1>8. \A i \in Call, c \in Caller, n \in Name : RouteToolCall(i, c, n) => UNCHANGED listVars
  BY Zenon DEF RouteToolCall, DenyCall, FindNoServer, SendCall, begin
<1>9. \A i \in Call : FinishCall(i) => UNCHANGED listVars
  BY Zenon DEF FinishCall
<1>10. UNCHANGED vars => UNCHANGED listVars
  BY DEF vars
<1> QED
  BY <1>1, <1>2, <1>3, <1>4, <1>5, <1>6, <1>7, <1>8, <1>9, <1>10, StepCases, Zenon

\* The gateway's list behaves as the list alone.
THEOREM ListInside == Spec => ListProofs!Spec
<1>1. Init => ListProofs!Init
  BY DEF Init, List!Init, ListProofs!Init
<1>2. UNCHANGED listVars => UNCHANGED ListProofs!listVars
  BY DEF listVars, ListProofs!listVars
<1>3. [Next]_vars => [ListProofs!Next]_ListProofs!listVars
  BY ListSteps, <1>2
<1> QED BY <1>1, <1>3, PTL DEF Spec, ListProofs!Spec

\* In the gateway too, the last decision about a caller and a tool wins.
THEOREM LastDecisionsWinInside == Spec => []LastDecisionWins
<1>1. ListProofs!LastDecisionWins => LastDecisionWins
  BY DEF LastDecisionWins, List!LastDecisionWins, ListProofs!LastDecisionWins,
         List!isAllowed, ListProofs!isAllowed
<1>2. ListProofs!Spec => []ListProofs!LastDecisionWins
  BY ListProofs!LastDecisionsWin
<1> QED BY <1>1, <1>2, ListInside, PTL

\* And what is listed to a caller is what it may call.
THEOREM ListingsAgreeInside == Spec => []ListingAgrees
<1>1. ListProofs!ListingAgrees => ListingAgrees
  BY DEF ListingAgrees, List!ListingAgrees, ListProofs!ListingAgrees,
         List!isAllowed, ListProofs!isAllowed, List!getAllowedTools,
         ListProofs!getAllowedTools, List!entryOf, ListProofs!entryOf
<1>2. ListProofs!Spec => []ListProofs!ListingAgrees
  BY ListProofs!ListingsAgree
<1> QED BY <1>1, <1>2, ListInside, PTL

\* The state is well typed; in particular no slot count falls below zero, although
\* finally blocks run for calls that shutdown() has forgotten.
THEOREM TypeCorrect == Spec => []TypeOK
<1>1. Init => localTools \subseteq Tool
  BY GatewayAssumption DEF Init
<1>2. localTools \subseteq Tool /\ [Next]_vars => (localTools \subseteq Tool)'
  <2> SUFFICES ASSUME localTools \subseteq Tool, [Next]_vars PROVE localTools' \subseteq Tool
    OBVIOUS
  <2>1. \A t \in Tool : RegisterTool(t) => localTools' \subseteq Tool
    BY DEF RegisterTool
  <2>2. \A c \in Client, s \in Server : RegisterServer(c, s) => UNCHANGED localTools
    BY Zenon DEF RegisterServer
  <2>3. \A c \in Client : ConnectReturns(c) \/ ListingFails(c) => UNCHANGED localTools
    BY Zenon DEF ConnectReturns, ListingFails, advance
  <2>4. \A c \in Client, tools \in SUBSET Tool : ListingReturns(c, tools) => UNCHANGED localTools
    BY Zenon DEF ListingReturns, advance
  <2>5. \A s \in Server : UnregisterServer(s) \/ FinishUnregister(s) => UNCHANGED localTools
    BY Zenon DEF UnregisterServer, FinishUnregister
  <2>6. UNCHANGED otherVars => UNCHANGED localTools
    BY DEF otherVars
  <2>7. \A i \in Call, c \in Caller, n \in Name : RouteToolCall(i, c, n) => UNCHANGED localTools
    BY Zenon DEF RouteToolCall, DenyCall, FindNoServer, SendCall, begin
  <2>8. \A i \in Call : FinishCall(i) => UNCHANGED localTools
    BY Zenon DEF FinishCall
  <2>9. EditAllowList \/ UNCHANGED vars => UNCHANGED localTools
    BY Zenon DEF EditAllowList, vars
  <2>10. UNCHANGED localTools => localTools' \subseteq Tool
    BY Zenon
  <2> QED
    BY <2>1, <2>2, <2>3, <2>4, <2>5, <2>6, <2>7, <2>8, <2>9, <2>10, StepCases, Zenon
<1>3. Spec => [](localTools \subseteq Tool)
  BY <1>1, <1>2, PTL DEF Spec
<1>4. ListProofs!Spec => []ListProofs!ListInv
  BY ListProofs!ListInvariant
<1>5. ListProofs!ListInv => List!TypeOK
  BY DEF ListProofs!ListInv, ListProofs!TypeOK, List!TypeOK, ListProofs!Entry, List!Entry
<1>6. TableInv /\ CallsInv /\ localTools \subseteq Tool /\ List!TypeOK => TypeOK
  BY DEF TableInv, OverlapInv, CallsInv, TypeOK
<1> QED BY <1>3, <1>4, <1>5, <1>6, ListInside, TableInvariant, CallsInvariant, PTL

-----------------------------------------------------------------------------
(* The audit of calls.                                                       *)

\* A call that has ended has one audit entry; one in flight, or not made, has none.
ended(i) == i \in DOMAIN calls /\ ~calls[i].inFlight

Audited == \A i \in Call : auditLog[i] = IF ended(i) THEN 1 ELSE 0

\* The audit and the types its proof needs.
AuditInv == TypeCalls /\ Audited

\* A call ends once, and what was made stays made.
EndsOnce ==
  \A i \in Call : /\ i \in DOMAIN calls => i \in DOMAIN calls'
                  /\ ended(i) => ended(i)'

\* A call begins and is sent, or begins and is denied, with its entry.
begins(i, inFlight) ==
  /\ i \notin DOMAIN calls /\ DOMAIN calls' = DOMAIN calls \cup {i}
  /\ \A j \in DOMAIN calls : calls'[j] = calls[j]
  /\ calls'[i].inFlight = inFlight
  /\ IF inFlight THEN UNCHANGED auditLog ELSE recordAudit(i)

\* The steps that touch calls or their audit are routeToolCall's.
LEMMA AuditCases ==
  ASSUME [Next]_vars
  PROVE  \/ UNCHANGED <<calls, auditLog>>
         \/ \E i \in Call, inFlight \in BOOLEAN : begins(i, inFlight)
         \/ \E i \in Call : FinishCall(i)
<1> DEFINE Goal ==
      \/ UNCHANGED <<calls, auditLog>>
      \/ \E i \in Call, inFlight \in BOOLEAN : begins(i, inFlight)
      \/ \E i \in Call : FinishCall(i)
<1>1. ASSUME NEW i \in Call, NEW c \in Caller, NEW n \in Name, RouteToolCall(i, c, n)
      PROVE  Goal
  <2>1. ASSUME NEW sentTo, NEW inFlight \in BOOLEAN, begin(i, c, n, sentTo, inFlight),
               IF inFlight THEN UNCHANGED auditLog ELSE recordAudit(i)
        PROVE  begins(i, inFlight)
    BY <2>1 DEF begin, put, begins
  <2>2. CASE begin(i, c, n, {}, FALSE) /\ recordAudit(i)
    BY <2>1, <2>2
  <2>3. CASE SendCall(i, c, n)
    <3>1. /\ begin(i, c, n, IF n \in localTools THEN {} ELSE {toolRegistry[n].serverId}, TRUE)
          /\ UNCHANGED auditLog
      BY <2>3, Zenon DEF SendCall
    <3> QED BY <2>1, <3>1
  <2> QED
    BY <1>1, <2>2, <2>3, Zenon DEF RouteToolCall, DenyCall, FindNoServer
<1>2. ASSUME NEW c \in Client, NEW s \in Server, RegisterServer(c, s)
      PROVE  UNCHANGED <<calls, auditLog>>
  BY <1>2 DEF RegisterServer, callVars
<1>3. ASSUME NEW c \in Client, ConnectReturns(c) \/ ListingFails(c)
      PROVE  UNCHANGED <<calls, auditLog>>
  BY <1>3 DEF ConnectReturns, ListingFails, advance, callVars
<1>4. ASSUME NEW c \in Client, NEW tools \in SUBSET Tool, ListingReturns(c, tools)
      PROVE  UNCHANGED <<calls, auditLog>>
  BY <1>4 DEF ListingReturns, advance, callVars
<1>5. ASSUME NEW s \in Server, UnregisterServer(s) \/ FinishUnregister(s)
      PROVE  UNCHANGED <<calls, auditLog>>
  BY <1>5 DEF UnregisterServer, FinishUnregister, callVars
<1>6. ASSUME UNCHANGED otherVars
      PROVE  UNCHANGED <<calls, auditLog>>
  BY <1>6 DEF otherVars
<1>7. ASSUME (\E t \in Tool : RegisterTool(t)) \/ EditAllowList \/ UNCHANGED vars
      PROVE  UNCHANGED <<calls, auditLog>>
  BY <1>7, Zenon DEF RegisterTool, EditAllowList, vars, callVars
<1> HIDE DEF Goal
<1>8. UNCHANGED <<calls, auditLog>> \/ (\E i \in Call : FinishCall(i)) => Goal
  BY DEF Goal
<1>9. Goal
  BY <1>1, <1>2, <1>3, <1>4, <1>5, <1>6, <1>7, <1>8, StepCases, Zenon
<1> QED BY <1>9 DEF Goal

\* Every step ends each call with its audit entry.
LEMMA AuditStep ==
  ASSUME TypeCalls, Audited, [Next]_vars
  PROVE  Audited' /\ EndsOnce
<1>typed. /\ DOMAIN calls \subseteq Call
          /\ calls \in [DOMAIN calls -> CallRecord]
          /\ auditLog \in [Call -> Nat]
  BY DEF TypeCalls
<1>1. CASE UNCHANGED <<calls, auditLog>>
  BY <1>1 DEF Audited, EndsOnce, ended
<1>2. ASSUME NEW i \in Call, NEW inFlight \in BOOLEAN, begins(i, inFlight)
      PROVE  Audited' /\ EndsOnce
  <2>1. /\ i \notin DOMAIN calls
        /\ DOMAIN calls' = DOMAIN calls \cup {i}
        /\ \A j \in DOMAIN calls : calls'[j] = calls[j]
        /\ calls'[i].inFlight = inFlight
    BY <1>2 DEF begins
  <2>2. /\ auditLog[i] = 0
        /\ auditLog'[i] = IF inFlight THEN 0 ELSE 1
        /\ \A j \in Call \ {i} : auditLog'[j] = auditLog[j]
    BY <1>typed, <1>2, <2>1 DEF begins, Audited, ended, recordAudit
  <2>3. ended(i)' <=> ~inFlight
    BY <2>1 DEF ended
  <2>4. \A j \in Call \ {i} : ended(j)' <=> ended(j)
    BY <2>1 DEF ended
  <2>5. ~ended(i)
    BY <2>1 DEF ended
  <2> QED BY <2>1, <2>2, <2>3, <2>4, <2>5 DEF Audited, EndsOnce
<1>3. ASSUME NEW i \in Call, FinishCall(i) PROVE Audited' /\ EndsOnce
  <2>1. /\ i \in DOMAIN calls /\ calls[i].inFlight
        /\ calls' = [calls EXCEPT ![i].inFlight = FALSE] /\ recordAudit(i)
    BY <1>3 DEF FinishCall
  <2>2. /\ DOMAIN calls' = DOMAIN calls
        /\ \A j \in DOMAIN calls \ {i} : calls'[j] = calls[j]
        /\ ~calls'[i].inFlight
    BY <1>typed, <2>1 DEF CallRecord
  <2>3. ~ended(i) /\ ended(i)' /\ \A j \in Call \ {i} : ended(j)' <=> ended(j)
    BY <2>1, <2>2 DEF ended
  <2>4. auditLog'[i] = 1 /\ \A j \in Call \ {i} : auditLog'[j] = auditLog[j]
    BY <1>typed, <2>1, <2>3 DEF Audited, recordAudit
  <2> QED BY <2>2, <2>3, <2>4 DEF Audited, EndsOnce
<1> QED BY <1>1, <1>2, <1>3, AuditCases, Zenon

\* The invariant of the audit.
LEMMA AuditInvariant == Spec => []AuditInv
<1>1. Init => Audited
  BY DEF Init, Audited, ended, emptyMap
<1>2. TypeCalls /\ Audited /\ [Next]_vars => Audited'
  BY AuditStep
<1>3. CallsInv => TypeCalls
  BY DEF CallsInv
<1> QED BY <1>1, <1>2, <1>3, CallsInvariant, PTL DEF Spec, AuditInv

\* routeToolCall's audit (gateway-service.ts): however a call ends, denied, sent
\* or failed, it has one entry then and none before.
THEOREM CallsAlwaysAudited == Spec => []Audited
  BY AuditInvariant, PTL DEF AuditInv

\* A call ends once, and is not forgotten: shutdown() clears its count only.
THEOREM CallsEndOnce == Spec => [][EndsOnce]_vars
<1>1. AuditInv /\ [Next]_vars => EndsOnce
  BY AuditStep DEF AuditInv
<1> QED BY <1>1, AuditInvariant, PTL DEF Spec

\* EveryCallAuditedOnce asks nothing of the gateway but that the call ends, which
\* the client's timers see to: from then on its one entry stays.
THEOREM EndedCallsStayAudited ==
  ASSUME NEW i \in Call
  PROVE  Spec /\ (i \in DOMAIN calls ~> ended(i))
           => (i \in DOMAIN calls ~> [](auditLog[i] = 1))
<1>1. AuditInv /\ ended(i) => auditLog[i] = 1
  BY DEF AuditInv, Audited
<1>2. AuditInv /\ ended(i) /\ [Next]_vars => ended(i)'
  BY AuditStep DEF AuditInv, EndsOnce
<1> QED BY <1>1, <1>2, AuditInvariant, PTL DEF Spec
=============================================================================
