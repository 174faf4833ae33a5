------------------------------- MODULE MCPClient -------------------------------
(***************************************************************************)
(* MCPClient of packages/mcp-gateway: one client of one MCP server, its    *)
(* connection by an EventSource, its handshake, and its requests.          *)
(*                                                                         *)
(* An action is one callback (an event of the source, a timer, a method    *)
(* called by the application) with the microtasks it resolves.  A promise  *)
(* that is rejected is different: connectToServer's catch block runs when  *)
(* the code that caused it has returned, and until then that code may call *)
(* the client again.  "failing" is that interval: methods may be called in *)
(* it, events and timers have to wait.                                     *)
(***************************************************************************)
EXTENDS Naturals, FiniteSets, Maps

CONSTANTS
  Attempt,    \* the connectToServer invocations (a bound), with their EventSources
  Request,    \* the sendRequest invocations (a bound)
  Method,     \* the methods called on the connected client
  NoAttempt,  \* null for eventSource, and the attempt of a request that is not a handshake
  NoRequest   \* of a request that has no answer

ListMethod == {"tools/list", "resources/list"}

ASSUME ClientAssumption ==
  /\ NoAttempt \notin Attempt /\ NoRequest \notin Request
  /\ Method \subseteq ListMethod \cup {"tools/call", "resources/read"}

VARIABLES
  state,            \* the connection state the client reports
  attempts,         \* connectToServer invocation -> where it is
  timers,           \* the attempts whose connection timer is running
  sources,          \* attempt -> its EventSource
  eventSource,      \* the attempt whose EventSource the client holds
  messageEndpoint,  \* whether the endpoint for posting is known
  nextId,
  requests,         \* sendRequest invocation -> its id, method and outcome
  pendingRequests,  \* id -> request
  cached,           \* the list methods whose result is cached
  overlapped        \* history: connectToServer was called while another one ran

connectionVars == <<attempts, timers, sources, eventSource, messageEndpoint, overlapped>>
requestVars == <<nextId, requests, pendingRequests>>
vars == <<state, connectionVars, requestVars, cached>>

RequestRecord ==
  [id : Nat, method : Method \cup {"initialize"}, attempt : Attempt \cup {NoAttempt},
   status : {"pending", "resolved", "rejected"}, answer : Request \cup {NoRequest}]

TypeConnection ==
  /\ state \in {"disconnected", "connecting", "connected", "error"}
  /\ attempts \in [Attempt -> {"idle", "opening", "initializing", "failing", "failed", "done"}]
  /\ timers \subseteq Attempt
  /\ sources \in [Attempt -> {"connecting", "open", "closed"}]
  /\ eventSource \in Attempt \cup {NoAttempt}
  /\ messageEndpoint \in BOOLEAN
  /\ cached \subseteq ListMethod
  /\ overlapped \in BOOLEAN

TypeRequests ==
  /\ nextId \in Nat
  /\ DOMAIN requests \subseteq Request
  /\ requests \in [DOMAIN requests -> RequestRecord]
  /\ DOMAIN pendingRequests \subseteq Nat
  /\ pendingRequests \in [DOMAIN pendingRequests -> DOMAIN requests]

TypeOK == TypeConnection /\ TypeRequests

Init ==
  /\ state = "disconnected"
  /\ attempts = [a \in Attempt |-> "idle"]
  /\ timers = {}
  /\ sources = [a \in Attempt |-> "closed"]
  /\ eventSource = NoAttempt
  /\ messageEndpoint = FALSE
  /\ nextId = 1
  /\ requests = emptyMap
  /\ pendingRequests = emptyMap
  /\ cached = {}
  /\ overlapped = FALSE
-----------------------------------------------------------------------------
(* Requests.                                                                 *)

\* The requests in the Map: those whose timer is running.
held == {pendingRequests[id] : id \in DOMAIN pendingRequests}

\* The entry is made before postMessage, which throws if there is no endpoint: the
\* promise is then rejected and the entry stays until its timer fires.
sendRequest(r, method, a, canPost) ==
  /\ r \in Request \ DOMAIN requests
  /\ nextId' = nextId + 1
  /\ requests' = put(requests, r, [id |-> nextId, method |-> method, attempt |-> a,
                                   status |-> IF canPost THEN "pending" ELSE "rejected",
                                   answer |-> NoRequest])
  /\ pendingRequests' = put(pendingRequests, nextId, r)

forget(id) == pendingRequests' = restrictTo(pendingRequests, DOMAIN pendingRequests \ {id})

rejected(R) == [r \in DOMAIN requests |->
  IF r \in R THEN [requests[r] EXCEPT !.status = "rejected"] ELSE requests[r]]

\* The attempts whose handshake is among the requests.
handshakes(R) == {requests[r].attempt : r \in R} \ {NoAttempt}

failing(A) == [a \in Attempt |-> IF a \in A THEN "failing" ELSE attempts[a]]

\* Mutant of cleanup: the timers are cleared, the requests are not rejected.
cleanup_NotRejected ==
  /\ sources' = [a \in Attempt |-> IF a = eventSource THEN "closed" ELSE sources[a]]
  /\ eventSource' = NoAttempt
  /\ pendingRequests' = emptyMap
  /\ messageEndpoint' = FALSE
  /\ cached' = {}
  /\ UNCHANGED <<timers, nextId, requests, overlapped>>

\* Mutant of cleanup: ids start over with the next connection.
cleanup_IdsReset ==
  /\ sources' = [a \in Attempt |-> IF a = eventSource THEN "closed" ELSE sources[a]]
  /\ eventSource' = NoAttempt
  /\ requests' = rejected(held)
  /\ pendingRequests' = emptyMap
  /\ messageEndpoint' = FALSE
  /\ cached' = {}
  /\ nextId' = 1
  /\ UNCHANGED <<timers, overlapped>>

\* Mutant of cleanup: what was cached survives the connection.
cleanup_CacheKept ==
  /\ sources' = [a \in Attempt |-> IF a = eventSource THEN "closed" ELSE sources[a]]
  /\ eventSource' = NoAttempt
  /\ requests' = rejected(held)
  /\ pendingRequests' = emptyMap
  /\ messageEndpoint' = FALSE
  /\ UNCHANGED <<timers, nextId, overlapped, cached>>

cleanup ==
  /\ sources' = [a \in Attempt |-> IF a = eventSource THEN "closed" ELSE sources[a]]
  /\ eventSource' = NoAttempt
  /\ requests' = rejected(held)
  /\ pendingRequests' = emptyMap
  /\ messageEndpoint' = FALSE
  /\ cached' = {}
  /\ UNCHANGED <<timers, nextId, overlapped>>
-----------------------------------------------------------------------------
(* What the application calls.                                               *)

running(a) == attempts[a] \in {"opening", "initializing", "failing"}

\* connectToServer up to its first await; the constructor of EventSource may throw.
ConnectToServer(a) ==
  /\ attempts[a] = "idle" /\ state # "connected"
  /\ state' = "connecting"
  /\ overlapped' = (overlapped \/ \E b \in Attempt : running(b))
  /\ \/ /\ attempts' = [attempts EXCEPT ![a] = "opening"]
        /\ timers' = timers \cup {a}
        /\ sources' = [sources EXCEPT ![a] = "connecting"]
        /\ eventSource' = a
     \/ /\ attempts' = failing({a})
        /\ UNCHANGED <<timers, sources, eventSource>>
  /\ UNCHANGED <<messageEndpoint, requestVars, cached>>

\* callTool, readResource; listTools, listResources when nothing is cached.
CallMethod(r, method) ==
  /\ state = "connected"
  /\ method \notin cached
  /\ sendRequest(r, method, NoAttempt, messageEndpoint)
  /\ UNCHANGED <<state, connectionVars, cached>>

\* Mutant of Disconnect: the client goes on saying that it is connected.
Disconnect_StateKept ==
  /\ cleanup
  /\ attempts' = failing(handshakes(held))
  /\ UNCHANGED state

Disconnect ==
  /\ cleanup
  /\ attempts' = failing(handshakes(held))
  /\ state' = "disconnected"

\* Mutant of Catch: a connection that failed is not cleaned up.
Catch_NoCleanup(a) ==
  /\ attempts[a] = "failing"
  /\ attempts' = [attempts EXCEPT ![a] = "failed"]
  /\ state' = "error"
  /\ UNCHANGED <<timers, sources, eventSource, messageEndpoint, overlapped, requestVars, cached>>

\* The catch block of connectToServer.
Catch(a) ==
  /\ attempts[a] = "failing"
  /\ cleanup
  /\ attempts' = [failing(handshakes(held)) EXCEPT ![a] = "failed"]
  /\ state' = "error"
-----------------------------------------------------------------------------
(* Events of the source, and timers.                                         *)

noMicrotask == \A a \in Attempt : attempts[a] # "failing"

SourceOpens(a) ==
  /\ noMicrotask /\ sources[a] = "connecting"
  /\ sources' = [sources EXCEPT ![a] = "open"]
  /\ timers' = timers \ {a}
  /\ UNCHANGED <<state, attempts, eventSource, messageEndpoint, overlapped, requestVars, cached>>

\* The endpoint event resolves the connection, and the handshake is sent; a later one
\* (the source has reconnected) only sets the endpoint.
EndpointNamed(a) ==
  /\ noMicrotask /\ sources[a] = "open"
  /\ messageEndpoint' = TRUE
  /\ timers' = timers \ {a}
  /\ \/ /\ attempts[a] = "opening"
        /\ attempts' = [attempts EXCEPT ![a] = "initializing"]
        /\ \E r \in Request : sendRequest(r, "initialize", a, TRUE)
     \/ attempts[a] # "opening" /\ UNCHANGED <<attempts, requestVars>>
  /\ UNCHANGED <<state, sources, eventSource, overlapped, cached>>

\* The source reconnects by itself, or has given up.
SourceFails(a) ==
  /\ noMicrotask /\ sources[a] # "closed"
  /\ \E s \in {"connecting", "closed"} : sources' = [sources EXCEPT ![a] = s]
  /\ timers' = timers \ {a}
  /\ attempts' = IF state = "connecting" /\ attempts[a] = "opening" THEN failing({a}) ELSE attempts
  /\ UNCHANGED <<state, eventSource, messageEndpoint, overlapped, requestVars, cached>>

ConnectionTimeout(a) ==
  /\ noMicrotask /\ a \in timers
  /\ timers' = timers \ {a}
  /\ attempts' = IF attempts[a] = "opening" THEN failing({a}) ELSE attempts
  /\ UNCHANGED <<state, sources, eventSource, messageEndpoint, overlapped, requestVars, cached>>

\* Mutant of resume: the result of every method is cached.
resume_AllCached(request, isError) ==
  \/ /\ request.method = "initialize"
     /\ attempts' = [attempts EXCEPT ![request.attempt] = "done"]
     /\ state' = "connected"
     /\ UNCHANGED cached
  \/ /\ request.method # "initialize"
     /\ cached' = cached \cup {request.method}
     /\ UNCHANGED <<state, attempts>>

\* What follows the await of an answered request; a handshake is completed by a
\* notification, which has to be posted.
resume(request, isError) ==
  \/ /\ request.method = "initialize" /\ ~isError /\ messageEndpoint
     /\ attempts' = [attempts EXCEPT ![request.attempt] = "done"]
     /\ state' = "connected"
     /\ UNCHANGED cached
  \/ /\ request.method = "initialize" /\ (isError \/ ~messageEndpoint)
     /\ attempts' = failing({request.attempt})
     /\ UNCHANGED <<state, cached>>
  \/ /\ request.method \in ListMethod /\ ~isError
     /\ cached' = cached \cup {request.method}
     /\ UNCHANGED <<state, attempts>>
  \/ /\ request.method # "initialize" /\ (request.method \in ListMethod => isError)
     /\ UNCHANGED <<state, attempts, cached>>

\* The server answers q, on whatever source it has open, late or a second time: the
\* request that is pending under q's id is settled, if there is one.
AnswerArrives(a, q, isError) ==
  /\ noMicrotask /\ sources[a] = "open"
  /\ q \in DOMAIN requests /\ requests[q].id \in DOMAIN pendingRequests
  /\ LET r == pendingRequests[requests[q].id] IN
       /\ requests' = [requests EXCEPT ![r] = [@ EXCEPT !.status = "resolved", !.answer = q]]
       /\ resume(requests[r], isError)
  /\ forget(requests[q].id)
  /\ UNCHANGED <<timers, sources, eventSource, messageEndpoint, overlapped, nextId>>

\* Mutant of RequestTimeout: the entry of the request stays in the Map.
RequestTimeout_NotDeleted(r) ==
  /\ noMicrotask /\ r \in held
  /\ requests' = rejected({r})
  /\ attempts' = failing(handshakes({r}))
  /\ UNCHANGED <<state, timers, sources, eventSource, messageEndpoint, overlapped, nextId,
                 pendingRequests, cached>>

RequestTimeout(r) ==
  /\ noMicrotask /\ r \in held
  /\ forget(requests[r].id)
  /\ requests' = rejected({r})
  /\ attempts' = failing(handshakes({r}))
  /\ UNCHANGED <<state, timers, sources, eventSource, messageEndpoint, overlapped, nextId, cached>>

Next ==
  \/ \E a \in Attempt :
       \/ ConnectToServer(a) \/ Catch(a)
       \/ SourceOpens(a) \/ EndpointNamed(a) \/ SourceFails(a) \/ ConnectionTimeout(a)
  \/ \E r \in Request, method \in Method : CallMethod(r, method)
  \/ Disconnect
  \/ \E a \in Attempt, q \in Request, isError \in BOOLEAN : AnswerArrives(a, q, isError)
  \/ \E r \in Request : RequestTimeout(r)

Spec == Init /\ [][Next]_vars

\* Timers fire and catch blocks run; the server and the application owe nothing.
FairSpec ==
  /\ Spec
  /\ \A a \in Attempt : WF_vars(Catch(a)) /\ WF_vars(ConnectionTimeout(a))
  /\ \A r \in Request : WF_vars(RequestTimeout(r))
-----------------------------------------------------------------------------
\* pendingRequests holds exactly the requests that have no outcome: none is settled
\* twice, and none is dropped unsettled, through every race of answer, timer and cleanup.
PendingUnsettled ==
  \A r \in DOMAIN requests : requests[r].status = "pending" <=> r \in held

\* A request is resolved by its own answer, never by a late one to another request of
\* this or an earlier connection.
AnswersMatch ==
  \A r \in DOMAIN requests : requests[r].status = "resolved" => requests[r].answer = r

\* A client that says it is connected can post; postMessage's "not connected" cannot
\* reject a request and leave its entry and timer behind.
ConnectedCanPost == state = "connected" => messageEndpoint

\* What is cached was listed on the present connection.
CacheOfConnection == cached # {} => state = "connected"

\* Unless connectToServer is called while another call of it runs, every open
\* EventSource is the one that disconnect() will close.
NoStraySource ==
  ~overlapped => \A a \in Attempt : sources[a] # "closed" => eventSource = a

\* Every request ends, and every handshake with it, whatever the server does.
EveryRequestEnds ==
  /\ \A r \in Request :
       (r \in DOMAIN requests /\ requests[r].status = "pending")
         ~> (r \in DOMAIN requests /\ requests[r].status # "pending")
  /\ \A a \in Attempt : attempts[a] = "initializing" ~> attempts[a] \in {"done", "failed"}

\* config.connectionTimeout, "Connection timeout in milliseconds": a connection that
\* is being opened is opened or given up.
EveryConnectEnds == \A a \in Attempt : attempts[a] = "opening" ~> attempts[a] # "opening"
=============================================================================
