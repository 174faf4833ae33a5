---------------------------- MODULE MCPClientProofs ----------------------------
(* What holds of the client for any number of connections and requests.       *)
EXTENDS MCPClient, TLAPS

(* The requests.                                                             *)

\* Ids are given out once and the Map's keys are those of its requests: the reason
\* why an answer finds no request but its own.
IdsUnique ==
  /\ \A r, q \in DOMAIN requests : requests[r].id = requests[q].id => r = q
  /\ \A r \in DOMAIN requests : requests[r].id < nextId
  /\ \A id \in DOMAIN pendingRequests : requests[pendingRequests[id]].id = id

RequestsInv == TypeRequests /\ IdsUnique /\ PendingUnsettled /\ AnswersMatch

\* A request that can be posted enters the Map unsettled, under an id of its own.
LEMMA SendKeeps ==
  ASSUME RequestsInv, NEW r \in Request, NEW method \in Method \cup {"initialize"},
         NEW a \in Attempt \cup {NoAttempt}, sendRequest(r, method, a, TRUE)
  PROVE  RequestsInv'
<1>1. /\ r \notin DOMAIN requests /\ nextId \in Nat
      /\ nextId' = nextId + 1
      /\ DOMAIN requests' = DOMAIN requests \cup {r}
      /\ DOMAIN requests' \subseteq Request
      /\ \A q \in DOMAIN requests : q # r /\ requests'[q] = requests[q]
      /\ requests'[r] = [id |-> nextId, method |-> method, attempt |-> a,
                         status |-> "pending", answer |-> NoRequest]
  BY DEF RequestsInv, TypeRequests, sendRequest, put
<1>2. requests'[r] \in RequestRecord
  BY <1>1 DEF RequestRecord
<1>3. requests' = put(requests, r, requests'[r])
  BY <1>1 DEF sendRequest
<1>4. /\ nextId \notin DOMAIN pendingRequests
      /\ DOMAIN pendingRequests' = DOMAIN pendingRequests \cup {nextId}
      /\ \A id \in DOMAIN pendingRequests : pendingRequests'[id] = pendingRequests[id]
      /\ pendingRequests'[nextId] = r
  <2>1. nextId \notin DOMAIN pendingRequests
    BY <1>1 DEF RequestsInv, TypeRequests, IdsUnique
  <2> QED BY <2>1 DEF sendRequest, put
<1>5. held' = held \cup {r} /\ held \subseteq DOMAIN requests
  BY <1>4 DEF held, RequestsInv, TypeRequests
<1>6. TypeRequests'
  <2>1. requests' \in [DOMAIN requests' -> RequestRecord]
    BY <1>1, <1>2, <1>3 DEF put, RequestsInv, TypeRequests
  <2>2. pendingRequests' \in [DOMAIN pendingRequests' -> DOMAIN requests']
    BY <1>1, <1>4 DEF sendRequest, put, RequestsInv, TypeRequests
  <2> QED BY <1>1, <1>4, <2>1, <2>2 DEF RequestsInv, TypeRequests
<1>7. IdsUnique'
  <2>1. \A q \in DOMAIN requests : requests[q].id \in Nat /\ requests[q].id < nextId
    BY DEF RequestsInv, TypeRequests, RequestRecord, IdsUnique
  <2>2. \A q \in DOMAIN requests : requests'[q].id = requests[q].id /\ requests'[q].id < nextId
    BY <1>1, <2>1
  <2>3. requests'[r].id = nextId
    BY <1>1
  <2>4. \A q \in DOMAIN requests' : requests'[q].id < nextId'
    BY <1>1, <2>1, <2>2, <2>3
  <2>5. \A p, q \in DOMAIN requests' : requests'[p].id = requests'[q].id => p = q
    BY <1>1, <2>2, <2>3 DEF RequestsInv, IdsUnique
  <2>6. \A id \in DOMAIN pendingRequests' : requests'[pendingRequests'[id]].id = id
    BY <1>1, <1>4, <2>3 DEF RequestsInv, IdsUnique, TypeRequests
  <2> QED BY <2>4, <2>5, <2>6 DEF IdsUnique
<1>8. PendingUnsettled'
  BY <1>1, <1>5 DEF PendingUnsettled, RequestsInv
<1>9. AnswersMatch'
  BY <1>1 DEF AnswersMatch, RequestsInv
<1> QED BY <1>6, <1>7, <1>8, <1>9 DEF RequestsInv

\* Rejecting what cleanup() takes out of the Map.
LEMMA CleanupKeeps == RequestsInv /\ cleanup => RequestsInv'
<1> SUFFICES ASSUME RequestsInv, cleanup PROVE RequestsInv'
  OBVIOUS
<1>1. /\ nextId' = nextId
      /\ DOMAIN requests' = DOMAIN requests
      /\ \A r \in DOMAIN requests :
           requests'[r] = IF r \in held THEN [requests[r] EXCEPT !.status = "rejected"]
                                        ELSE requests[r]
      /\ requests' \in [DOMAIN requests -> RequestRecord]
  BY DEF cleanup, rejected, RequestsInv, TypeRequests, RequestRecord
<1>2. \A r \in DOMAIN requests :
        /\ requests'[r].id = requests[r].id /\ requests'[r].answer = requests[r].answer
        /\ requests'[r].status = IF r \in held THEN "rejected" ELSE requests[r].status
  BY <1>1 DEF RequestsInv, TypeRequests, RequestRecord
<1>3. pendingRequests' = emptyMap /\ DOMAIN pendingRequests' = {} /\ held' = {}
  BY DEF cleanup, emptyMap, held
<1>4. TypeRequests'
  BY <1>1, <1>3 DEF RequestsInv, TypeRequests, emptyMap
<1>5. IdsUnique'
  BY <1>1, <1>2, <1>3 DEF RequestsInv, IdsUnique
<1>6. PendingUnsettled'
  BY <1>1, <1>2, <1>3 DEF RequestsInv, PendingUnsettled
<1>7. AnswersMatch'
  BY <1>1, <1>2 DEF RequestsInv, AnswersMatch
<1> QED BY <1>4, <1>5, <1>6, <1>7 DEF RequestsInv

\* Settling the request under an id, by an answer or by its timer.
LEMMA SettleKeeps ==
  ASSUME RequestsInv, NEW r \in held, NEW record \in RequestRecord,
         record.id = requests[r].id, record.status # "pending",
         record.status = "resolved" => record.answer = r,
         requests' = [requests EXCEPT ![r] = record], nextId' = nextId,
         forget(requests[r].id)
  PROVE  RequestsInv'
<1>1. r \in DOMAIN requests /\ pendingRequests[requests[r].id] = r
  BY DEF RequestsInv, TypeRequests, IdsUnique, held
<1>2. /\ DOMAIN requests' = DOMAIN requests
      /\ requests'[r] = record
      /\ \A q \in DOMAIN requests \ {r} : requests'[q] = requests[q]
      /\ requests' \in [DOMAIN requests -> RequestRecord]
  BY <1>1 DEF RequestsInv, TypeRequests
<1>3. /\ DOMAIN pendingRequests' = DOMAIN pendingRequests \ {requests[r].id}
      /\ \A id \in DOMAIN pendingRequests' : pendingRequests'[id] = pendingRequests[id]
      /\ pendingRequests' \in [DOMAIN pendingRequests' -> DOMAIN requests]
  BY DEF forget, restrictTo, RequestsInv, TypeRequests
<1>4. held' = held \ {r}
  BY <1>1, <1>3 DEF held, RequestsInv, IdsUnique
<1>5. TypeRequests'
  BY <1>2, <1>3 DEF RequestsInv, TypeRequests
<1>6. \A q \in DOMAIN requests : requests'[q].id = requests[q].id
  BY <1>2
<1>7. IdsUnique'
  BY <1>2, <1>3, <1>6 DEF RequestsInv, IdsUnique, TypeRequests
<1>8. PendingUnsettled'
  BY <1>2, <1>4 DEF RequestsInv, PendingUnsettled
<1>9. AnswersMatch'
  BY <1>2 DEF RequestsInv, AnswersMatch
<1> QED BY <1>5, <1>7, <1>8, <1>9 DEF RequestsInv

-----------------------------------------------------------------------------
(* The requests and the state.                                               *)

\* Only a connected client has requests other than handshakes in its Map: what
\* CacheOfConnection needs when the answer of a list arrives.
MethodsConnected ==
  \A r \in held : requests[r].method # "initialize" => state = "connected"

ClientInv == RequestsInv /\ ConnectedCanPost /\ CacheOfConnection /\ MethodsConnected

\* The request an answer or a timer settles was pending under its own id.
LEMMA HeldById ==
  ASSUME RequestsInv
  PROVE  /\ held \subseteq DOMAIN requests
         /\ \A r \in held : requests[r] \in RequestRecord
         /\ \A id \in DOMAIN pendingRequests :
              /\ pendingRequests[id] \in held /\ requests[pendingRequests[id]].id = id
         /\ \A q \in DOMAIN requests :
              requests[q].id \in DOMAIN pendingRequests => pendingRequests[requests[q].id] = q
  BY DEF RequestsInv, TypeRequests, IdsUnique, held

\* cleanup() leaves nothing behind that depends on the state.
LEMMA CleanupEmpties ==
  ASSUME cleanup
  PROVE  held' = {} /\ cached' = {} /\ messageEndpoint' = FALSE
  BY DEF cleanup, held, emptyMap

\* Sending a request adds it to the Map and touches no other.
LEMMA SendAdds ==
  ASSUME RequestsInv, NEW r \in Request, NEW method, NEW a, NEW canPost \in BOOLEAN,
         sendRequest(r, method, a, canPost)
  PROVE  /\ held' \subseteq held \cup {r}
         /\ r \notin held
         /\ requests'[r].method = method
         /\ \A q \in held : requests'[q] = requests[q]
<1>1. held \subseteq DOMAIN requests /\ r \notin DOMAIN requests
  BY HeldById DEF sendRequest
<1>2. \A q \in DOMAIN requests : requests'[q] = requests[q]
  BY <1>1 DEF sendRequest, put
<1>3. requests'[r].method = method
  BY <1>1 DEF sendRequest, put
<1>4. held' \subseteq held \cup {r}
  BY DEF sendRequest, put, held
<1> QED BY <1>1, <1>2, <1>3, <1>4

\* Every action keeps the invariant of the requests.
LEMMA ClientInvStep == ClientInv /\ [Next]_vars => ClientInv'
<1> SUFFICES ASSUME ClientInv, [Next]_vars PROVE ClientInv'
  OBVIOUS
<1> USE DEF ClientInv
<1>1. ASSUME NEW a \in Attempt, ConnectToServer(a) PROVE ClientInv'
  <2>1. /\ UNCHANGED <<requestVars, cached, messageEndpoint>>
        /\ state # "connected" /\ state' = "connecting"
    BY <1>1 DEF ConnectToServer
  <2>2. RequestsInv' /\ held' = held /\ requests' = requests
    BY <2>1 DEF requestVars, RequestsInv, TypeRequests, IdsUnique, PendingUnsettled, AnswersMatch, held
  <2> QED BY <2>1, <2>2 DEF ConnectedCanPost, CacheOfConnection, MethodsConnected
<1>2. ASSUME cleanup, state' # "connected" PROVE ClientInv'
  BY <1>2, CleanupKeeps, CleanupEmpties
  DEF ConnectedCanPost, CacheOfConnection, MethodsConnected
<1>3. ASSUME UNCHANGED <<state, messageEndpoint, requestVars, cached>> PROVE ClientInv'
  BY <1>3 DEF requestVars, RequestsInv, TypeRequests, IdsUnique, PendingUnsettled, AnswersMatch,
              held, ConnectedCanPost, CacheOfConnection, MethodsConnected
<1>4. ASSUME NEW a \in Attempt, EndpointNamed(a) PROVE ClientInv'
  <2>1. messageEndpoint' = TRUE /\ UNCHANGED <<state, cached>>
    BY <1>4 DEF EndpointNamed
  <2>2. CASE UNCHANGED requestVars
    BY <2>1, <2>2
    DEF requestVars, RequestsInv, TypeRequests, IdsUnique, PendingUnsettled, AnswersMatch,
        held, ConnectedCanPost, CacheOfConnection, MethodsConnected
  <2>3. CASE \E r \in Request : sendRequest(r, "initialize", a, TRUE)
    <3> PICK r \in Request : sendRequest(r, "initialize", a, TRUE)
      BY <2>3
    <3>1. RequestsInv'
      BY SendKeeps
    <3>2. MethodsConnected'
      BY <2>1, SendAdds DEF MethodsConnected
    <3> QED BY <2>1, <3>1, <3>2 DEF ConnectedCanPost, CacheOfConnection
  <2> QED BY <1>4, <2>2, <2>3 DEF EndpointNamed
<1>5. ASSUME NEW r \in Request, NEW method \in Method, CallMethod(r, method) PROVE ClientInv'
  <2>1. /\ state = "connected" /\ UNCHANGED <<state, messageEndpoint, cached>>
        /\ sendRequest(r, method, NoAttempt, messageEndpoint)
    BY <1>5 DEF CallMethod, connectionVars
  <2>2. messageEndpoint = TRUE
    BY <2>1 DEF ConnectedCanPost, sendRequest
  <2>3. RequestsInv'
    BY <2>1, <2>2, SendKeeps
  <2> QED BY <2>1, <2>3 DEF ConnectedCanPost, CacheOfConnection, MethodsConnected
<1>6. ASSUME NEW a \in Attempt, NEW q \in Request, NEW isError \in BOOLEAN,
             AnswerArrives(a, q, isError)
      PROVE  ClientInv'
  <2> DEFINE answered == [requests[q] EXCEPT !.status = "resolved", !.answer = q]
  <2>1. /\ q \in held /\ forget(requests[q].id) /\ nextId' = nextId
        /\ UNCHANGED messageEndpoint
        /\ requests' = [requests EXCEPT ![q] = answered]
        /\ resume(requests[q], isError)
    <3>1. requests[q].id \in DOMAIN pendingRequests /\ q \in DOMAIN requests
      BY <1>6 DEF AnswerArrives
    <3>2. pendingRequests[requests[q].id] = q /\ q \in held
      BY <3>1, HeldById
    <3> QED BY <1>6, <3>2 DEF AnswerArrives
  <2>2. /\ answered \in RequestRecord
        /\ answered.id = requests[q].id /\ answered.status = "resolved" /\ answered.answer = q
        /\ answered.method = requests[q].method
    <3>1. requests[q] \in RequestRecord
      BY <2>1, HeldById
    <3> QED BY <3>1 DEF RequestRecord
  <2> HIDE DEF answered
  <2>3. RequestsInv'
    BY <2>1, <2>2, SettleKeeps
  <2>4. /\ held' \subseteq held /\ held \subseteq DOMAIN requests
        /\ \A r \in held : requests'[r].method = requests[r].method
    <3>1. held \subseteq DOMAIN requests
      BY HeldById
    <3>2. held' \subseteq held
      BY <2>1 DEF held, forget, restrictTo
    <3> QED BY <2>1, <2>2, <3>1, <3>2
  <2>5. \/ state' = "connected" /\ messageEndpoint /\ UNCHANGED cached
        \/ UNCHANGED <<state, cached>>
        \/ requests[q].method # "initialize" /\ UNCHANGED state
    BY <2>1 DEF resume, ListMethod
  <2> QED
    BY <2>1, <2>3, <2>4, <2>5 DEF ConnectedCanPost, CacheOfConnection, MethodsConnected
<1>7. ASSUME NEW r \in Request, RequestTimeout(r) PROVE ClientInv'
  <2> DEFINE ended == [requests[r] EXCEPT !.status = "rejected"]
  <2>1. /\ r \in held /\ forget(requests[r].id) /\ UNCHANGED <<state, messageEndpoint, cached, nextId>>
        /\ requests' = [requests EXCEPT ![r] = ended]
    BY <1>7, HeldById DEF RequestTimeout, rejected, RequestsInv, TypeRequests
  <2>2. /\ ended \in RequestRecord
        /\ ended.id = requests[r].id /\ ended.status = "rejected"
        /\ ended.method = requests[r].method
    <3>1. requests[r] \in RequestRecord
      BY <2>1, HeldById
    <3> QED BY <3>1 DEF RequestRecord
  <2> HIDE DEF ended
  <2>3. RequestsInv'
    BY <2>1, <2>2, SettleKeeps
  <2>4. /\ held' \subseteq held /\ held \subseteq DOMAIN requests
        /\ \A q \in held : requests'[q].method = requests[q].method
    <3>1. held \subseteq DOMAIN requests
      BY HeldById
    <3>2. held' \subseteq held
      BY <2>1 DEF held, forget, restrictTo
    <3> QED BY <2>1, <2>2, <3>1, <3>2
  <2> QED BY <2>1, <2>3, <2>4 DEF ConnectedCanPost, CacheOfConnection, MethodsConnected
<1>8. ASSUME \/ Disconnect
             \/ \E a \in Attempt : Catch(a)
      PROVE  ClientInv'
  BY <1>2, <1>8 DEF Disconnect, Catch
<1>9. ASSUME \/ UNCHANGED vars
             \/ \E a \in Attempt : SourceOpens(a) \/ SourceFails(a) \/ ConnectionTimeout(a)
      PROVE  ClientInv'
  BY <1>3, <1>9 DEF vars, connectionVars, SourceOpens, SourceFails, ConnectionTimeout
<1> QED BY <1>1, <1>4, <1>5, <1>6, <1>7, <1>8, <1>9 DEF Next

\* The requests, their Map and the state agree, whatever the order of answers,
\* timers, disconnections and new connections.
THEOREM ClientInvariant == Spec => []ClientInv
<1>1. Init => ClientInv
  BY DEF Init, ClientInv, RequestsInv, TypeRequests, IdsUnique, PendingUnsettled, AnswersMatch,
         held, emptyMap, ConnectedCanPost, CacheOfConnection, MethodsConnected
<1> QED BY <1>1, ClientInvStep, PTL DEF Spec

\* No request is dropped unsettled or settled and kept.
THEOREM PendingAlwaysUnsettled == Spec => []PendingUnsettled
  BY ClientInvariant, PTL DEF ClientInv, RequestsInv

\* An answer resolves the request it answers, late and repeated answers and those of
\* earlier connections included.
THEOREM AnswersAlwaysMatch == Spec => []AnswersMatch
  BY ClientInvariant, PTL DEF ClientInv, RequestsInv

\* A connected client can post.
THEOREM ConnectedAlwaysCanPost == Spec => []ConnectedCanPost
  BY ClientInvariant, PTL DEF ClientInv

\* The caches never outlive the connection.
THEOREM CacheAlwaysOfConnection == Spec => []CacheOfConnection
  BY ClientInvariant, PTL DEF ClientInv

-----------------------------------------------------------------------------
(* The connections.                                                          *)

\* While no two calls of connectToServer overlap, an open source belongs to the
\* connected client or to the connection being made: when that one fails, the client
\* still holds the source that its catch block closes.
SourcesHeld ==
  ~overlapped => \A a \in Attempt : sources[a] # "closed" =>
                   eventSource = a /\ (state = "connected" \/ running(a))

ConnectionInv == TypeConnection /\ SourcesHeld

\* After cleanup() no source is open, unless connections overlapped.
LEMMA CleanupCloses ==
  ASSUME ConnectionInv, cleanup
  PROVE  /\ sources' \in [Attempt -> {"connecting", "open", "closed"}]
         /\ ~overlapped' => \A a \in Attempt : sources'[a] = "closed"
         /\ eventSource' = NoAttempt /\ timers' = timers
         /\ messageEndpoint' = FALSE /\ cached' = {} /\ overlapped' = overlapped
  BY DEF ConnectionInv, TypeConnection, SourcesHeld, cleanup

\* An attempt that is made to fail still runs, until its catch block has.
LEMMA FailingRuns ==
  ASSUME TypeConnection, NEW A, attempts' = failing(A)
  PROVE  /\ attempts' \in [Attempt -> {"idle", "opening", "initializing", "failing", "failed", "done"}]
         /\ \A a \in Attempt : running(a) => running(a)'
  BY DEF TypeConnection, failing, running

\* Every action keeps the invariant of the connections.
LEMMA ConnectionInvStep == ConnectionInv /\ [Next]_vars => ConnectionInv'
<1> SUFFICES ASSUME ConnectionInv, [Next]_vars PROVE ConnectionInv'
  OBVIOUS
<1>typed. TypeConnection
  BY DEF ConnectionInv
<1>1. ASSUME NEW a \in Attempt, ConnectToServer(a) PROVE ConnectionInv'
  <2>1. state # "connected" /\ state' = "connecting" /\ UNCHANGED <<messageEndpoint, cached>>
    BY <1>1 DEF ConnectToServer
  <2>2. /\ overlapped' \in BOOLEAN
        /\ ~overlapped' => ~overlapped /\ \A b \in Attempt : ~running(b)
    BY <1>1, <1>typed DEF ConnectToServer, TypeConnection
  <2>3. ~overlapped' => \A b \in Attempt : sources[b] = "closed"
    BY <2>1, <2>2 DEF ConnectionInv, SourcesHeld
  <2>4. CASE /\ attempts' = [attempts EXCEPT ![a] = "opening"]
             /\ timers' = timers \cup {a}
             /\ sources' = [sources EXCEPT ![a] = "connecting"]
             /\ eventSource' = a
    BY <1>typed, <2>1, <2>2, <2>3, <2>4 DEF ConnectionInv, TypeConnection, SourcesHeld, running
  <2>5. CASE attempts' = failing({a}) /\ UNCHANGED <<timers, sources, eventSource>>
    BY <1>typed, <2>1, <2>2, <2>3, <2>5 DEF ConnectionInv, TypeConnection, SourcesHeld, failing
  <2> QED BY <1>1, <2>4, <2>5 DEF ConnectToServer
<1>2. ASSUME Disconnect PROVE ConnectionInv'
  BY <1>2, <1>typed, CleanupCloses, FailingRuns
  DEF Disconnect, ConnectionInv, TypeConnection, SourcesHeld
<1>3. ASSUME NEW a \in Attempt, Catch(a) PROVE ConnectionInv'
  <2>1. cleanup /\ state' = "error"
        /\ attempts' = [failing(handshakes(held)) EXCEPT ![a] = "failed"]
    BY <1>3 DEF Catch
  <2>2. attempts' \in [Attempt -> {"idle", "opening", "initializing", "failing", "failed", "done"}]
    BY <1>typed, <2>1 DEF TypeConnection, failing
  <2> QED BY <1>typed, <2>1, <2>2, CleanupCloses DEF ConnectionInv, TypeConnection, SourcesHeld
<1>4. ASSUME NEW a \in Attempt, SourceOpens(a) PROVE ConnectionInv'
  BY <1>4, <1>typed DEF SourceOpens, ConnectionInv, TypeConnection, SourcesHeld, running
<1>5. ASSUME NEW a \in Attempt, EndpointNamed(a) PROVE ConnectionInv'
  BY <1>5, <1>typed DEF EndpointNamed, ConnectionInv, TypeConnection, SourcesHeld, running
<1>6. ASSUME NEW a \in Attempt, SourceFails(a) \/ ConnectionTimeout(a) PROVE ConnectionInv'
  <2>1. attempts' = failing({a}) \/ attempts' = attempts
    BY <1>6 DEF SourceFails, ConnectionTimeout
  <2>2. /\ attempts' \in [Attempt -> {"idle", "opening", "initializing", "failing", "failed", "done"}]
        /\ \A b \in Attempt : running(b) => running(b)'
    BY <1>typed, <2>1, FailingRuns DEF running, TypeConnection
  <2>3. /\ sources' \in [Attempt -> {"connecting", "open", "closed"}]
        /\ \A b \in Attempt : sources'[b] # "closed" => sources[b] # "closed"
    BY <1>6, <1>typed DEF SourceFails, ConnectionTimeout, TypeConnection
  <2>4. /\ timers' \subseteq timers
        /\ UNCHANGED <<state, eventSource, messageEndpoint, overlapped, cached>>
    BY <1>6 DEF SourceFails, ConnectionTimeout
  <2> QED BY <1>typed, <2>2, <2>3, <2>4 DEF ConnectionInv, TypeConnection, SourcesHeld
<1>7. ASSUME NEW r \in Request, NEW method \in Method, CallMethod(r, method) PROVE ConnectionInv'
  BY <1>7, <1>typed
  DEF CallMethod, connectionVars, ConnectionInv, TypeConnection, SourcesHeld, running
<1>8. ASSUME NEW a \in Attempt, NEW q \in Request, NEW isError \in BOOLEAN,
             AnswerArrives(a, q, isError)
      PROVE  ConnectionInv'
  <2> PICK request : resume(request, isError)
    BY <1>8 DEF AnswerArrives
  <2>1. UNCHANGED <<timers, sources, eventSource, messageEndpoint, overlapped>>
    BY <1>8 DEF AnswerArrives
  <2>2. /\ state' \in {state, "connected"}
        /\ cached' \subseteq ListMethod
        /\ attempts' \in [Attempt -> {"idle", "opening", "initializing", "failing", "failed", "done"}]
    BY <1>typed, FailingRuns DEF resume, TypeConnection
  <2>3. state' = "connected" \/ (state' = state /\ \A b \in Attempt : running(b) => running(b)')
    BY <1>typed, FailingRuns DEF resume, running
  <2> QED BY <1>typed, <2>1, <2>2, <2>3 DEF ConnectionInv, TypeConnection, SourcesHeld
<1>9. ASSUME NEW r \in Request, RequestTimeout(r) PROVE ConnectionInv'
  <2>1. /\ attempts' = failing(handshakes({r}))
        /\ UNCHANGED <<state, timers, sources, eventSource, messageEndpoint, overlapped, cached>>
    BY <1>9 DEF RequestTimeout
  <2> QED BY <1>typed, <2>1, FailingRuns DEF ConnectionInv, TypeConnection, SourcesHeld
<1>10. ASSUME UNCHANGED vars PROVE ConnectionInv'
  BY <1>10, <1>typed DEF vars, connectionVars, ConnectionInv, TypeConnection, SourcesHeld, running
<1> QED BY <1>1, <1>2, <1>3, <1>4, <1>5, <1>6, <1>7, <1>8, <1>9, <1>10 DEF Next

\* The sources are accounted for at every step.
THEOREM ConnectionInvariant == Spec => []ConnectionInv
<1>1. Init => ConnectionInv
  BY DEF Init, ConnectionInv, TypeConnection, SourcesHeld
<1> QED BY <1>1, ConnectionInvStep, PTL DEF Spec

\* The state is well typed.
THEOREM TypeCorrect == Spec => []TypeOK
<1>1. ClientInv /\ ConnectionInv => TypeOK
  BY DEF ClientInv, RequestsInv, ConnectionInv, TypeOK
<1> QED BY <1>1, ClientInvariant, ConnectionInvariant, PTL

\* Without overlapping connections no EventSource escapes disconnect().
THEOREM NoSourceStrays == Spec => []NoStraySource
<1>1. ConnectionInv => NoStraySource
  BY DEF ConnectionInv, SourcesHeld, NoStraySource
<1> QED BY <1>1, ConnectionInvariant, PTL

-----------------------------------------------------------------------------
(* The handshakes.                                                           *)

\* The stages of a connectToServer invocation, each with those that may follow it.
After == [idle |-> {"opening", "failing"},
          opening |-> {"initializing", "failing"},
          initializing |-> {"done", "failing"},
          failing |-> {"failed"},
          failed |-> {}, done |-> {}]

\* Each invocation stays where it is or moves on by one stage.
AttemptStep ==
  \A a \in Attempt : attempts'[a] \in {attempts[a]} \cup After[attempts[a]]

\* An attempt awaits its handshake exactly while its request is in the Map, with the
\* timer that will end it: what EveryRequestEnds asks of the timers' fairness.
HandshakesHeld ==
  \A a \in Attempt : attempts[a] = "initializing" <=> a \in handshakes(held)

\* Each attempt sends at most one handshake, when it has been opened.
OneHandshake ==
  /\ \A r \in DOMAIN requests :
       requests[r].method = "initialize" <=> requests[r].attempt \in Attempt
  /\ \A r \in DOMAIN requests : requests[r].attempt \in Attempt =>
       attempts[requests[r].attempt] \notin {"idle", "opening"}
  /\ \A r, q \in DOMAIN requests :
       requests[r].attempt \in Attempt /\ requests[r].attempt = requests[q].attempt => r = q

\* The invariant of the handshakes; the types come with ConnectionInv.
HandshakesInv == OneHandshake /\ HandshakesHeld

\* What a request is for does not change when it is settled.
SamePurpose ==
  /\ DOMAIN requests' = DOMAIN requests
  /\ \A r \in DOMAIN requests : /\ requests'[r].method = requests[r].method
                                /\ requests'[r].attempt = requests[r].attempt

\* A handshake in the Map is that of an attempt awaiting it.
LEMMA HandshakeOf ==
  ASSUME RequestsInv, TypeConnection, HandshakesInv
  PROVE  /\ \A r \in held : requests[r].attempt \in Attempt =>
              attempts[requests[r].attempt] = "initializing"
         /\ \A R : R \subseteq held => \A a \in handshakes(R) :
              a \in Attempt /\ attempts[a] = "initializing"
<1>1. \A r \in held : requests[r] \in RequestRecord
  BY HeldById
<1>2. \A r \in held : requests[r].attempt \in Attempt \cup {NoAttempt}
  BY <1>1 DEF RequestRecord
<1>3. \A r \in held : requests[r].attempt \in Attempt =>
        attempts[requests[r].attempt] = "initializing"
  BY ClientAssumption DEF HandshakesInv, HandshakesHeld, handshakes
<1> QED BY <1>2, <1>3 DEF handshakes

\* Settling the requests R, by answer, timer or cleanup, leaves the other handshakes alone.
LEMMA SettledHandshakes ==
  ASSUME RequestsInv, TypeConnection, HandshakesInv, NEW R, R \subseteq held,
         SamePurpose, held' = held \ R,
         \A a \in handshakes(R) : attempts'[a] \in {"failing", "failed", "done"},
         \A a \in Attempt \ handshakes(R) :
           \/ attempts'[a] = attempts[a]
           \/ attempts[a] = "failing" /\ attempts'[a] = "failed"
  PROVE  HandshakesInv'
<1>1. \A a \in Attempt : attempts'[a] \in {"idle", "opening"} => attempts'[a] = attempts[a]
  OBVIOUS
<1>2. OneHandshake'
  BY <1>1 DEF HandshakesInv, OneHandshake, SamePurpose
<1>3. held \subseteq DOMAIN requests
  BY HeldById
<1>4. \A a \in Attempt : a \in handshakes(held)' <=> a \in handshakes(held) \ handshakes(R)
  <2> SUFFICES ASSUME NEW a \in Attempt
               PROVE  a \in handshakes(held)' <=> a \in handshakes(held) \ handshakes(R)
    OBVIOUS
  <2>1. a # NoAttempt
    BY ClientAssumption
  <2>2. a \in handshakes(held)' <=> \E r \in held \ R : requests[r].attempt = a
    BY <1>3, <2>1 DEF handshakes, SamePurpose
  <2>3. a \in handshakes(held) <=> \E r \in held : requests[r].attempt = a
    BY <2>1 DEF handshakes
  <2>4. a \in handshakes(R) <=> \E r \in R : requests[r].attempt = a
    BY <2>1 DEF handshakes
  <2>5. \A r, q \in held : requests[r].attempt = a /\ requests[q].attempt = a => r = q
    BY <1>3 DEF HandshakesInv, OneHandshake
  <2> QED BY <2>2, <2>3, <2>4, <2>5
<1>5. \A a \in Attempt : attempts'[a] = "initializing" <=>
                           attempts[a] = "initializing" /\ a \notin handshakes(R)
  OBVIOUS
<1>6. HandshakesHeld'
  BY <1>4, <1>5 DEF HandshakesInv, HandshakesHeld
<1> QED BY <1>2, <1>6 DEF HandshakesInv

\* cleanup() makes every attempt that awaits a handshake fail.
LEMMA CleanupHandshakes ==
  ASSUME RequestsInv, TypeConnection, HandshakesInv, cleanup,
         \/ attempts' = failing(handshakes(held))
         \/ \E a \in Attempt : /\ attempts[a] = "failing"
                               /\ attempts' = [failing(handshakes(held)) EXCEPT ![a] = "failed"]
  PROVE  HandshakesInv' /\ AttemptStep
<1>1. \A a \in handshakes(held) : a \in Attempt /\ attempts[a] = "initializing"
  BY HandshakeOf
<1>2. held' = held \ held
  BY CleanupEmpties
<1>3. SamePurpose
  BY DEF cleanup, rejected, SamePurpose, RequestsInv, TypeRequests, RequestRecord
<1>4. /\ \A a \in handshakes(held) : attempts'[a] = "failing"
      /\ \A a \in Attempt \ handshakes(held) :
           \/ attempts'[a] = attempts[a]
           \/ attempts[a] = "failing" /\ attempts'[a] = "failed"
  BY <1>1 DEF failing, TypeConnection
<1>5. HandshakesInv'
  BY <1>2, <1>3, <1>4, SettledHandshakes
<1>6. AttemptStep
  BY <1>1, <1>4 DEF AttemptStep, After
<1> QED BY <1>5, <1>6

\* A step without requests in it.
LEMMA UnsentHandshakes ==
  ASSUME RequestsInv, TypeConnection, HandshakesInv, UNCHANGED requestVars,
         \A a \in Attempt : \/ attempts'[a] = attempts[a]
                            \/ /\ attempts[a] \in {"idle", "opening"}
                               /\ attempts'[a] \in {"opening", "failing"}
  PROVE  HandshakesInv'
<1>1. requests' = requests /\ held' = held
  BY DEF requestVars, held
<1>2. handshakes(held)' = handshakes(held)
  BY <1>1 DEF handshakes
<1>3. HandshakesHeld'
  BY <1>2 DEF HandshakesInv, HandshakesHeld
<1>4. OneHandshake'
  BY <1>1 DEF HandshakesInv, OneHandshake
<1> QED BY <1>3, <1>4 DEF HandshakesInv

\* Sending a handshake, or a request of the connected client.
LEMMA SentHandshakes ==
  ASSUME ClientInv, TypeConnection, HandshakesInv,
         NEW r \in Request, NEW method \in Method \cup {"initialize"},
         NEW a \in Attempt \cup {NoAttempt}, sendRequest(r, method, a, TRUE),
         method = "initialize" <=> a \in Attempt,
         \A b \in Attempt : \/ b # a /\ attempts'[b] = attempts[b]
                            \/ b = a /\ attempts[b] = "opening" /\ attempts'[b] = "initializing"
  PROVE  HandshakesInv'
<1>1. /\ r \notin DOMAIN requests
      /\ DOMAIN requests' = DOMAIN requests \cup {r}
      /\ \A q \in DOMAIN requests : requests'[q] = requests[q]
      /\ requests'[r].method = method /\ requests'[r].attempt = a
      /\ requests'[r].status = "pending"
  BY DEF sendRequest, put
<1>2. RequestsInv'
  BY SendKeeps DEF ClientInv
<1>3. held' = held \cup {r} /\ held \subseteq DOMAIN requests
  <2>1. held \subseteq DOMAIN requests
    BY HeldById DEF ClientInv
  <2>2. held' \subseteq DOMAIN requests'
    BY <1>2 DEF RequestsInv, TypeRequests, held
  <2>3. \A q \in DOMAIN requests' : requests'[q].status = "pending" <=> q \in held'
    BY <1>2 DEF RequestsInv, PendingUnsettled
  <2>4. \A q \in DOMAIN requests : requests[q].status = "pending" <=> q \in held
    BY DEF ClientInv, RequestsInv, PendingUnsettled
  <2> QED BY <1>1, <2>1, <2>2, <2>3, <2>4
<1>4. \A q \in DOMAIN requests : requests[q].attempt \in Attempt => requests[q].attempt # a
  BY DEF HandshakesInv, OneHandshake
<1>5. OneHandshake'
  BY <1>1, <1>4 DEF HandshakesInv, OneHandshake
<1>6. HandshakesHeld'
  <2>1. \A b \in Attempt : b \in handshakes(held)' <=> b \in handshakes(held) \/ b = a
    BY <1>1, <1>3, ClientAssumption DEF handshakes
  <2> QED BY <2>1 DEF HandshakesInv, HandshakesHeld
<1> QED BY <1>5, <1>6 DEF HandshakesInv

\* Settling one request that is in the Map.
LEMMA SettleOne ==
  ASSUME RequestsInv, NEW r \in held, forget(requests[r].id)
  PROVE  held' = held \ {r}
<1>1. /\ DOMAIN pendingRequests' = DOMAIN pendingRequests \ {requests[r].id}
      /\ \A id \in DOMAIN pendingRequests' : pendingRequests'[id] = pendingRequests[id]
  BY DEF forget, restrictTo
<1>2. r \in DOMAIN requests /\ pendingRequests[requests[r].id] = r
  BY DEF RequestsInv, TypeRequests, IdsUnique, held
<1> QED BY <1>1, <1>2 DEF held, RequestsInv, IdsUnique

\* Every step keeps each attempt with its handshake, and takes it one stage further.
LEMMA HandshakesStep ==
  ASSUME ClientInv, ConnectionInv, HandshakesInv, [Next]_vars
  PROVE  HandshakesInv' /\ AttemptStep
<1> DEFINE Goal == HandshakesInv' /\ AttemptStep
<1>typed. RequestsInv /\ TypeConnection
  BY DEF ClientInv, ConnectionInv
<1>1. ASSUME UNCHANGED requestVars,
             \A a \in Attempt : \/ attempts'[a] = attempts[a]
                                \/ /\ attempts[a] \in {"idle", "opening"}
                                   /\ attempts'[a] \in {"opening", "failing"}
                                   /\ attempts'[a] \in After[attempts[a]]
      PROVE  Goal
  <2>1. HandshakesInv'
    BY <1>1, <1>typed, UnsentHandshakes
  <2> QED BY <1>1, <2>1 DEF AttemptStep
<1>2. ASSUME NEW a \in Attempt, ConnectToServer(a) PROVE Goal
  <2>1. UNCHANGED requestVars /\ attempts[a] = "idle"
        /\ (attempts' = [attempts EXCEPT ![a] = "opening"] \/ attempts' = failing({a}))
    BY <1>2 DEF ConnectToServer
  <2>2. \A b \in Attempt : \/ attempts'[b] = attempts[b]
                           \/ attempts[b] = "idle" /\ attempts'[b] \in {"opening", "failing"}
    BY <1>typed, <2>1 DEF failing, TypeConnection
  <2> QED BY <1>1, <2>1, <2>2 DEF After
<1>3. ASSUME NEW a \in Attempt, SourceFails(a) \/ ConnectionTimeout(a) PROVE Goal
  <2>1. UNCHANGED requestVars
        /\ (attempts' = attempts \/ (attempts[a] = "opening" /\ attempts' = failing({a})))
    BY <1>3 DEF SourceFails, ConnectionTimeout
  <2>2. \A b \in Attempt : \/ attempts'[b] = attempts[b]
                           \/ attempts[b] = "opening" /\ attempts'[b] = "failing"
    BY <1>typed, <2>1 DEF failing, TypeConnection
  <2> QED BY <1>1, <2>1, <2>2 DEF After
<1>4. ASSUME NEW a \in Attempt, EndpointNamed(a) PROVE Goal
  <2>1. CASE UNCHANGED <<attempts, requestVars>>
    BY <1>1, <2>1
  <2>2. CASE /\ attempts[a] = "opening"
             /\ attempts' = [attempts EXCEPT ![a] = "initializing"]
             /\ \E r \in Request : sendRequest(r, "initialize", a, TRUE)
    <3> PICK r \in Request : sendRequest(r, "initialize", a, TRUE)
      BY <2>2
    <3>1. \A b \in Attempt : \/ b # a /\ attempts'[b] = attempts[b]
                             \/ b = a /\ attempts[b] = "opening" /\ attempts'[b] = "initializing"
      BY <1>typed, <2>2 DEF TypeConnection
    <3>2. /\ "initialize" \in Method \cup {"initialize"} /\ a \in Attempt \cup {NoAttempt}
          /\ "initialize" = "initialize" <=> a \in Attempt
      OBVIOUS
    <3>3. HandshakesInv'
      BY <1>typed, <3>1, <3>2, SentHandshakes, Zenon
    <3>4. AttemptStep
      BY <3>1 DEF AttemptStep, After
    <3> QED BY <3>3, <3>4
  <2> QED BY <1>4, <2>1, <2>2 DEF EndpointNamed
<1>5. ASSUME NEW r \in Request, NEW method \in Method, CallMethod(r, method) PROVE Goal
  <2>1. /\ sendRequest(r, method, NoAttempt, messageEndpoint) /\ attempts' = attempts
        /\ state = "connected"
    BY <1>5 DEF CallMethod, connectionVars
  <2>2. messageEndpoint = TRUE
    BY <2>1, <1>typed DEF ClientInv, ConnectedCanPost, TypeConnection
  <2>3. method # "initialize" /\ NoAttempt \notin Attempt
    BY ClientAssumption DEF ListMethod
  <2>4. HandshakesInv'
    BY <1>typed, <2>1, <2>2, <2>3, SentHandshakes
  <2> QED BY <2>1, <2>4 DEF AttemptStep
<1>6. ASSUME Disconnect \/ \E a \in Attempt : Catch(a) PROVE Goal
  <2>1. /\ cleanup
        /\ \/ attempts' = failing(handshakes(held))
           \/ \E a \in Attempt : /\ attempts[a] = "failing"
                                 /\ attempts' = [failing(handshakes(held)) EXCEPT ![a] = "failed"]
    BY <1>6 DEF Disconnect, Catch
  <2> QED BY <1>typed, <2>1, CleanupHandshakes
<1>7. ASSUME NEW r \in held, forget(requests[r].id), SamePurpose,
             \A a \in handshakes({r}) : attempts'[a] \in {"failing", "done"},
             \A a \in Attempt \ handshakes({r}) : attempts'[a] = attempts[a]
      PROVE  Goal
  <2>1. held' = held \ {r} /\ {r} \subseteq held
    BY <1>7, <1>typed, SettleOne
  <2>2. HandshakesInv'
    BY <1>7, <1>typed, <2>1, SettledHandshakes
  <2>3. \A a \in handshakes({r}) : a \in Attempt /\ attempts[a] = "initializing"
    BY <1>typed, <2>1, HandshakeOf
  <2>4. AttemptStep
    BY <1>7, <2>3 DEF AttemptStep, After
  <2> QED BY <2>2, <2>4
<1>8. ASSUME NEW a \in Attempt, NEW q \in Request, NEW isError \in BOOLEAN,
             AnswerArrives(a, q, isError)
      PROVE  Goal
  <2>1. requests[q].id \in DOMAIN pendingRequests /\ q \in DOMAIN requests
    BY <1>8 DEF AnswerArrives
  <2>2. pendingRequests[requests[q].id] = q /\ q \in held
    BY <1>typed, <2>1, HeldById
  <2>3. /\ requests' = [requests EXCEPT ![q] = [@ EXCEPT !.status = "resolved", !.answer = q]]
        /\ resume(requests[q], isError) /\ forget(requests[q].id)
    BY <1>8, <2>2 DEF AnswerArrives
  <2>4. SamePurpose
    BY <1>typed, <2>1, <2>3 DEF SamePurpose, RequestsInv, TypeRequests, RequestRecord
  <2>5. CASE requests[q].method = "initialize"
    <3>1. requests[q].attempt \in Attempt /\ handshakes({q}) = {requests[q].attempt}
      BY <2>1, <2>5, ClientAssumption DEF HandshakesInv, OneHandshake, handshakes
    <3>2. \/ attempts' = [attempts EXCEPT ![requests[q].attempt] = "done"]
          \/ attempts' = failing({requests[q].attempt})
      BY <2>3, <2>5 DEF resume, ListMethod
    <3>3. /\ attempts'[requests[q].attempt] \in {"failing", "done"}
          /\ \A b \in Attempt \ {requests[q].attempt} : attempts'[b] = attempts[b]
      BY <1>typed, <3>1, <3>2 DEF failing, TypeConnection
    <3> QED BY <1>7, <2>2, <2>3, <2>4, <3>1, <3>3
  <2>6. CASE requests[q].method # "initialize"
    <3>1. handshakes({q}) = {} /\ attempts' = attempts
      <4>1. requests[q].attempt \in Attempt \cup {NoAttempt}
        BY <1>typed, <2>1 DEF RequestsInv, TypeRequests, RequestRecord
      <4>2. handshakes({q}) = {}
        BY <2>1, <2>6, <4>1 DEF HandshakesInv, OneHandshake, handshakes
      <4> QED BY <2>3, <2>6, <4>2 DEF resume
    <3> QED BY <1>7, <2>2, <2>3, <2>4, <3>1
  <2> QED BY <2>5, <2>6
<1>9. ASSUME NEW r \in Request, RequestTimeout(r) PROVE Goal
  <2>1. /\ r \in held /\ forget(requests[r].id) /\ requests' = rejected({r})
        /\ attempts' = failing(handshakes({r}))
    BY <1>9 DEF RequestTimeout
  <2>2. SamePurpose
    BY <1>typed, <2>1 DEF SamePurpose, rejected, RequestsInv, TypeRequests, RequestRecord
  <2>3. \A a \in handshakes({r}) : a \in Attempt
    BY <1>typed, <2>1, HandshakeOf
  <2> QED BY <1>7, <2>1, <2>2, <2>3 DEF failing
<1>10. ASSUME \/ UNCHANGED vars
              \/ \E a \in Attempt : SourceOpens(a)
       PROVE  Goal
  <2>1. UNCHANGED <<attempts, requestVars>>
    BY <1>10 DEF vars, connectionVars, SourceOpens
  <2> QED BY <1>1, <2>1
<1> HIDE DEF Goal
<1>11. Goal
  BY <1>2, <1>3, <1>4, <1>5, <1>6, <1>8, <1>9, <1>10 DEF Next
<1> QED BY <1>11 DEF Goal

\* At every step of the client.
LEMMA HandshakesInvariant == Spec => []HandshakesInv
<1>1. Init => HandshakesInv
  BY DEF Init, HandshakesInv, OneHandshake, HandshakesHeld, handshakes, held, emptyMap
<1> QED BY <1>1, HandshakesStep, ClientInvariant, ConnectionInvariant, PTL DEF Spec

\* A connectToServer that awaits the answer of its handshake has a request in the Map,
\* and so a timer that ends it.
THEOREM HandshakesAlwaysHeld == Spec => []HandshakesHeld
  BY HandshakesInvariant, PTL DEF HandshakesInv

\* connectToServer goes through its stages in order, settles once, and never comes back
\* from a failure.
THEOREM AttemptsAdvance == Spec => [][AttemptStep]_vars
<1>1. ClientInv /\ ConnectionInv /\ HandshakesInv /\ [Next]_vars => AttemptStep
  BY HandshakesStep
<1> QED BY <1>1, ClientInvariant, ConnectionInvariant, HandshakesInvariant, PTL DEF Spec

\* What EveryRequestEnds tells apart of an invocation.
awaiting(a) == attempts[a] = "initializing"
failed(a)   == attempts[a] = "failing"
settled(a)  == attempts[a] \in {"done", "failed"}

\* EveryRequestEnds asks two things for a handshake beside this: that its answer or its
\* timer comes, and that the catch block runs once it has failed.  The caller of
\* connectToServer is then told, and for good.
THEOREM AttemptsSettle ==
  ASSUME NEW a \in Attempt
  PROVE  Spec /\ (awaiting(a) ~> ~awaiting(a)) /\ (failed(a) ~> ~failed(a))
           => (awaiting(a) ~> []settled(a))
<1>1. [AttemptStep]_vars =>
        /\ awaiting(a) => awaiting(a)' \/ failed(a)' \/ settled(a)'
        /\ failed(a) => failed(a)' \/ settled(a)'
        /\ settled(a) => settled(a)'
  BY DEF AttemptStep, After, vars, connectionVars, awaiting, failed, settled
<1> QED BY <1>1, AttemptsAdvance, PTL
=============================================================================
