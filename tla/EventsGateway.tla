----------------------------- MODULE EventsGateway -----------------------------
(***************************************************************************)
(* EventsGateway of apps/server: which socket is whose, who is online, who *)
(* gets the events of a room, and the typing indicators.  socket.io calls  *)
(* the handlers; only handleAuth awaits something, and anything may happen *)
(* to its socket meanwhile, its end included.                              *)
(***************************************************************************)
EXTENDS Naturals, FiniteSets, Maps

CONSTANTS
  Socket,     \* the sockets; a socket id is used once (a bound)
  User,       \* humans and agents
  Room,       \* conversations
  NoUser,     \* of a socket that has not authenticated, and of an invalid token
  MaxTyping,  \* typing timers running at a time for a socket and a room (a bound)
  MaxVerifying  \* handleAuth calls awaiting verifyToken at a time (a bound)

ASSUME EventsAssumption ==
  NoUser \notin User /\ MaxTyping \in Nat /\ MaxVerifying \in Nat

VARIABLES
  link,              \* socket -> whether it is connected
  identity,          \* socket -> client.identity
  socketIdentities,  \* socket -> user
  userSockets,       \* user -> sockets
  rooms,             \* socket -> the rooms socket.io has it in
  verifying,         \* the handleAuth calls awaiting verifyToken: socket and whose token
  typingTimers,      \* socket and room -> timers running
  typing,            \* receiving socket, user, room: typing:start came after any typing:stop
  late,              \* history: sockets that were authenticated after their end
  switched,          \* history: sockets that authenticated as two users
  cut                \* history: users whose socket ended or switched before its timer fired

maps == <<identity, socketIdentities, userSockets>>
history == <<late, switched, cut>>
vars == <<link, maps, rooms, verifying, typingTimers, typing, history>>

TypeMaps ==
  /\ link \in [Socket -> {"new", "connected", "gone"}]
  /\ identity \in [Socket -> User \cup {NoUser}]
  /\ DOMAIN socketIdentities \subseteq Socket
  /\ socketIdentities \in [DOMAIN socketIdentities -> User]
  /\ DOMAIN userSockets \subseteq User
  /\ userSockets \in [DOMAIN userSockets -> SUBSET Socket]
  /\ rooms \in [Socket -> SUBSET Room]
  /\ late \subseteq Socket /\ switched \subseteq Socket

TypeOK ==
  /\ TypeMaps
  /\ verifying \subseteq Socket \X (User \cup {NoUser})
  /\ typingTimers \in [Socket \X Room -> Nat]
  /\ typing \subseteq Socket \X User \X Room
  /\ cut \subseteq User

Init ==
  /\ link = [s \in Socket |-> "new"]
  /\ identity = [s \in Socket |-> NoUser]
  /\ socketIdentities = emptyMap
  /\ userSockets = emptyMap
  /\ rooms = [s \in Socket |-> {}]
  /\ verifying = {}
  /\ typingTimers = [x \in Socket \X Room |-> 0]
  /\ typing = {}
  /\ late = {} /\ switched = {} /\ cut = {}
-----------------------------------------------------------------------------
Connect(s) ==
  /\ link[s] = "new"
  /\ link' = [link EXCEPT ![s] = "connected"]
  /\ UNCHANGED <<maps, rooms, verifying, typingTimers, typing, history>>

socketsOf(u) == IF u \in DOMAIN userSockets THEN userSockets[u] ELSE {}

isTyping(s) == \E r \in Room : typingTimers[<<s, r>>] > 0

\* Mutant of forget: the identity is deleted before it is read.
forget_IdentityFirst(s) ==
  /\ socketIdentities' = restrictTo(socketIdentities, DOMAIN socketIdentities \ {s})
  /\ UNCHANGED userSockets

\* Mutant of forget: one socket ends and the user is forgotten, other devices and all.
forget_AllDevices(s) ==
  IF s \in DOMAIN socketIdentities
  THEN /\ userSockets' = restrictTo(userSockets, DOMAIN userSockets \ {socketIdentities[s]})
       /\ socketIdentities' = restrictTo(socketIdentities, DOMAIN socketIdentities \ {s})
  ELSE UNCHANGED <<userSockets, socketIdentities>>

forget(s) ==
  IF s \in DOMAIN socketIdentities
  THEN LET u == socketIdentities[s]
           left == socketsOf(u) \ {s} IN
       /\ userSockets' = IF left = {} THEN restrictTo(userSockets, DOMAIN userSockets \ {u})
                         ELSE put(userSockets, u, left)
       /\ socketIdentities' = restrictTo(socketIdentities, DOMAIN socketIdentities \ {s})
  ELSE UNCHANGED <<userSockets, socketIdentities>>

\* socket.io has taken the socket out of its rooms when it calls handleDisconnect, so
\* the offline broadcast, to the rooms in client.rooms, goes to nobody.
Disconnect(s) ==
  /\ link[s] = "connected"
  /\ link' = [link EXCEPT ![s] = "gone"]
  /\ rooms' = [rooms EXCEPT ![s] = {}]
  /\ forget(s)
  /\ typing' = {x \in typing : x[1] # s}
  /\ cut' = cut \cup {u \in User : u = identity[s] /\ isTyping(s)}
  /\ UNCHANGED <<identity, verifying, typingTimers, late, switched>>

\* handleAuth up to its await, with a token of u or an invalid one.
HandleAuth(s, u) ==
  /\ link[s] = "connected"
  /\ Cardinality(verifying) < MaxVerifying
  /\ verifying' = verifying \cup {<<s, u>>}
  /\ UNCHANGED <<link, maps, rooms, typingTimers, typing, history>>

track(s, u) ==
  /\ socketIdentities' = put(socketIdentities, s, u)
  /\ userSockets' = put(userSockets, u, socketsOf(u) \cup {s})

\* Mutant of FinishAuth: what verifyToken returned is stored before it is checked.
FinishAuth_Unchecked(s, u) ==
  /\ <<s, u>> \in verifying
  /\ verifying' = verifying \ {<<s, u>>}
  /\ identity' = [identity EXCEPT ![s] = u]
  /\ track(s, u)
  /\ UNCHANGED <<link, rooms, typingTimers, typing, history>>

FinishAuth(s, u) ==
  /\ <<s, u>> \in verifying
  /\ verifying' = verifying \ {<<s, u>>}
  /\ \/ u = NoUser /\ UNCHANGED <<maps, history>>
     \/ /\ u \in User
        /\ identity' = [identity EXCEPT ![s] = u]
        /\ track(s, u)
        /\ late' = IF link[s] = "gone" THEN late \cup {s} ELSE late
        /\ switched' = IF identity[s] \in User \ {u} THEN switched \cup {s} ELSE switched
        /\ cut' = cut \cup {v \in User \ {u} : v = identity[s] /\ isTyping(s)}
  /\ UNCHANGED <<link, rooms, typingTimers, typing>>

\* Mutant of HandleSubscribe: anybody may subscribe.
HandleSubscribe_Anonymous(s, r) ==
  /\ link[s] = "connected"
  /\ rooms' = [rooms EXCEPT ![s] = @ \cup {r}]
  /\ UNCHANGED <<link, maps, verifying, typingTimers, typing, history>>

HandleSubscribe(s, r) ==
  /\ link[s] = "connected" /\ identity[s] # NoUser
  /\ rooms' = [rooms EXCEPT ![s] = @ \cup {r}]
  /\ UNCHANGED <<link, maps, verifying, typingTimers, typing, history>>

HandleUnsubscribe(s, r) ==
  /\ link[s] = "connected"
  /\ rooms' = [rooms EXCEPT ![s] = @ \ {r}]
  /\ typing' = {x \in typing : x[1] # s \/ x[3] # r}
  /\ UNCHANGED <<link, maps, verifying, typingTimers, history>>

\* What client.to(r) reaches.
to(s, r) == {t \in Socket \ {s} : r \in rooms[t]}

\* typing:start, and a timer of three seconds.
HandleTyping(s, r) ==
  /\ link[s] = "connected" /\ identity[s] # NoUser
  /\ typingTimers[<<s, r>>] < MaxTyping
  /\ typing' = typing \cup (to(s, r) \X {identity[s]} \X {r})
  /\ typingTimers' = [typingTimers EXCEPT ![<<s, r>>] = @ + 1]
  /\ UNCHANGED <<link, maps, rooms, verifying, history>>

\* Mutant of TypingTimeout: typing:stop is sent only by one who is in the room.
TypingTimeout_InRoom(s, r) ==
  /\ typingTimers[<<s, r>>] > 0
  /\ typingTimers' = [typingTimers EXCEPT ![<<s, r>>] = @ - 1]
  /\ typing' = IF s \in DOMAIN socketIdentities /\ r \in rooms[s]
               THEN typing \ (to(s, r) \X {identity[s]} \X {r}) ELSE typing
  /\ UNCHANGED <<link, maps, rooms, verifying, history>>

\* typing:stop, if the socket is still known, under the name it has by then.
TypingTimeout(s, r) ==
  /\ typingTimers[<<s, r>>] > 0
  /\ typingTimers' = [typingTimers EXCEPT ![<<s, r>>] = @ - 1]
  /\ typing' = IF s \in DOMAIN socketIdentities
               THEN typing \ (to(s, r) \X {identity[s]} \X {r}) ELSE typing
  /\ UNCHANGED <<link, maps, rooms, verifying, history>>

Next ==
  \/ \E s \in Socket : Connect(s) \/ Disconnect(s)
  \/ \E s \in Socket, u \in User \cup {NoUser} : HandleAuth(s, u) \/ FinishAuth(s, u)
  \/ \E s \in Socket, r \in Room :
       \/ HandleSubscribe(s, r) \/ HandleUnsubscribe(s, r)
       \/ HandleTyping(s, r) \/ TypingTimeout(s, r)

Spec == Init /\ [][Next]_vars

\* Timers fire; clients owe nothing.
FairSpec == Spec /\ \A s \in Socket, r \in Room : WF_vars(TypingTimeout(s, r))
-----------------------------------------------------------------------------
\* The two maps agree: a user with sockets has at least one, a socket that is known is
\* among its user's, and a socket among a user's is known as theirs, unless it has
\* authenticated as two.
MapsAgree ==
  /\ \A u \in DOMAIN userSockets : userSockets[u] # {}
  /\ \A s \in DOMAIN socketIdentities : s \in socketsOf(socketIdentities[s])
  /\ \A u \in DOMAIN userSockets : \A s \in userSockets[u] \ switched :
       s \in DOMAIN socketIdentities /\ socketIdentities[s] = u

\* A user who is online has a connected socket, unless one of the sockets recorded was
\* authenticated after its end or as two users: nothing else leaves an entry behind.
OnlineExplained ==
  \A u \in DOMAIN userSockets : \A s \in userSockets[u] :
    link[s] = "connected" \/ s \in late \cup switched

\* Every connected socket that is in a room is known, and known as whom it last
\* authenticated: whoever gets a room's events is accounted for.
SubscribersKnown ==
  \A s \in Socket : rooms[s] # {} =>
    s \in DOMAIN socketIdentities /\ socketIdentities[s] = identity[s]

\* A typing indicator goes out while its receiver stays in the room, unless the one
\* who typed went, or became someone else, before the timer fired.
TypingEnds ==
  \A t \in Socket, u \in User, r \in Room :
    <<t, u, r>> \in typing ~> (<<t, u, r>> \notin typing \/ u \in cut)
=============================================================================
