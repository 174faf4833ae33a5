-------------------------- MODULE EventsGatewayProofs --------------------------
(* What holds of the real-time gateway for any sockets, users and rooms.      *)
EXTENDS EventsGateway, TLAPS

\* The identity in the Map is the one on the socket: a socket that authenticates again
\* as the same user is not taken for one that switched.
IdentityKnown ==
  \A s \in DOMAIN socketIdentities : socketIdentities[s] = identity[s]

\* An authenticated socket is known until its end, and in a room until then at most:
\* what makes everyone in a room known.
KnownWhileConnected ==
  /\ \A s \in Socket : link[s] = "connected" /\ identity[s] # NoUser
                         => s \in DOMAIN socketIdentities
  /\ \A s \in Socket : rooms[s] # {} => link[s] = "connected" /\ identity[s] # NoUser

\* A token is verified for a socket that connected first: authentication may be late,
\* it is never early.
VerifyingConnected ==
  /\ verifying \subseteq Socket \X (User \cup {NoUser})
  /\ \A x \in verifying : link[x[1]] # "new"

\* A socket has no identity before it connects.
NewUnknown ==
  \A s \in Socket : link[s] = "new" => identity[s] = NoUser

EventsInv ==
  /\ TypeMaps /\ MapsAgree /\ OnlineExplained
  /\ IdentityKnown /\ KnownWhileConnected /\ VerifyingConnected /\ NewUnknown

\* The sockets of each user after forget: s has left its user, and nothing else changed.
LEMMA ForgetRemoves ==
  ASSUME EventsInv, NEW s \in Socket, forget(s)
  PROVE  /\ DOMAIN socketIdentities' = DOMAIN socketIdentities \ {s}
         /\ \A x \in DOMAIN socketIdentities' : socketIdentities'[x] = socketIdentities[x]
         /\ socketIdentities' \in [DOMAIN socketIdentities' -> User]
         /\ DOMAIN userSockets' \subseteq DOMAIN userSockets
         /\ userSockets' \in [DOMAIN userSockets' -> SUBSET Socket]
         /\ \A u \in DOMAIN userSockets' : userSockets'[u] # {}
         /\ \A u \in DOMAIN userSockets' : userSockets'[u] \subseteq userSockets[u]
         /\ \A u \in DOMAIN userSockets : \A x \in userSockets[u] \ {s} :
              u \in DOMAIN userSockets' /\ x \in userSockets'[u]
         /\ s \in DOMAIN socketIdentities /\ socketIdentities[s] \in DOMAIN userSockets' =>
              s \notin userSockets'[socketIdentities[s]]
<1>1. CASE s \notin DOMAIN socketIdentities
  <2>1. UNCHANGED <<userSockets, socketIdentities>>
    BY <1>1 DEF forget
  <2>2. userSockets' = userSockets /\ socketIdentities' = socketIdentities
    BY <2>1
  <2>3. /\ socketIdentities \in [DOMAIN socketIdentities -> User]
        /\ userSockets \in [DOMAIN userSockets -> SUBSET Socket]
        /\ \A u \in DOMAIN userSockets : userSockets[u] # {}
    BY DEF EventsInv, TypeMaps, MapsAgree
  <2>4. DOMAIN socketIdentities \ {s} = DOMAIN socketIdentities
    BY <1>1
  <2> QED BY <1>1, <2>2, <2>3, <2>4
<1>2. CASE s \in DOMAIN socketIdentities
  <2> PICK u \in User : u = socketIdentities[s]
    BY <1>2 DEF EventsInv, TypeMaps
  <2>1. u \in DOMAIN userSockets /\ s \in userSockets[u] /\ socketsOf(u) = userSockets[u]
    BY <1>2 DEF EventsInv, MapsAgree, socketsOf
  <2> DEFINE left == userSockets[u] \ {s}
  <2>2. /\ userSockets' = IF left = {} THEN restrictTo(userSockets, DOMAIN userSockets \ {u})
                          ELSE put(userSockets, u, left)
        /\ socketIdentities' = restrictTo(socketIdentities, DOMAIN socketIdentities \ {s})
    BY <1>2, <2>1 DEF forget
  <2>3. /\ DOMAIN socketIdentities' = DOMAIN socketIdentities \ {s}
        /\ \A x \in DOMAIN socketIdentities' : socketIdentities'[x] = socketIdentities[x]
        /\ socketIdentities' \in [DOMAIN socketIdentities' -> User]
    BY <2>2 DEF restrictTo, EventsInv, TypeMaps
  <2>4. CASE left = {}
    <3>1. /\ DOMAIN userSockets' = DOMAIN userSockets \ {u}
          /\ \A v \in DOMAIN userSockets \ {u} : userSockets'[v] = userSockets[v]
          /\ userSockets' \in [DOMAIN userSockets' -> SUBSET Socket]
      BY <2>2, <2>4 DEF restrictTo, EventsInv, TypeMaps
    <3> QED BY <1>2, <2>1, <2>3, <2>4, <3>1 DEF EventsInv, MapsAgree
  <2>5. CASE left # {}
    <3>1. /\ DOMAIN userSockets' = DOMAIN userSockets
          /\ \A v \in DOMAIN userSockets \ {u} : userSockets'[v] = userSockets[v]
          /\ userSockets'[u] = left
          /\ userSockets' \in [DOMAIN userSockets' -> SUBSET Socket]
      BY <2>1, <2>2, <2>5 DEF put, EventsInv, TypeMaps
    <3> QED BY <1>2, <2>1, <2>3, <2>5, <3>1 DEF EventsInv, MapsAgree
  <2> QED BY <2>4, <2>5
<1> QED BY <1>1, <1>2

\* The maps after track: s is known as u and among u's sockets, nothing else changed.
LEMMA TrackAdds ==
  ASSUME EventsInv, NEW s \in Socket, NEW u \in User, track(s, u)
  PROVE  /\ DOMAIN socketIdentities' = DOMAIN socketIdentities \cup {s}
         /\ \A x \in DOMAIN socketIdentities \ {s} : socketIdentities'[x] = socketIdentities[x]
         /\ socketIdentities'[s] = u
         /\ socketIdentities' \in [DOMAIN socketIdentities' -> User]
         /\ DOMAIN userSockets' = DOMAIN userSockets \cup {u}
         /\ \A v \in DOMAIN userSockets \ {u} : userSockets'[v] = userSockets[v]
         /\ userSockets'[u] = socketsOf(u) \cup {s}
         /\ userSockets' \in [DOMAIN userSockets' -> SUBSET Socket]
  BY DEF track, put, socketsOf, EventsInv, TypeMaps

\* The end of a socket.
LEMMA DisconnectKeeps ==
  ASSUME EventsInv, NEW s \in Socket, Disconnect(s)
  PROVE  EventsInv'
<1>1. /\ link' = [link EXCEPT ![s] = "gone"] /\ rooms' = [rooms EXCEPT ![s] = {}]
      /\ forget(s) /\ UNCHANGED <<identity, late, switched>>
  BY DEF Disconnect
<1>2. /\ DOMAIN socketIdentities' = DOMAIN socketIdentities \ {s}
      /\ \A x \in DOMAIN socketIdentities' : socketIdentities'[x] = socketIdentities[x]
      /\ socketIdentities' \in [DOMAIN socketIdentities' -> User]
      /\ DOMAIN userSockets' \subseteq DOMAIN userSockets
      /\ userSockets' \in [DOMAIN userSockets' -> SUBSET Socket]
      /\ \A u \in DOMAIN userSockets' : userSockets'[u] # {}
      /\ \A u \in DOMAIN userSockets' : userSockets'[u] \subseteq userSockets[u]
      /\ \A u \in DOMAIN userSockets : \A x \in userSockets[u] \ {s} :
           u \in DOMAIN userSockets' /\ x \in userSockets'[u]
      /\ s \in DOMAIN socketIdentities /\ socketIdentities[s] \in DOMAIN userSockets' =>
           s \notin userSockets'[socketIdentities[s]]
  BY <1>1, ForgetRemoves, Zenon
<1>3. TypeMaps'
  BY <1>1, <1>2 DEF EventsInv, TypeMaps
<1>4. \A u \in DOMAIN userSockets' : s \in userSockets'[u] => s \in switched
  BY <1>2 DEF EventsInv, MapsAgree
<1>5. MapsAgree'
  <2>1. \A x \in DOMAIN socketIdentities' : x \in socketsOf(socketIdentities[x])'
    <3>1. \A x \in DOMAIN socketIdentities' :
            /\ x # s /\ x \in DOMAIN socketIdentities
            /\ socketIdentities'[x] = socketIdentities[x]
            /\ socketIdentities[x] \in DOMAIN userSockets
            /\ x \in userSockets[socketIdentities[x]]
      BY <1>2 DEF EventsInv, MapsAgree, socketsOf
    <3> QED BY <1>2, <3>1 DEF socketsOf
  <2>2. \A u \in DOMAIN userSockets' : \A x \in userSockets'[u] \ switched' :
          x \in DOMAIN socketIdentities' /\ socketIdentities'[x] = u
    BY <1>1, <1>2, <1>4 DEF EventsInv, MapsAgree
  <2> QED BY <1>2, <2>1, <2>2 DEF MapsAgree
<1>6. OnlineExplained'
  BY <1>1, <1>2, <1>4 DEF EventsInv, OnlineExplained, TypeMaps
<1>7. IdentityKnown'
  BY <1>1, <1>2 DEF EventsInv, IdentityKnown
<1>8. KnownWhileConnected'
  BY <1>1, <1>2 DEF EventsInv, KnownWhileConnected, TypeMaps
<1>9. VerifyingConnected' /\ NewUnknown'
  BY <1>1 DEF Disconnect, EventsInv, VerifyingConnected, NewUnknown, TypeMaps
<1> QED BY <1>3, <1>5, <1>6, <1>7, <1>8, <1>9 DEF EventsInv

\* An authentication, in time or late, of a socket that had an identity or none.
LEMMA AuthKeeps ==
  ASSUME EventsInv, NEW s \in Socket, NEW u \in User, FinishAuth(s, u), u # NoUser
  PROVE  EventsInv'
<1>1. /\ identity' = [identity EXCEPT ![s] = u] /\ track(s, u) /\ UNCHANGED <<link, rooms>>
      /\ link[s] # "new" /\ verifying' \subseteq verifying
      /\ late' = IF link[s] = "gone" THEN late \cup {s} ELSE late
      /\ switched' = IF identity[s] \in User \ {u} THEN switched \cup {s} ELSE switched
  BY DEF FinishAuth, EventsInv, VerifyingConnected
<1>2. /\ DOMAIN socketIdentities' = DOMAIN socketIdentities \cup {s}
      /\ \A x \in DOMAIN socketIdentities \ {s} : socketIdentities'[x] = socketIdentities[x]
      /\ socketIdentities'[s] = u
      /\ socketIdentities' \in [DOMAIN socketIdentities' -> User]
      /\ DOMAIN userSockets' = DOMAIN userSockets \cup {u}
      /\ \A v \in DOMAIN userSockets \ {u} : userSockets'[v] = userSockets[v]
      /\ userSockets'[u] = socketsOf(u) \cup {s}
      /\ userSockets' \in [DOMAIN userSockets' -> SUBSET Socket]
  BY <1>1, TrackAdds, Zenon
<1>3. TypeMaps'
  BY <1>1, <1>2 DEF EventsInv, TypeMaps
<1>4. \A v \in DOMAIN userSockets' : \A x \in userSockets'[v] :
        (x = s /\ v = u) \/ (v \in DOMAIN userSockets /\ x \in userSockets[v])
  BY <1>2 DEF socketsOf
<1>5. \A v \in DOMAIN userSockets : s \in userSockets[v] /\ v # u => s \in switched'
  <2> SUFFICES ASSUME NEW v \in DOMAIN userSockets, s \in userSockets[v], v # u,
                      s \notin switched
               PROVE  s \in switched'
    BY <1>1
  <2>1. identity[s] = v
    BY DEF EventsInv, MapsAgree, IdentityKnown
  <2>2. v \in User
    BY DEF EventsInv, TypeMaps
  <2> QED BY <1>1, <2>1, <2>2
<1>6. MapsAgree'
  <2>1. \A v \in DOMAIN userSockets' : userSockets'[v] # {}
    BY <1>2 DEF EventsInv, MapsAgree
  <2>2. \A x \in DOMAIN socketIdentities' : x \in socketsOf(socketIdentities[x])'
    <3>1. s \in socketsOf(socketIdentities[s])'
      BY <1>2 DEF socketsOf
    <3>2. ASSUME NEW x \in DOMAIN socketIdentities \ {s} PROVE x \in socketsOf(socketIdentities[x])'
      <4>1. /\ socketIdentities'[x] = socketIdentities[x]
            /\ socketIdentities[x] \in DOMAIN userSockets
            /\ x \in userSockets[socketIdentities[x]]
        BY <1>2 DEF EventsInv, MapsAgree, socketsOf
      <4> QED BY <1>2, <4>1 DEF socketsOf
    <3> QED BY <1>2, <3>1, <3>2
  <2>3. \A v \in DOMAIN userSockets' : \A x \in userSockets'[v] \ switched' :
          x \in DOMAIN socketIdentities' /\ socketIdentities'[x] = v
    BY <1>1, <1>2, <1>4, <1>5 DEF EventsInv, MapsAgree
  <2> QED BY <2>1, <2>2, <2>3 DEF MapsAgree
<1>7. OnlineExplained'
  <2>1. \A v \in DOMAIN userSockets : \A x \in userSockets[v] :
          link'[x] = "connected" \/ x \in late' \cup switched'
    BY <1>1 DEF EventsInv, OnlineExplained
  <2>2. link'[s] = "connected" \/ s \in late'
    BY <1>1 DEF EventsInv, TypeMaps
  <2> QED BY <1>4, <2>1, <2>2 DEF OnlineExplained
<1>8. IdentityKnown'
  BY <1>1, <1>2 DEF EventsInv, IdentityKnown, TypeMaps
<1>9. KnownWhileConnected'
  BY <1>1, <1>2 DEF EventsInv, KnownWhileConnected, TypeMaps
<1>10. VerifyingConnected' /\ NewUnknown'
  BY <1>1 DEF EventsInv, VerifyingConnected, NewUnknown, TypeMaps
<1> QED BY <1>3, <1>6, <1>7, <1>8, <1>9, <1>10 DEF EventsInv

\* A step that leaves sockets, identities and rooms alone keeps the invariant.
LEMMA EventsStutter ==
  ASSUME EventsInv,
         UNCHANGED <<link, identity, socketIdentities, userSockets, rooms, verifying, late, switched>>
  PROVE  EventsInv'
BY DEF EventsInv, TypeMaps, MapsAgree, OnlineExplained, IdentityKnown, KnownWhileConnected,
       VerifyingConnected, NewUnknown, socketsOf

\* Every step keeps the invariant.
LEMMA EventsKeep ==
  ASSUME EventsInv, [Next]_vars
  PROVE  EventsInv'
<1>1. ASSUME NEW s \in Socket, Connect(s) PROVE EventsInv'
  <2>1. UNCHANGED <<identity, socketIdentities, userSockets, rooms, verifying, late, switched>>
    BY <1>1 DEF Connect, maps, history
  <2>2. link[s] = "new" /\ link' = [link EXCEPT ![s] = "connected"]
    BY <1>1 DEF Connect
  <2>3. TypeMaps'
    BY <2>1, <2>2 DEF EventsInv, TypeMaps
  <2>4. MapsAgree' /\ IdentityKnown'
    BY <2>1 DEF EventsInv, MapsAgree, IdentityKnown, socketsOf
  <2>5. OnlineExplained'
    BY <2>1, <2>2 DEF EventsInv, OnlineExplained, TypeMaps
  <2>6. identity[s] = NoUser
    BY <2>2 DEF EventsInv, NewUnknown
  <2>7. KnownWhileConnected'
    BY <2>1, <2>2, <2>6 DEF EventsInv, KnownWhileConnected, TypeMaps
  <2>8. VerifyingConnected' /\ NewUnknown'
    BY <2>1, <2>2 DEF EventsInv, VerifyingConnected, NewUnknown, TypeMaps
  <2> QED BY <2>3, <2>4, <2>5, <2>7, <2>8 DEF EventsInv
<1>2. ASSUME NEW s \in Socket, Disconnect(s) PROVE EventsInv'
  BY <1>2, DisconnectKeeps
<1>3. ASSUME NEW s \in Socket, NEW u \in User \cup {NoUser}, HandleAuth(s, u) PROVE EventsInv'
  <2>1. UNCHANGED <<link, identity, socketIdentities, userSockets, rooms, late, switched>>
    BY <1>3 DEF HandleAuth, maps, history
  <2>2. link[s] = "connected" /\ verifying' = verifying \cup {<<s, u>>}
    BY <1>3 DEF HandleAuth
  <2>3. VerifyingConnected'
    BY <2>1, <2>2 DEF EventsInv, VerifyingConnected
  <2> QED BY <2>1, <2>3 DEF EventsInv, TypeMaps, MapsAgree, OnlineExplained, IdentityKnown,
                            KnownWhileConnected, NewUnknown, socketsOf
<1>4. ASSUME NEW s \in Socket, NEW u \in User \cup {NoUser}, FinishAuth(s, u) PROVE EventsInv'
  <2>1. CASE u \in User
    BY <1>4, <2>1, AuthKeeps, EventsAssumption
  <2>2. CASE u \notin User
    <3>1. UNCHANGED <<link, identity, socketIdentities, userSockets, rooms, late, switched>>
          /\ verifying' \subseteq verifying
      BY <1>4, <2>2 DEF FinishAuth, maps, history
    <3>2. VerifyingConnected'
      BY <3>1 DEF EventsInv, VerifyingConnected
    <3> QED BY <3>1, <3>2 DEF EventsInv, TypeMaps, MapsAgree, OnlineExplained, IdentityKnown,
                              KnownWhileConnected, NewUnknown, socketsOf
  <2> QED BY <2>1, <2>2
<1>5. ASSUME NEW s \in Socket, NEW r \in Room, HandleSubscribe(s, r) \/ HandleUnsubscribe(s, r)
      PROVE  EventsInv'
  <2>1. UNCHANGED <<link, identity, socketIdentities, userSockets, verifying, late, switched>>
    BY <1>5 DEF HandleSubscribe, HandleUnsubscribe, maps, history
  <2>2. /\ \/ link[s] = "connected" /\ identity[s] # NoUser
           \/ rooms[s] # {} \/ rooms'[s] = {}
        /\ rooms' \in [Socket -> SUBSET Room]
        /\ \A t \in Socket \ {s} : rooms'[t] = rooms[t]
    BY <1>5 DEF HandleSubscribe, HandleUnsubscribe, EventsInv, TypeMaps
  <2>3. KnownWhileConnected'
    BY <2>1, <2>2 DEF EventsInv, KnownWhileConnected
  <2> QED BY <2>1, <2>2, <2>3 DEF EventsInv, TypeMaps, MapsAgree, OnlineExplained,
                                  IdentityKnown, VerifyingConnected, NewUnknown, socketsOf
<1>6. ASSUME NEW s \in Socket, NEW r \in Room, HandleTyping(s, r) \/ TypingTimeout(s, r)
      PROVE  EventsInv'
  <2>1. UNCHANGED <<link, identity, socketIdentities, userSockets, rooms, verifying, late, switched>>
    BY <1>6 DEF HandleTyping, TypingTimeout, maps, history
  <2> QED BY <2>1, EventsStutter
<1>7. CASE UNCHANGED vars
  <2>1. UNCHANGED <<link, identity, socketIdentities, userSockets, rooms, verifying, late, switched>>
    BY <1>7 DEF vars, maps, history
  <2> QED BY <2>1, EventsStutter
<1> QED BY <1>1, <1>2, <1>3, <1>4, <1>5, <1>6, <1>7 DEF Next

\* It holds when the server starts.
LEMMA EventsStart ==
  ASSUME Init
  PROVE  EventsInv
BY DEF Init, EventsInv, TypeMaps, MapsAgree, OnlineExplained, IdentityKnown,
       KnownWhileConnected, VerifyingConnected, NewUnknown, socketsOf, emptyMap

\* In every state of the gateway.
THEOREM EventsInvariant == Spec => []EventsInv
BY EventsStart, EventsKeep, PTL DEF Spec

\* The gateway's state is well typed: timers are counted, indicators name users.
THEOREM TypeCorrect == Spec => []TypeOK
<1> DEFINE Typing == /\ typingTimers \in [Socket \X Room -> Nat]
                     /\ typing \subseteq Socket \X User \X Room
                     /\ cut \subseteq User
<1>1. Init => Typing
  BY DEF Init
<1>2. ASSUME EventsInv, Typing, [Next]_vars PROVE Typing'
  <2>1. CASE UNCHANGED <<typingTimers, typing, cut>>
    BY <1>2, <2>1
  <2>2. ASSUME NEW s \in Socket, Disconnect(s) PROVE Typing'
    BY <1>2, <2>2 DEF Disconnect
  <2>3. ASSUME NEW s \in Socket, NEW u \in User \cup {NoUser}, FinishAuth(s, u) PROVE Typing'
    <3>1. cut' \subseteq User /\ UNCHANGED <<typingTimers, typing>>
      BY <1>2, <2>3 DEF FinishAuth, history
    <3> QED BY <1>2, <3>1
  <2>4. ASSUME NEW s \in Socket, NEW r \in Room, HandleUnsubscribe(s, r) PROVE Typing'
    BY <1>2, <2>4 DEF HandleUnsubscribe, history
  <2>5. ASSUME NEW s \in Socket, NEW r \in Room, HandleTyping(s, r) PROVE Typing'
    <3>1. identity[s] \in User /\ to(s, r) \subseteq Socket
      BY <1>2, <2>5 DEF HandleTyping, EventsInv, TypeMaps, to
    <3>2. typing' \subseteq Socket \X User \X Room
      BY <1>2, <2>5, <3>1 DEF HandleTyping
    <3>3. typingTimers' \in [Socket \X Room -> Nat] /\ cut' = cut
      BY <1>2, <2>5 DEF HandleTyping, history
    <3> QED BY <1>2, <3>2, <3>3
  <2>6. ASSUME NEW s \in Socket, NEW r \in Room, TypingTimeout(s, r) PROVE Typing'
    <3>1. typingTimers' \in [Socket \X Room -> Nat] /\ cut' = cut
      BY <1>2, <2>6 DEF TypingTimeout, history
    <3>2. typing' \subseteq typing
      BY <2>6 DEF TypingTimeout
    <3> QED BY <1>2, <3>1, <3>2
  <2>7. ASSUME NEW s \in Socket, Connect(s) PROVE UNCHANGED <<typingTimers, typing, cut>>
    BY <2>7 DEF Connect, history
  <2>8. ASSUME NEW s \in Socket, NEW u \in User \cup {NoUser}, HandleAuth(s, u)
        PROVE  UNCHANGED <<typingTimers, typing, cut>>
    BY <2>8 DEF HandleAuth, history
  <2>9. ASSUME NEW s \in Socket, NEW r \in Room, HandleSubscribe(s, r)
        PROVE  UNCHANGED <<typingTimers, typing, cut>>
    BY <2>9 DEF HandleSubscribe, history
  <2>10. CASE UNCHANGED vars
    BY <2>1, <2>10 DEF vars, history
  <2> HIDE DEF Typing
  <2> QED BY <1>2, <2>1, <2>2, <2>3, <2>4, <2>5, <2>6, <2>7, <2>8, <2>9, <2>10 DEF Next
<1>3. EventsInv /\ Typing => TypeOK
  BY DEF EventsInv, VerifyingConnected, TypeOK
<1> HIDE DEF Typing
<1> QED BY <1>1, <1>2, <1>3, EventsInvariant, PTL DEF Spec

\* socketIdentities and userSockets (events.gateway.ts:50-53) never disagree about a
\* socket that authenticated as one user, whatever order its calls finish in.
THEOREM MapsAlwaysAgree == Spec => []MapsAgree
<1>1. EventsInv => MapsAgree
  BY DEF EventsInv
<1> QED BY <1>1, EventsInvariant, PTL

\* The only ways for a user to be online without a connected socket are the await of
\* handleAuth (line 111) outliving the socket, and a second identity on it (line 119).
THEOREM OnlineAlwaysExplained == Spec => []OnlineExplained
<1>1. EventsInv => OnlineExplained
  BY DEF EventsInv
<1> QED BY <1>1, EventsInvariant, PTL

\* Nobody receives a room's events unknown (handleSubscribe, line 149).
THEOREM SubscribersAlwaysKnown == Spec => []SubscribersKnown
<1>1. EventsInv => SubscribersKnown
  BY DEF EventsInv, KnownWhileConnected, IdentityKnown, SubscribersKnown
<1> QED BY <1>1, EventsInvariant, PTL

-----------------------------------------------------------------------------
(* The typing indicators.                                                    *)

\* s is the one whose typing:start x shows, and its timer is running.
Times(s, x) ==
  /\ s # x[1] /\ x[2] = identity[s]
  /\ s \in DOMAIN socketIdentities
  /\ typingTimers[<<s, x[3]>>] > 0

\* Each indicator that shows has a timer that will stop it, or its user was cut off.
IndicatorsTimed ==
  \A x \in typing :
    /\ x[3] \in rooms[x[1]]
    /\ x[2] \in cut \/ \E s \in Socket : Times(s, x)

\* Every step leaves each indicator that stays a timer that will stop it.
LEMMA IndicatorsKept ==
  ASSUME EventsInv, TypeOK, IndicatorsTimed, [Next]_vars
  PROVE  IndicatorsTimed'
<1> USE DEF Times
<1>1. /\ typing \subseteq Socket \X User \X Room
      /\ typingTimers \in [Socket \X Room -> Nat]
      /\ rooms \in [Socket -> SUBSET Room] /\ identity \in [Socket -> User \cup {NoUser}]
  BY DEF TypeOK, TypeMaps
<1>2. ASSUME typing' \subseteq typing, cut \subseteq cut',
             \A x \in typing' : x[3] \in rooms[x[1]] => x[3] \in rooms'[x[1]],
             \A x \in typing', s \in Socket : Times(s, x) => x[2] \in cut' \/ Times(s, x)'
      PROVE  IndicatorsTimed'
  BY <1>2 DEF IndicatorsTimed
<1>3. CASE UNCHANGED <<identity, socketIdentities, typingTimers, typing, cut>>
           /\ \A s \in Socket : rooms[s] \subseteq rooms'[s]
  BY <1>1, <1>2, <1>3
<1>4. ASSUME NEW s \in Socket, Connect(s) PROVE IndicatorsTimed'
  BY <1>3, <1>4 DEF Connect, maps, history
<1>5. ASSUME NEW s \in Socket, Disconnect(s) PROVE IndicatorsTimed'
  <2>1. /\ rooms' = [rooms EXCEPT ![s] = {}] /\ typing' = {x \in typing : x[1] # s}
        /\ cut' = cut \cup {u \in User : u = identity[s] /\ isTyping(s)}
        /\ UNCHANGED <<identity, typingTimers>> /\ forget(s)
    BY <1>5 DEF Disconnect
  <2>2. DOMAIN socketIdentities' = DOMAIN socketIdentities \ {s}
    BY <2>1, ForgetRemoves, Zenon
  <2>3. \A x \in typing' : x[1] \in Socket \ {s} /\ x[2] \in User /\ x[3] \in Room
    BY <1>1, <2>1
  <2>4. \A x \in typing' : rooms'[x[1]] = rooms[x[1]]
    BY <1>1, <2>1, <2>3
  <2>5. ASSUME NEW x \in typing', NEW t \in Socket, Times(t, x)
        PROVE  x[2] \in cut' \/ Times(t, x)'
    <3>1. CASE t = s
      <4>1. isTyping(s)
        BY <2>3, <2>5, <3>1 DEF isTyping
      <4> QED BY <2>1, <2>3, <2>5, <3>1, <4>1
    <3>2. CASE t # s
      BY <2>1, <2>2, <2>5, <3>2
    <3> QED BY <3>1, <3>2
  <2> QED BY <1>2, <2>1, <2>4, <2>5
<1>6. ASSUME NEW s \in Socket, NEW u \in User \cup {NoUser}, HandleAuth(s, u)
      PROVE  IndicatorsTimed'
  BY <1>3, <1>6 DEF HandleAuth, maps, history
<1>7. ASSUME NEW s \in Socket, NEW u \in User \cup {NoUser}, FinishAuth(s, u)
      PROVE  IndicatorsTimed'
  <2>1. CASE UNCHANGED <<identity, socketIdentities, cut>>
    BY <1>3, <1>7, <2>1 DEF FinishAuth
  <2>2. CASE /\ u \in User
             /\ identity' = [identity EXCEPT ![s] = u] /\ track(s, u)
             /\ cut' = cut \cup {v \in User \ {u} : v = identity[s] /\ isTyping(s)}
    <3>1. UNCHANGED <<rooms, typingTimers, typing>>
      BY <1>7 DEF FinishAuth
    <3>2. DOMAIN socketIdentities' = DOMAIN socketIdentities \cup {s}
      BY <2>2, TrackAdds, Zenon
    <3>3. ASSUME NEW x \in typing', NEW t \in Socket, Times(t, x)
          PROVE  x[2] \in cut' \/ Times(t, x)'
      <4>1. CASE t = s /\ identity[s] # u
        <5>1. isTyping(s) /\ x[2] \in User
          BY <1>1, <3>1, <3>3, <4>1 DEF isTyping
        <5> QED BY <2>2, <3>3, <4>1, <5>1
      <4>2. CASE t # s \/ identity[s] = u
        <5>1. identity'[t] = identity[t]
          BY <1>1, <2>2, <4>2
        <5> QED BY <3>1, <3>2, <3>3, <5>1
      <4> QED BY <4>1, <4>2
    <3> QED BY <1>2, <2>2, <3>1, <3>3
  <2> QED BY <1>7, <2>1, <2>2 DEF FinishAuth, maps, history
<1>8. ASSUME NEW s \in Socket, NEW r \in Room, HandleSubscribe(s, r) PROVE IndicatorsTimed'
  BY <1>1, <1>3, <1>8 DEF HandleSubscribe, maps, history
<1>9. ASSUME NEW s \in Socket, NEW r \in Room, HandleUnsubscribe(s, r) PROVE IndicatorsTimed'
  <2>1. /\ rooms' = [rooms EXCEPT ![s] = @ \ {r}]
        /\ typing' = {x \in typing : x[1] # s \/ x[3] # r}
        /\ UNCHANGED <<identity, socketIdentities, typingTimers, cut>>
    BY <1>9 DEF HandleUnsubscribe, maps, history
  <2>2. \A x \in typing' : x[3] \in rooms[x[1]] => x[3] \in rooms'[x[1]]
    BY <1>1, <2>1
  <2> QED BY <1>2, <2>1, <2>2
<1>10. ASSUME NEW s \in Socket, NEW r \in Room, HandleTyping(s, r) PROVE IndicatorsTimed'
  <2>1. /\ typing' = typing \cup (to(s, r) \X {identity[s]} \X {r})
        /\ typingTimers' = [typingTimers EXCEPT ![<<s, r>>] = @ + 1]
        /\ UNCHANGED <<identity, socketIdentities, rooms, cut>>
        /\ s \in DOMAIN socketIdentities
    BY <1>10 DEF HandleTyping, maps, history, EventsInv, KnownWhileConnected
  <2>2. typingTimers'[<<s, r>>] > 0
        /\ \A t \in Socket, q \in Room : typingTimers[<<t, q>>] > 0 => typingTimers'[<<t, q>>] > 0
    BY <1>1, <2>1
  <2>3. ASSUME NEW x \in typing
        PROVE  x[3] \in rooms'[x[1]] /\ (x[2] \in cut' \/ \E t \in Socket : Times(t, x)')
    BY <1>1, <2>1, <2>2 DEF IndicatorsTimed
  <2>4. ASSUME NEW x \in to(s, r) \X {identity[s]} \X {r}
        PROVE  x[3] \in rooms'[x[1]] /\ Times(s, x)'
    BY <2>1, <2>2 DEF to
  <2> QED BY <2>1, <2>3, <2>4 DEF IndicatorsTimed
<1>11. ASSUME NEW s \in Socket, NEW r \in Room, TypingTimeout(s, r) PROVE IndicatorsTimed'
  <2>1. /\ typingTimers' = [typingTimers EXCEPT ![<<s, r>>] = @ - 1]
        /\ typing' = IF s \in DOMAIN socketIdentities
                     THEN typing \ (to(s, r) \X {identity[s]} \X {r}) ELSE typing
        /\ UNCHANGED <<identity, socketIdentities, rooms, cut>>
    BY <1>11 DEF TypingTimeout, maps, history
  <2>2. ASSUME NEW x \in typing', NEW t \in Socket, Times(t, x) PROVE Times(t, x)'
    <3>1. x \in typing /\ x[1] \in Socket /\ x[3] \in Room /\ x = <<x[1], x[2], x[3]>>
      BY <1>1, <2>1
    <3>2. x[3] \in rooms[x[1]]
      BY <3>1 DEF IndicatorsTimed
    <3>3. <<t, x[3]>> # <<s, r>>
      BY <2>1, <2>2, <3>1, <3>2 DEF to
    <3>4. typingTimers'[<<t, x[3]>>] = typingTimers[<<t, x[3]>>]
      BY <1>1, <2>1, <3>1, <3>3
    <3> QED BY <2>1, <2>2, <3>4
  <2> QED BY <1>2, <2>1, <2>2
<1>12. CASE UNCHANGED vars
  BY <1>1, <1>3, <1>12 DEF vars, maps, history
<1> QED BY <1>4, <1>5, <1>6, <1>7, <1>8, <1>9, <1>10, <1>11, <1>12 DEF Next

\* A typing indicator shows to sockets in its room only, and while it does a timer of
\* handleTyping (events.gateway.ts:187) that will send typing:stop to them is running,
\* unless the one who typed went or became someone else: all that TypingEnds asks
\* beyond this is that timers fire.
THEOREM IndicatorsAlwaysTimed == Spec => []IndicatorsTimed
<1>1. Init => IndicatorsTimed
  BY DEF Init, IndicatorsTimed
<1> QED BY <1>1, IndicatorsKept, EventsInvariant, TypeCorrect, PTL DEF Spec
=============================================================================
