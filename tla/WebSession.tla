------------------------------- MODULE WebSession -------------------------------
(***************************************************************************)
(* The session of the web client in one tab: the state of AuthProvider,    *)
(* the token of the API client, what localStorage keeps over a page load,  *)
(* and the sockets of SocketClient, which keep the token they were made    *)
(* with.  Tokens are simulated in the code; here a token is its user.      *)
(***************************************************************************)
EXTENDS Naturals, FiniteSets, Maps

CONSTANTS
  WebUser,    \* the people who sign in, by email
  Nobody,     \* null in place of one
  MaxSocket   \* sockets made between two page loads (a bound)

ASSUME WebSessionAssumption == MaxSocket \in Nat \ {0} /\ Nobody \notin WebUser

VARIABLES
  session,    \* AuthState: the user, isLoading; and the user a sign-in waits for
  page,       \* the page shown: /, /login, /register or one of the app's
  apiToken,   \* apiClient.accessToken
  stored,     \* localStorage kalen_auth
  sockets,    \* the sockets made since the page was loaded: number -> user and state
  current,    \* socketClient.socket, 0 if null
  signedOver, \* history: somebody signed in without a logout before
  unstored    \* history: the last sign-in could not be stored

webVars == <<session, page, apiToken, stored, sockets, current, signedOver, unstored>>

Page == {"home", "login", "register", "app"}

AuthState == [user : WebUser \cup {Nobody}, isLoading : BOOLEAN,
              waiting : WebUser \cup {Nobody}]

WebTypeOK ==
  /\ session \in AuthState
  /\ apiToken \in WebUser \cup {Nobody} /\ stored \in WebUser \cup {Nobody}
  /\ page \in Page /\ signedOver \in BOOLEAN /\ unstored \in BOOLEAN
  /\ DOMAIN sockets \subseteq 1..MaxSocket /\ current \in {0} \cup DOMAIN sockets
  /\ \A i \in DOMAIN sockets :
        sockets[i] \in [user : WebUser, at : {"connecting", "connected", "closed"}]

signedOut == [user |-> Nobody, isLoading |-> FALSE, waiting |-> Nobody]

WebInit ==
  /\ session = signedOut /\ page = "home"
  /\ apiToken = Nobody /\ stored = Nobody
  /\ sockets = emptyMap /\ current = 0 /\ signedOver = FALSE /\ unstored = FALSE
-----------------------------------------------------------------------------
nextSocket == 1 + Cardinality(DOMAIN sockets)

\* connect() makes a socket unless its own is connected; a socket that is still
\* connecting, or reconnecting, is let go of and not closed.
connect(u) ==
  IF current # 0 /\ sockets[current].at = "connected"
  THEN UNCHANGED <<sockets, current>>
  ELSE /\ nextSocket <= MaxSocket
       /\ sockets' = put(sockets, nextSocket, [user |-> u, at |-> "connecting"])
       /\ current' = nextSocket

\* Mutant of disconnect: the socket is let go of and not closed.
disconnect_NotClosed == current' = 0 /\ UNCHANGED sockets

disconnect ==
  /\ sockets' = IF current = 0 THEN sockets ELSE [sockets EXCEPT ![current].at = "closed"]
  /\ current' = 0

setAccessToken(u) == apiToken' = u

\* A page load starts from what is stored.
loadStoredAuth == [signedOut EXCEPT !.user = stored]

\* The effect of AuthProvider restores the API client and the socket before the page
\* hears of a click.
LoadPage(p) ==
  /\ session' = loadStoredAuth
  /\ setAccessToken(stored)
  /\ IF stored = Nobody
     THEN sockets' = emptyMap /\ current' = 0
     ELSE sockets' = put(emptyMap, 1, [user |-> stored, at |-> "connecting"]) /\ current' = 1
  /\ page' = p
  /\ signedOver' = FALSE /\ unstored' = FALSE
  /\ UNCHANGED stored

Navigate(p) ==
  /\ p # page
  /\ page' = p
  /\ UNCHANGED <<session, apiToken, stored, sockets, current, signedOver, unstored>>

\* While isLoading holds AppShell shows no page: no other sign-in and no logout can
\* be clicked.
shows(p) == page = p /\ ~session.isLoading

\* The sidebar, with the logout button, is there on the app's pages for a user.
showsSidebar == shows("app") /\ session.user # Nobody

begins(u) ==
  /\ session' = [session EXCEPT !.isLoading = TRUE, !.waiting = u]
  /\ UNCHANGED <<page, apiToken, stored, sockets, current, signedOver, unstored>>

\* AuthProvider's functions, whether or not somebody is signed in.
login(u) == shows("login") /\ begins(u)

register(u) == shows("register") /\ begins(u)

\* The forms hand on an email that is not blank; Nobody stands for a blank one.
submitLogin(email) == email # Nobody /\ login(email)

submitRegister(email) == email # Nobody /\ register(email)

FinishSignIn ==
  /\ session.isLoading
  /\ LET u == session.waiting IN
       /\ session' = [signedOut EXCEPT !.user = u]
       /\ setAccessToken(u) /\ stored' = u
       /\ connect(u)
  /\ page' = "app"
  /\ signedOver' = (signedOver \/ session.user # Nobody) /\ unstored' = FALSE

\* localStorage.setItem throws (no room): the user is signed in all the same, without a
\* new socket, on the page of the form, and the error goes to a form that was unmounted.
SignInUnstored ==
  /\ session.isLoading
  /\ LET u == session.waiting IN
       /\ session' = [signedOut EXCEPT !.user = u]
       /\ setAccessToken(u)
  /\ signedOver' = (signedOver \/ session.user # Nobody) /\ unstored' = TRUE
  /\ UNCHANGED <<page, stored, sockets, current>>

\* The error is thrown to a form that has been unmounted; whoever was signed in is.
SignInFails ==
  /\ session.isLoading
  /\ session' = [session EXCEPT !.isLoading = FALSE, !.waiting = Nobody]
  /\ UNCHANGED <<page, apiToken, stored, sockets, current, signedOver, unstored>>

logout ==
  /\ showsSidebar
  /\ disconnect
  /\ setAccessToken(Nobody) /\ stored' = Nobody
  /\ session' = signedOut
  /\ unstored' = FALSE
  /\ UNCHANGED <<page, signedOver>>

\* socket.io: a connection is made, lost and made again until ten attempts have
\* failed, or the server closes it for good.
SocketMoves(i, at) ==
  /\ sockets[i].at # "closed" /\ sockets[i].at # at
  /\ sockets' = [sockets EXCEPT ![i].at = at]
  /\ UNCHANGED <<session, page, apiToken, stored, current, signedOver, unstored>>

WebNext ==
  \/ \E p \in Page : LoadPage(p) \/ Navigate(p)
  \/ \E u \in WebUser \cup {Nobody} : submitLogin(u) \/ submitRegister(u)
  \/ FinishSignIn \/ SignInUnstored \/ SignInFails \/ logout
  \/ \E i \in DOMAIN sockets, at \in {"connecting", "connected", "closed"} : SocketMoves(i, at)

WebSpec == WebInit /\ [][WebNext]_webVars
-----------------------------------------------------------------------------
open == {i \in DOMAIN sockets : sockets[i].at # "closed"}

\* The API client holds the session's user at all times, and so does localStorage,
\* so that a page load brings back what was last seen, unless the last sign-in could
\* not be stored: then a page load signs out, or back in whoever was signed in over.
\* And unless somebody signed in over a session that was not logged out, the only
\* socket that is open is the client's own, made for the session's user, so that none
\* outlives a logout.  (After such a sign-in the socket may keep the first user's
\* token, or be left open for good.)
SocketFollowsSession ==
  /\ apiToken = session.user
  /\ ~unstored => stored = session.user
  /\ ~signedOver => /\ unstored => stored = Nobody
                    /\ open \subseteq {current} \ {0}
                    /\ \A i \in open : sockets[i].user = session.user
=============================================================================
