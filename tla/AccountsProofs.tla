---------------------------- MODULE AccountsProofs ----------------------------
(* What holds of the ceremonies, for any users, ceremonies and finish calls,  *)
(* and of the identities and tokens, for any people, agents and names.        *)
EXTENDS Accounts, Identities, TLAPS

RegisterCall == [at : {"verifying", "writing"}, key : Registration, email : Email]

LoginCall == [at : {"verifying", "writing"}, key : Login, user : Registration,
              stored : Nat, counter : Nat]

\* Nothing is left of a ceremony that has not begun: why begin can give a challenge
\* without finding it spent already.
TracesOfBegun ==
  /\ \A c \in challenges : answered[c] # "not begun"
  /\ \A f \in Finish : finishes[f] # idle => answered[finishes[f].key] # "not begun"
  /\ \A c \in Ceremony : results[c] > 0 => answered[c] # "not begun"

\* A row is there because its registration has saved it.
RowsOfResults == \A u \in DOMAIN users : results[u] > 0

\* The counter a login is about to write was accepted over the one it had read.
WritesAccepted ==
  \A f \in Finish : finishes[f].at = "writing" /\ finishes[f].key \in Login
    => counterAccepted(finishes[f].stored, finishes[f].counter)

AccountsInv ==
  AccountsTypeOK /\ TracesOfBegun /\ RowsOfResults /\ WritesAccepted /\ SpentBeforeWritten

LEMMA AccountsInitInv == AccountsInit => AccountsInv
<1> SUFFICES ASSUME AccountsInit PROVE AccountsInv
  OBVIOUS
<1>1. AccountsTypeOK
  BY DEF AccountsInit, AccountsTypeOK, emptyMap, FinishCall, Ceremony, UserRow
<1>2. /\ challenges = {} /\ DOMAIN users = {}
      /\ \A f \in Finish : finishes[f] = idle
      /\ \A c \in Ceremony : results[c] = 0
  BY DEF AccountsInit, emptyMap
<1>3. TracesOfBegun
  <2>1. \A c \in Ceremony : ~(results[c] > 0)
    BY <1>2
  <2> QED BY <1>2, <2>1, Zenon DEF TracesOfBegun
<1>4. RowsOfResults /\ WritesAccepted
  BY <1>2 DEF RowsOfResults, WritesAccepted, idle
<1>5. SpentBeforeWritten
  BY <1>2 DEF SpentBeforeWritten
<1> QED BY <1>1, <1>3, <1>4, <1>5 DEF AccountsInv

\* A finish call is idle, of a registration or of a login, and its key says which.
LEMMA CallKinds ==
  ASSUME AccountsTypeOK, NEW f \in Finish
  PROVE  \/ finishes[f] = idle
         \/ finishes[f] \in RegisterCall /\ finishes[f].key \notin Login
         \/ finishes[f] \in LoginCall /\ finishes[f].key \notin Registration
BY AccountsAssumption DEF AccountsTypeOK, FinishCall, RegisterCall, LoginCall

\* A step that begins a ceremony, and leaves tables and calls alone.
LEMMA BeginKeeps ==
  ASSUME AccountsInv, NEW c \in Ceremony, begin(c),
         UNCHANGED <<users, authenticator, assertions, finishes, results>>,
         DOMAIN offered' \subseteq Login, offered' \in [DOMAIN offered' -> Registration]
  PROVE  AccountsInv'
<1> USE DEF AccountsInv
<1>1. /\ answered[c] = "not begun"
      /\ answered' \in [Ceremony -> {"not begun", "options", "error"}]
      /\ answered'[c] # "not begun" /\ \A d \in Ceremony \ {c} : answered'[d] = answered[d]
      /\ challenges' \subseteq challenges \cup {c}
  BY DEF begin, AccountsTypeOK, setChallenge
<1>2. AccountsTypeOK'
  BY <1>1 DEF AccountsTypeOK
<1>3. TracesOfBegun'
  <2>1. \A f \in Finish : finishes[f] # idle => finishes[f].key \in Ceremony
    BY CallKinds DEF RegisterCall, LoginCall, Ceremony
  <2> QED BY <1>1, <2>1 DEF TracesOfBegun, AccountsTypeOK
<1>4. RowsOfResults' /\ WritesAccepted'
  BY DEF RowsOfResults, WritesAccepted
<1>5. SpentBeforeWritten'
  <2>1. ~(results[c] > 0)
    BY <1>1 DEF TracesOfBegun
  <2>2. \A f \in Finish : finishes[f] # idle => finishes[f].key # c
    BY <1>1 DEF TracesOfBegun
  <2>3. \A f \in Finish : finishes[f].at = "writing" => finishes[f] # idle
    BY DEF idle
  <2>4. finishes' = finishes /\ results' = results
    OBVIOUS
  <2> QED BY <1>1, <2>1, <2>2, <2>3, <2>4 DEF SpentBeforeWritten
<1> QED BY <1>2, <1>3, <1>4, <1>5

\* A step that only starts a finish call: it has not verified anything yet.
LEMMA StartKeeps ==
  ASSUME AccountsInv, NEW f \in Finish, NEW call \in RegisterCall \cup LoginCall,
         call.at = "verifying", starts(f, call)
  PROVE  AccountsInv'
<1> USE DEF AccountsInv
<1>1. /\ finishes' = [finishes EXCEPT ![f] = call] /\ call.key \in challenges
      /\ UNCHANGED <<challenges, answered, offered, users, authenticator, assertions, results>>
  BY DEF starts, getChallenge
<1>2. finishes' \in [Finish -> FinishCall] /\ finishes'[f] = call
      /\ \A g \in Finish \ {f} : finishes'[g] = finishes[g]
  BY <1>1 DEF AccountsTypeOK, FinishCall, RegisterCall, LoginCall
<1>3. AccountsTypeOK'
  BY <1>1, <1>2 DEF AccountsTypeOK
<1>4. TracesOfBegun'
  BY <1>1, <1>2 DEF TracesOfBegun
<1>5. RowsOfResults' /\ WritesAccepted' /\ SpentBeforeWritten'
  BY <1>1, <1>2 DEF RowsOfResults, WritesAccepted, SpentBeforeWritten
<1> QED BY <1>3, <1>4, <1>5

\* A step that deletes a challenge and lets the call that verified it write.
LEMMA VerifyKeeps ==
  ASSUME AccountsInv, NEW f \in Finish,
         verifyRegistrationResponse(f) \/ verifyAuthenticationResponse(f)
  PROVE  AccountsInv'
<1> USE DEF AccountsInv
<1>1. /\ finishes[f].at = "verifying"
      /\ finishes' = [finishes EXCEPT ![f].at = "writing"]
      /\ challenges' = challenges \ {finishes[f].key}
      /\ UNCHANGED <<answered, offered, users, authenticator, assertions, results>>
  BY DEF verifyRegistrationResponse, verifyAuthenticationResponse, deleteChallenge
<1>2. finishes[f] # idle
  BY <1>1 DEF idle
<1>3. finishes[f] \in RegisterCall \/ finishes[f] \in LoginCall
  BY <1>2, CallKinds
<1>4. /\ finishes'[f].at = "writing" /\ finishes'[f].key = finishes[f].key
      /\ finishes'[f] \in FinishCall
      /\ finishes[f] \in LoginCall => finishes'[f].stored = finishes[f].stored
                                      /\ finishes'[f].counter = finishes[f].counter
      /\ \A g \in Finish \ {f} : finishes'[g] = finishes[g]
      /\ finishes' \in [Finish -> FinishCall]
  BY <1>1, <1>3 DEF AccountsTypeOK, FinishCall, RegisterCall, LoginCall
<1>5. AccountsTypeOK'
  BY <1>1, <1>4 DEF AccountsTypeOK
<1>6. TracesOfBegun' /\ RowsOfResults' /\ SpentBeforeWritten'
  BY <1>1, <1>2, <1>4 DEF TracesOfBegun, RowsOfResults, SpentBeforeWritten
<1>7. WritesAccepted'
  <2>1. finishes[f].key \in Login => finishes[f] \in LoginCall
    BY <1>2, CallKinds
  <2>2. finishes[f].key \in Login => counterAccepted(finishes[f].stored, finishes[f].counter)
    BY AccountsAssumption DEF verifyRegistrationResponse, verifyAuthenticationResponse, verifies
  <2> QED BY <1>4, <2>1, <2>2 DEF WritesAccepted
<1> QED BY <1>5, <1>6, <1>7

\* A step that ends a finish call and leaves the rest to the table.
LEMMA EndKeeps ==
  ASSUME AccountsInv, NEW f \in Finish, NEW counted \in BOOLEAN,
         finishes[f].at = "writing", ends(f, counted),
         DOMAIN users' \subseteq Registration, users' \in [DOMAIN users' -> UserRow],
         \A u \in DOMAIN users' \ DOMAIN users : counted /\ u = finishes[f].key
  PROVE  AccountsInv'
<1> USE DEF AccountsInv
<1>1. /\ finishes' = [finishes EXCEPT ![f] = idle]
      /\ results' = IF counted THEN [results EXCEPT ![finishes[f].key] = @ + 1] ELSE results
      /\ UNCHANGED <<challenges, answered, offered, authenticator, assertions>>
  BY DEF ends
<1>2. finishes[f] # idle /\ finishes[f].key \in Ceremony
  BY CallKinds DEF idle, RegisterCall, LoginCall, Ceremony
<1>3. /\ finishes' \in [Finish -> FinishCall] /\ finishes'[f] = idle
      /\ \A g \in Finish \ {f} : finishes'[g] = finishes[g]
  BY <1>1 DEF AccountsTypeOK, FinishCall
<1>4. /\ results' \in [Ceremony -> Nat]
      /\ \A c \in Ceremony : results[c] > 0 => results'[c] > 0
      /\ \A c \in Ceremony : results'[c] > 0 => results[c] > 0 \/ c = finishes[f].key
      /\ counted => results'[finishes[f].key] > 0
  <2>1. results \in [Ceremony -> Nat]
    BY DEF AccountsTypeOK
  <2>2. CASE counted
    <3>1. results' = [results EXCEPT ![finishes[f].key] = @ + 1]
      BY <1>1, <2>2
    <3>2. /\ results'[finishes[f].key] = results[finishes[f].key] + 1
          /\ \A c \in Ceremony \ {finishes[f].key} : results'[c] = results[c]
          /\ results' \in [Ceremony -> Nat]
      BY <1>2, <2>1, <3>1
    <3> QED BY <1>2, <2>1, <3>2
  <2>3. CASE ~counted
    BY <1>1, <2>1, <2>3
  <2> QED BY <2>2, <2>3
<1>5. AccountsTypeOK'
  BY <1>1, <1>3, <1>4 DEF AccountsTypeOK
<1>6. TracesOfBegun'
  BY <1>1, <1>2, <1>3, <1>4 DEF TracesOfBegun
<1>7. RowsOfResults'
  BY <1>4 DEF RowsOfResults, AccountsTypeOK, Ceremony
<1>8. WritesAccepted'
  BY <1>3 DEF WritesAccepted, idle
<1>9. SpentBeforeWritten'
  BY <1>1, <1>3, <1>4 DEF SpentBeforeWritten, idle
<1> QED BY <1>5, <1>6, <1>7, <1>8, <1>9

LEMMA CreateUserKeeps ==
  ASSUME AccountsInv, NEW f \in Finish, CreateUser(f)
  PROVE  AccountsInv'
<1> DEFINE r == finishes[f].key
           ok == savable(r, finishes[f].email)
<1>1. /\ r \in Registration /\ finishes[f].at = "writing" /\ ends(f, ok) /\ ok \in BOOLEAN
      /\ users' = IF ok THEN createUserRow(r, finishes[f].email) ELSE users
  BY DEF CreateUser, savable
<1>2. finishes[f] \in RegisterCall /\ finishes[f].email \in Email
  BY <1>1, CallKinds DEF AccountsInv, RegisterCall, idle
<1>3. /\ DOMAIN users' \subseteq Registration /\ users' \in [DOMAIN users' -> UserRow]
      /\ \A u \in DOMAIN users' \ DOMAIN users : ok /\ u = r
  BY <1>1, <1>2 DEF createUserRow, put, AccountsInv, AccountsTypeOK, UserRow
<1> QED BY <1>1, <1>3, EndKeeps

LEMMA UpdateUserKeeps ==
  ASSUME AccountsInv, NEW f \in Finish, UpdateUser(f)
  PROVE  AccountsInv'
<1>1. /\ finishes[f].at = "writing" /\ finishes[f].key \in Login /\ ends(f, TRUE)
      /\ users' = updateUserRow(finishes[f].user, finishes[f].counter)
  BY DEF UpdateUser
<1>2. finishes[f] \in LoginCall
  BY <1>1, CallKinds DEF AccountsInv, idle
<1>3. DOMAIN users' = DOMAIN users /\ users' \in [DOMAIN users' -> UserRow]
  BY <1>1, <1>2 DEF updateUserRow, AccountsInv, AccountsTypeOK, UserRow, LoginCall
<1> QED BY <1>1, <1>3, EndKeeps DEF AccountsInv, AccountsTypeOK

\* The other steps: signing, failing verifications, expiry and restarts.
LEMMA OthersKeep ==
  ASSUME AccountsInv,
         \/ \E l \in Login : Sign(l)
         \/ \E f \in Finish : VerificationFails(f)
         \/ \E c \in Ceremony : Expire(c)
         \/ Restart
  PROVE  AccountsInv'
<1> USE DEF AccountsInv
<1>1. CASE \E l \in Login : Sign(l)
  <2> PICK l \in Login : Sign(l)
    BY <1>1
  <2>1. /\ UNCHANGED <<challenges, answered, offered, users, finishes, results>>
        /\ l \in DOMAIN offered
        /\ authenticator' = [authenticator EXCEPT ![offered[l]] = @ + 1]
        /\ assertions' = assertions \cup {[login |-> l, user |-> offered[l],
                                           counter |-> authenticator[offered[l]] + 1]}
    BY DEF Sign
  <2>2. AccountsTypeOK'
    <3>1. offered[l] \in Registration /\ authenticator \in [Registration -> Nat]
      BY <2>1 DEF AccountsTypeOK
    <3>2. authenticator' \in [Registration -> Nat]
      BY <2>1, <3>1
    <3>3. [login |-> l, user |-> offered[l], counter |-> authenticator[offered[l]] + 1]
             \in Assertion
      BY <3>1 DEF Assertion
    <3> QED BY <2>1, <3>2, <3>3 DEF AccountsTypeOK
  <2> QED BY <2>1, <2>2 DEF TracesOfBegun, RowsOfResults, WritesAccepted, SpentBeforeWritten
<1>2. CASE \/ \E f \in Finish : VerificationFails(f)
           \/ \E c \in Ceremony : Expire(c)
           \/ Restart
  <2>1. /\ UNCHANGED <<answered, offered, users, authenticator, assertions, results>>
        /\ challenges' \subseteq challenges /\ finishes' \in [Finish -> FinishCall]
        /\ \A g \in Finish : finishes'[g] = finishes[g] \/ finishes'[g] = idle
    BY <1>2 DEF VerificationFails, Expire, Restart, AccountsTypeOK, FinishCall
  <2>2. AccountsTypeOK'
    BY <2>1 DEF AccountsTypeOK
  <2>3. TracesOfBegun'
    BY <2>1 DEF TracesOfBegun
  <2>4. RowsOfResults' /\ WritesAccepted'
    BY <2>1 DEF RowsOfResults, WritesAccepted, idle
  <2>5. \A f \in Finish : finishes'[f].at = "writing" => finishes'[f] = finishes[f]
    BY <2>1 DEF idle
  <2>6. SpentBeforeWritten'
    BY <2>1, <2>5 DEF SpentBeforeWritten
  <2> QED BY <2>2, <2>3, <2>4, <2>6
<1> QED BY <1>1, <1>2

LEMMA AccountsNextKeeps == AccountsInv /\ [AccountsNext]_accountsVars => AccountsInv'
<1> SUFFICES ASSUME AccountsInv, [AccountsNext]_accountsVars
             PROVE  AccountsInv'
  OBVIOUS
<1>1. CASE UNCHANGED accountsVars
  BY <1>1 DEF accountsVars, AccountsInv, AccountsTypeOK, TracesOfBegun, RowsOfResults,
              WritesAccepted, SpentBeforeWritten
<1>2. ASSUME NEW r \in Registration, NEW e \in Email, RegisterBegin(r, e)
      PROVE  AccountsInv'
  <2>1. /\ begin(r) /\ r \in Ceremony
        /\ UNCHANGED <<offered, users, authenticator, assertions, finishes, results>>
    BY <1>2 DEF RegisterBegin, generateRegistrationOptions, Ceremony
  <2> QED BY <2>1, BeginKeeps DEF AccountsInv, AccountsTypeOK
<1>3. ASSUME NEW l \in Login, NEW e \in Email, LoginBegin(l, e)
      PROVE  AccountsInv'
  <2> PICK u \in findByEmail(e) : generateAuthenticationOptions(l, u)
    BY <1>3 DEF LoginBegin
  <2>1. /\ begin(l) /\ l \in Ceremony /\ u \in Registration
        /\ offered' = IF canCallStore THEN put(offered, l, u) ELSE offered
        /\ UNCHANGED <<users, authenticator, assertions, finishes, results>>
    BY <1>3 DEF LoginBegin, generateAuthenticationOptions, Ceremony, findByEmail,
                AccountsInv, AccountsTypeOK
  <2>2. DOMAIN offered' \subseteq Login /\ offered' \in [DOMAIN offered' -> Registration]
    BY <2>1 DEF put, AccountsInv, AccountsTypeOK
  <2> QED BY <2>1, <2>2, BeginKeeps
<1>4. ASSUME NEW f \in Finish, NEW r \in Registration, NEW e \in Email, RegisterFinish(f, r, e)
      PROVE  AccountsInv'
  <2> DEFINE call == [at |-> "verifying", key |-> r, email |-> e]
  <2>1. starts(f, call) /\ call \in RegisterCall /\ call.at = "verifying"
    BY <1>4 DEF RegisterFinish, RegisterCall
  <2> QED BY <2>1, StartKeeps
<1>5. ASSUME NEW f \in Finish, NEW a \in assertions, LoginFinish(f, a)
      PROVE  AccountsInv'
  <2> DEFINE call == [at |-> "verifying", key |-> a.login, user |-> a.user,
                      stored |-> users[a.user].counter, counter |-> a.counter]
  <2>1. a \in Assertion /\ users[a.user].counter \in Nat
    BY <1>5 DEF LoginFinish, AccountsInv, AccountsTypeOK, UserRow
  <2>2. starts(f, call) /\ call \in LoginCall /\ call.at = "verifying"
    BY <1>5, <2>1 DEF LoginFinish, LoginCall, Assertion
  <2> QED BY <2>2, StartKeeps
<1> QED BY <1>1, <1>2, <1>3, <1>4, <1>5, VerifyKeeps, CreateUserKeeps, UpdateUserKeeps, OthersKeep
        DEF AccountsNext

\* For any numbers of ceremonies and finish calls: the state stays well typed.
THEOREM AccountsTypeCorrect == AccountsSpec => []AccountsTypeOK
<1>1. AccountsInv => AccountsTypeOK
  BY DEF AccountsInv
<1> QED BY <1>1, AccountsInitInv, AccountsNextKeeps, PTL DEF AccountsSpec

\* A challenge is out of the store before anything it proves is written, whatever
\* finishes overlap and whenever the server restarts.
THEOREM AlwaysSpentBeforeWritten == AccountsSpec => []SpentBeforeWritten
<1>1. AccountsInv => SpentBeforeWritten
  BY DEF AccountsInv
<1> QED BY <1>1, AccountsInitInv, AccountsNextKeeps, PTL DEF AccountsSpec

\* The step of CounterFallsStale, for the proof.
CounterFallsStaleStep ==
  \A u \in DOMAIN users :
    users'[u].counter < users[u].counter =>
      \E f \in Finish :
         /\ finishes[f].at = "writing"
         /\ \/ finishes[f].key \in Login /\ finishes[f].stored # users[u].counter
            \/ finishes[f].key = u /\ results[u] > 0

LEMMA StepFallsStale ==
  ASSUME AccountsInv, AccountsNext
  PROVE  CounterFallsStaleStep \/ UNCHANGED users
<1> USE DEF AccountsInv
<1>1. ASSUME NEW f \in Finish, CreateUser(f)
      PROVE  CounterFallsStaleStep
  <2> SUFFICES ASSUME NEW u \in DOMAIN users, users'[u].counter < users[u].counter
               PROVE  finishes[f].at = "writing" /\ finishes[f].key = u /\ results[u] > 0
    BY DEF CounterFallsStaleStep
  <2>1. users[u].counter \in Nat
    BY DEF AccountsTypeOK, UserRow
  <2>2. u # finishes[f].key => users'[u] = users[u]
    BY <1>1 DEF CreateUser, createUserRow, put
  <2> QED BY <1>1, <2>1, <2>2 DEF CreateUser, RowsOfResults
<1>2. ASSUME NEW f \in Finish, UpdateUser(f)
      PROVE  CounterFallsStaleStep
  <2> SUFFICES ASSUME NEW u \in DOMAIN users, users'[u].counter < users[u].counter
               PROVE  /\ finishes[f].at = "writing" /\ finishes[f].key \in Login
                      /\ finishes[f].stored # users[u].counter
    BY DEF CounterFallsStaleStep
  <2>1. /\ finishes[f].at = "writing" /\ finishes[f].key \in Login
        /\ users' = [users EXCEPT ![finishes[f].user].counter = finishes[f].counter]
    BY <1>2 DEF UpdateUser, updateUserRow
  <2>2. finishes[f] \in LoginCall
    BY <2>1, CallKinds DEF idle
  <2>3. users[u] \in UserRow /\ users[u].counter \in Nat
    BY DEF AccountsTypeOK, UserRow
  <2>4. users'[u].counter = IF u = finishes[f].user THEN finishes[f].counter
                            ELSE users[u].counter
    BY <2>1, <2>3 DEF AccountsTypeOK, UserRow
  <2>5. finishes[f].counter < users[u].counter
    BY <2>3, <2>4
  <2>6. counterAccepted(finishes[f].stored, finishes[f].counter)
    BY <2>1 DEF WritesAccepted
  <2>7. finishes[f].stored \in Nat /\ finishes[f].counter \in Nat
    BY <2>2 DEF LoginCall
  <2> QED BY <2>1, <2>3, <2>5, <2>6, <2>7 DEF counterAccepted
<1>3. CASE \A f \in Finish : ~CreateUser(f) /\ ~UpdateUser(f)
  BY <1>3 DEF AccountsNext, RegisterBegin, LoginBegin, Sign, RegisterFinish, LoginFinish, starts,
              verifyRegistrationResponse, verifyAuthenticationResponse, VerificationFails,
              Expire, Restart
<1> QED BY <1>1, <1>2, <1>3

\* A stored counter goes down only by a login that had read another value, or by a
\* second finish of the registration that made the row.
THEOREM CountersFallStale == AccountsSpec => CounterFallsStale
<1>1. AccountsInv /\ [AccountsNext]_accountsVars => [CounterFallsStaleStep]_accountsVars
  <2> SUFFICES ASSUME AccountsInv, AccountsNext
               PROVE  CounterFallsStaleStep
    BY DEF AccountsInv
  <2>1. CASE UNCHANGED users
    <3>1. \A u \in DOMAIN users : users[u].counter \in Nat
      BY DEF AccountsInv, AccountsTypeOK, UserRow
    <3>2. \A u \in DOMAIN users : ~(users'[u].counter < users[u].counter)
      BY <2>1, <3>1
    <3> QED BY <3>2 DEF CounterFallsStaleStep
  <2> QED BY <2>1, StepFallsStale
<1> QED BY <1>1, AccountsInitInv, AccountsNextKeeps, PTL DEF AccountsSpec, CounterFallsStale,
                                             CounterFallsStaleStep

-------------------------------------------------------------------------------
\* Identities and tokens.

\* What a token says goes with the table and with who has proved to be its subject.
WellIssued(t) ==
  /\ TokenPayload(t)
  /\ t.tokenType = "refresh" => t.sub \in proved
  /\ t.kind = "agent" => t.sub \in DOMAIN agents /\ t.scopes = agents[t.sub].scopes

\* A row says what createAgent put there: nothing of an agent is changed later.
AsCreated(a) ==
  /\ AgentRow(agents[a]) /\ agents[a].name.trimmed \in AgentName
  /\ agents[a].manifest = createManifest(agents[a].name, a)
  /\ agents[a].role = agentRole(agents[a].scopes)

NamesUnique == \A a, b \in DOMAIN agents : a # b => agents[a].name # agents[b].name

IdentitiesInv ==
  /\ DOMAIN agents \subseteq Agent /\ proved \subseteq Human \cup Agent
  /\ \A t \in tokens : WellIssued(t)
  /\ \A a \in DOMAIN agents : AsCreated(a)
  /\ NamesUnique

\* What the tokens issued to a human, and to an agent, say.
LEMMA HumanTokens ==
  ASSUME NEW h \in Human
  PROVE  \A t \in issueHumanTokens(h) : TokenPayload(t) /\ t.kind = "human" /\ t.sub = h
<1>1. \A type \in {"access", "refresh"} :
        LET t == createToken("human", h, {}, type) IN
          TokenPayload(t) /\ t.kind = "human" /\ t.sub = h
  BY DEF createToken, TokenPayload
<1> QED BY <1>1 DEF issueHumanTokens, issueHumanAccessToken, issueHumanRefreshToken

LEMMA AgentTokens ==
  ASSUME NEW a \in Agent, NEW scopes \in SUBSET Permission
  PROVE  /\ \A t \in issueAgentTokens(a, scopes) :
              TokenPayload(t) /\ t.kind = "agent" /\ t.sub = a /\ t.scopes = scopes
         /\ issueAgentAccessToken(a, scopes).tokenType = "access"
<1>1. \A type \in {"access", "refresh"} :
        LET t == createToken("agent", a, scopes, type) IN
          /\ TokenPayload(t) /\ t.kind = "agent" /\ t.sub = a /\ t.scopes = scopes
          /\ t.tokenType = type
  BY DEF createToken, TokenPayload
<1> QED BY <1>1 DEF issueAgentTokens, issueAgentAccessToken, issueAgentRefreshToken

\* Inferred scopes are permissions there are.
LEMMA ScopesInferred ==
  ASSUME NEW capability \in Capability
  PROVE  inferScopes(capability) \in SUBSET Permission
BY DEF inferScopes, Permission, admin, humanUser, agentBasic, everybody, roomKeeping

LEMMA HumanLoginKeeps ==
  ASSUME IdentitiesInv, NEW h \in Human, HumanLogin(h)
  PROVE  IdentitiesInv'
<1> USE DEF IdentitiesInv
<1>1. /\ tokens' = tokens \cup issueHumanTokens(h) /\ proved' = proved \cup {h}
      /\ UNCHANGED agents
  BY DEF HumanLogin
<1>2. \A t \in tokens' : WellIssued(t)'
  BY <1>1, HumanTokens DEF WellIssued
<1>3. (\A a \in DOMAIN agents : AsCreated(a))' /\ NamesUnique'
  BY <1>1 DEF AsCreated, NamesUnique
<1> QED BY <1>1, <1>2, <1>3

LEMMA AuthenticateKeeps ==
  ASSUME IdentitiesInv, NEW a \in Agent, authenticateAgent(a)
  PROVE  IdentitiesInv'
<1> USE DEF IdentitiesInv
<1>1. /\ a \in DOMAIN agents /\ UNCHANGED agents /\ proved' = proved \cup {a}
      /\ tokens' = tokens \cup issueAgentTokens(a, agents[a].scopes)
  BY DEF authenticateAgent
<1>2. agents[a].scopes \in SUBSET Permission
  BY <1>1 DEF AsCreated, AgentRow
<1>3. \A t \in tokens' : WellIssued(t)'
  BY <1>1, <1>2, AgentTokens DEF WellIssued
<1>4. (\A x \in DOMAIN agents : AsCreated(x))' /\ NamesUnique'
  BY <1>1 DEF AsCreated, NamesUnique
<1> QED BY <1>1, <1>3, <1>4

LEMMA RefreshKeeps ==
  ASSUME IdentitiesInv, NEW t \in tokens, refresh(t)
  PROVE  IdentitiesInv'
<1> USE DEF IdentitiesInv
<1>1. tokens' = tokens \cup refreshTokens(t) /\ UNCHANGED <<agents, proved>>
  BY DEF refresh
<1>2. WellIssued(t)
  OBVIOUS
<1>3. CASE t.tokenType # "refresh"
  <2>1. tokens' = tokens
    BY <1>1, <1>3 DEF refreshTokens
  <2> QED BY <1>1, <2>1 DEF AsCreated, NamesUnique, WellIssued
<1>4. CASE t.tokenType = "refresh"
  <2>1. CASE t.kind = "human"
    <3>1. refreshTokens(t) = issueHumanTokens(t.sub) /\ t.sub \in Human /\ t.sub \in proved
      BY <1>2, <1>4, <2>1 DEF refreshTokens, WellIssued, TokenPayload
    <3>2. \A x \in tokens' : WellIssued(x)'
      BY <1>1, <3>1, HumanTokens DEF WellIssued
    <3> QED BY <1>1, <3>2 DEF AsCreated, NamesUnique
  <2>2. CASE t.kind = "agent"
    <3>1. /\ refreshTokens(t) = issueAgentTokens(t.sub, t.scopes) /\ t.sub \in Agent
          /\ t.sub \in proved /\ t.scopes \in SUBSET Permission
          /\ t.sub \in DOMAIN agents /\ t.scopes = agents[t.sub].scopes
      BY <1>2, <1>4, <2>2 DEF refreshTokens, WellIssued, TokenPayload
    <3>2. \A x \in tokens' : WellIssued(x)'
      BY <1>1, <3>1, AgentTokens DEF WellIssued
    <3> QED BY <1>1, <3>2 DEF AsCreated, NamesUnique
  <2> QED BY <1>2, <2>1, <2>2 DEF WellIssued, TokenPayload
<1> QED BY <1>3, <1>4

LEMMA CreateAgentKeeps ==
  ASSUME IdentitiesInv, NEW t \in tokens, NEW a \in Agent, NEW n \in DisplayName,
         NEW k \in ClientKey, NEW c \in Capability, CreateAgent(t, a, n, k, c)
  PROVE  IdentitiesInv'
<1> USE DEF IdentitiesInv
<1> DEFINE scopes == inferScopes(c)
           new == [name |-> n, owner |-> t.sub, scopes |-> scopes, publicKey |-> k,
                   manifest |-> createManifest(n, a), role |-> agentRole(scopes),
                   status |-> "active"]
<1>1. scopes \in SUBSET Permission
  BY ScopesInferred
<1>2. /\ a \notin DOMAIN agents /\ n.trimmed \in AgentName /\ t.sub \in Human
      /\ \A b \in DOMAIN agents : agents[b].name # n
      /\ agents' = put(agents, a, new) /\ UNCHANGED proved
      /\ tokens' = tokens \cup {issueAgentAccessToken(a, scopes)}
  BY DEF CreateAgent, createAgentIdentity, createAgent, validateAgentName
<1>3. /\ new.name = n /\ new.owner = t.sub /\ new.scopes = scopes /\ new.publicKey = k
      /\ new.manifest = createManifest(n, a) /\ new.role = agentRole(scopes)
      /\ new.status = "active"
  OBVIOUS
<1> HIDE DEF new, scopes
<1>4. /\ DOMAIN agents' = DOMAIN agents \cup {a} /\ agents'[a] = new
      /\ \A b \in DOMAIN agents : agents'[b] = agents[b]
  BY <1>2 DEF put
<1>5. AsCreated(a)'
  <2>1. createManifest(n, a).name = n.trimmed
    BY DEF createManifest
  <2>2. agentRole(scopes) \in Role
    BY DEF agentRole, Role
  <2> QED BY <1>1, <1>2, <1>3, <1>4, <2>1, <2>2 DEF AsCreated, AgentRow
<1>6. \A b \in DOMAIN agents : AsCreated(b)'
  BY <1>4 DEF AsCreated
<1>7. NamesUnique'
  BY <1>2, <1>3, <1>4 DEF NamesUnique
<1>8. \A x \in tokens : WellIssued(x)'
  BY <1>2, <1>4 DEF WellIssued
<1>9. WellIssued(issueAgentAccessToken(a, scopes))'
  <2>1. issueAgentAccessToken(a, scopes) \in issueAgentTokens(a, scopes)
    BY DEF issueAgentTokens
  <2> DEFINE x == issueAgentAccessToken(a, scopes)
  <2>2. /\ TokenPayload(x) /\ x.kind = "agent" /\ x.sub = a /\ x.scopes = scopes
        /\ x.tokenType = "access"
    BY <1>1, <2>1, AgentTokens
  <2> HIDE DEF x
  <2>3. ASSUME NEW y, y = x PROVE WellIssued(y)'
    BY <1>3, <1>4, <2>2, <2>3 DEF WellIssued
  <2> QED BY <2>3 DEF x
<1> QED BY <1>2, <1>4, <1>5, <1>6, <1>7, <1>8, <1>9

\* Whoever logs in, refreshes, and creates agents, in any order and however many: a
\* token says of its subject what the table does, refresh tokens go to those alone who
\* have proved who they are, and a row stays as createAgent wrote it.
THEOREM IdentitiesInvariant == IdentitiesSpec => []IdentitiesInv
<1>1. IdentitiesInit => IdentitiesInv
  BY DEF IdentitiesInit, IdentitiesInv, NamesUnique, emptyMap
<1>2. IdentitiesInv /\ [IdentitiesNext]_identitiesVars => IdentitiesInv'
  <2>1. ASSUME IdentitiesInv, NEW t \in tokens, expireToken(t) PROVE IdentitiesInv'
    BY <2>1 DEF expireToken, IdentitiesInv, WellIssued, AsCreated, NamesUnique
  <2>2. ASSUME IdentitiesInv, UNCHANGED identitiesVars PROVE IdentitiesInv'
    BY <2>2 DEF identitiesVars, IdentitiesInv, WellIssued, AsCreated, NamesUnique
  <2> QED
    BY <2>1, <2>2, HumanLoginKeeps, CreateAgentKeeps, AuthenticateKeeps, RefreshKeeps
    DEF IdentitiesNext
<1> QED BY <1>1, <1>2, PTL DEF IdentitiesSpec

LEMMA InvJustifiesTokens == IdentitiesInv => TokensJustified
<1> SUFFICES ASSUME IdentitiesInv, NEW t \in tokens
             PROVE  verifyAccessToken(t) \in {"invalid", resolveRole(t)}
  BY DEF TokensJustified, IdentitiesInv, WellIssued
<1>1. t.kind \in {"human", "agent"} /\ WellIssued(t)
  BY DEF IdentitiesInv, WellIssued, TokenPayload
<1>2. CASE t.kind = "human"
  BY <1>2 DEF verifyAccessToken, rowRole, resolveRole
<1>3. CASE t.kind = "agent"
  <2>1. agents[t.sub].role = agentRole(agents[t.sub].scopes) /\ t.scopes = agents[t.sub].scopes
    BY <1>1, <1>3 DEF WellIssued, IdentitiesInv, AsCreated
  <2> QED BY <1>3, <2>1 DEF verifyAccessToken, rowRole, resolveRole, agentRole
<1> QED BY <1>1, <1>2, <1>3

LEMMA InvVerifiesOwn == IdentitiesInv => OwnTokensVerify
<1> SUFFICES ASSUME IdentitiesInv, NEW a \in DOMAIN agents, NEW t \in tokens
             PROVE  /\ verifyAgentIdentity(AgentIdentity(a, a), t)
                         <=> t.kind = "agent" /\ t.sub = a /\ agents[a].name.after = noBlanks
                    /\ ~verifyAgentIdentity(AgentIdentity(a, agents[a].publicKey), t)
  BY DEF OwnTokensVerify
<1> DEFINE row == agents[a]
<1>1. /\ row.manifest = createManifest(row.name, a) /\ row.name.trimmed \in AgentName
      /\ row.publicKey \in ClientKey /\ a \in Agent
  BY DEF IdentitiesInv, AsCreated, AgentRow
<1>2. row.manifest.name = row.name.trimmed /\ row.manifest.signature = a
  BY <1>1 DEF createManifest, signManifest
<1>3. row.publicKey # a
  BY <1>1, IdentitiesAssumption
<1>4. \A key : /\ AgentIdentity(a, key).agentId = a
               /\ AgentIdentity(a, key).name = row.name
               /\ AgentIdentity(a, key).manifest = row.manifest
               /\ AgentIdentity(a, key).keypairPublicKey = key
  BY DEF AgentIdentity
<1>5. \A key : verifyAgentIdentity(AgentIdentity(a, key), t)
                 <=> key = a /\ t.kind = "agent" /\ t.sub = a /\ row.name.after = noBlanks
  BY <1>1, <1>2, <1>4
  DEF verifyAgentIdentity, checkSuffixEnforcement, verifyAgentManifest, validateManifest,
      verifyManifestSignature, verifyAgentToken, verifyToken
<1> QED BY <1>3, <1>5

LEMMA InvTellsNames == IdentitiesInv => NamesTold
<1> SUFFICES ASSUME IdentitiesInv, NEW a \in DOMAIN agents, NEW b \in DOMAIN agents, a # b,
                    agents[a].manifest.name = agents[b].manifest.name
             PROVE  \/ agents[a].name.before # agents[b].name.before
                    \/ agents[a].name.after # agents[b].name.after
  BY DEF NamesTold
<1>1. agents[a].name \in DisplayName /\ agents[b].name \in DisplayName
  BY DEF IdentitiesInv, AsCreated, AgentRow
<1>2. agents[a].name.trimmed = agents[b].name.trimmed
  <2>1. \A x \in DOMAIN agents : agents[x].manifest = createManifest(agents[x].name, x)
    BY DEF IdentitiesInv, AsCreated
  <2>2. \A n, x : createManifest(n, x).name = n.trimmed
    BY DEF createManifest
  <2> QED BY <2>1, <2>2, Zenon
<1>3. agents[a].name # agents[b].name
  BY DEF IdentitiesInv, NamesUnique
<1> QED BY <1>1, <1>2, <1>3 DEF DisplayName

\* For any people, agents, names and keys: a token carries the scopes of its agent's row
\* and is worth the row's role or nothing; verifyAgentIdentity takes an agent's own tokens
\* alone, unless its name was sent with blanks after it, and none under the key the client
\* sent; and two agents share a manifest's name only where their rows differ in the blanks
\* before the name or after it, whatever blanks there are.
THEOREM IdentitiesAlwaysHold == IdentitiesSpec => []IdentitiesHold
<1>1. IdentitiesInv => IdentitiesHold
  BY InvJustifiesTokens, InvVerifiesOwn, InvTellsNames DEF IdentitiesHold
<1> QED BY <1>1, IdentitiesInvariant, PTL

\* Rows, tokens and those who have proved themselves keep their types, whatever the
\* table, the names and the capabilities asked for.
THEOREM IdentitiesTypeCorrect == IdentitiesSpec => []IdentitiesTypeOK
<1>1. IdentitiesInv => IdentitiesTypeOK
  BY DEF IdentitiesInv, IdentitiesTypeOK, AsCreated, WellIssued
<1> QED BY <1>1, IdentitiesInvariant, PTL
===============================================================================
