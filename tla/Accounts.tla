-------------------------------- MODULE Accounts --------------------------------
(***************************************************************************)
(* Accounts of humans: the WebAuthn ceremonies of AuthService over the     *)
(* challenge store and the users table.  A ceremony is begun by one        *)
(* request and finished by another; a finish awaits the store, the         *)
(* verification and the table, and everything else may happen meanwhile.   *)
(***************************************************************************)
EXTENDS Naturals, FiniteSets, Maps

CONSTANTS
  LocalPart, Domain,  \* an email address is a local part and a domain
  Registration,       \* the user ids registerBegin draws: a registration ceremony each
  Login,              \* the challenges loginBegin draws: a login ceremony each
  Finish,             \* calls of registerFinish and loginFinish running at a time (a bound)
  MaxSigned,          \* assertions an authenticator signs (a bound)
  StoreHasInterface   \* whether the store the service passes on is a ChallengeStore

ASSUME AccountsAssumption ==
  /\ MaxSigned \in Nat /\ StoreHasInterface \in BOOLEAN
  /\ Registration \cap Login = {}

VARIABLES
  challenges,  \* the ceremonies whose challenge the store holds
  answered,    \* ceremony -> what its begin request returned
  offered,     \* login -> the user whose credentials its options name
  users,       \* the table: id -> row
  authenticator,  \* user -> signatures its authenticator has made
  assertions,  \* the assertions signed
  finishes,    \* the finish calls
  results      \* history: ceremony -> accounts saved or logins completed by it

accountsVars == <<challenges, answered, offered, users, authenticator, assertions,
                  finishes, results>>

Email == LocalPart \X Domain

Ceremony == Registration \cup Login

\* The columns anything decides by: the counter of the credential stands for it.
UserRow == [email : Email, counter : Nat]

Assertion == [login : Login, user : Registration, counter : Nat]

idle == [at |-> "idle"]

FinishCall ==
  {idle}
    \cup [at : {"verifying", "writing"}, key : Registration, email : Email]
    \cup [at : {"verifying", "writing"}, key : Login, user : Registration,
          stored : Nat, counter : Nat]

AccountsTypeOK ==
  /\ challenges \subseteq Ceremony
  /\ answered \in [Ceremony -> {"not begun", "options", "error"}]
  /\ offered \in [DOMAIN offered -> Registration] /\ DOMAIN offered \subseteq Login
  /\ users \in [DOMAIN users -> UserRow] /\ DOMAIN users \subseteq Registration
  /\ authenticator \in [Registration -> Nat]
  /\ assertions \subseteq Assertion
  /\ finishes \in [Finish -> FinishCall]
  /\ results \in [Ceremony -> Nat]

AccountsInit ==
  /\ challenges = {}
  /\ answered = [c \in Ceremony |-> "not begun"]
  /\ offered = emptyMap
  /\ users = emptyMap
  /\ authenticator = [r \in Registration |-> 0]
  /\ assertions = {}
  /\ finishes = [f \in Finish |-> idle]
  /\ results = [c \in Ceremony |-> 0]
-----------------------------------------------------------------------------
username(email) == email[1]

findByEmail(email) == {u \in DOMAIN users : users[u].email = email}

\* The columns createUser and the update of a login leave in the table.
createUserRow(id, email) == put(users, id, [email |-> email, counter |-> 0])

\* Mutant of updateUserRow: the counter's column is too narrow, by one bit of two.
updateUserRow_Narrow(id, counter) == [users EXCEPT ![id].counter = counter % 2]

updateUserRow(id, counter) == [users EXCEPT ![id].counter = counter]

\* The unique columns of the table: nobody else has the email or the username.
savable(id, email) ==
  \A u \in DOMAIN users \ {id} :
     users[u].email # email /\ username(users[u].email) # username(email)

\* The constructor casts its InMemoryChallengeStore to any.  That class has set,
\* get and del; the ceremonies call setChallenge, getChallenge and deleteChallenge.
canCallStore == StoreHasInterface

setChallenge(c) == challenges' = challenges \cup {c}

getChallenge(c) == c \in challenges

\* Mutant of deleteChallenge: a challenge is left to expire.
deleteChallenge_NotDeleted(c) == UNCHANGED challenges

deleteChallenge(c) == challenges' = challenges \ {c}

\* The begin requests throw at the store, or return the options of a ceremony.
begin(c) ==
  /\ answered[c] = "not begun"
  /\ answered' = [answered EXCEPT ![c] = IF canCallStore THEN "options" ELSE "error"]
  /\ IF canCallStore THEN setChallenge(c) ELSE UNCHANGED challenges

generateRegistrationOptions(r) == begin(r)

RegisterBegin(r, email) ==
  /\ findByEmail(email) = {}
  /\ generateRegistrationOptions(r)
  /\ UNCHANGED <<offered, users, authenticator, assertions, finishes, results>>

generateAuthenticationOptions(l, u) ==
  /\ begin(l)
  /\ offered' = IF canCallStore THEN put(offered, l, u) ELSE offered

LoginBegin(l, email) ==
  /\ \E u \in findByEmail(email) : generateAuthenticationOptions(l, u)
  /\ UNCHANGED <<users, authenticator, assertions, finishes, results>>

\* The browser signs with a credential the options allow; its authenticator counts.
Sign(l) ==
  /\ l \in DOMAIN offered
  /\ \A a \in assertions : a.login # l
  /\ LET u == offered[l] IN
       /\ authenticator[u] < MaxSigned
       /\ authenticator' = [authenticator EXCEPT ![u] = @ + 1]
       /\ assertions' = assertions \cup {[login |-> l, user |-> u,
                                          counter |-> authenticator[u] + 1]}
  /\ UNCHANGED <<challenges, answered, offered, users, finishes, results>>
-----------------------------------------------------------------------------
starts(f, call) ==
  /\ finishes[f] = idle
  /\ getChallenge(call.key)
  /\ finishes' = [finishes EXCEPT ![f] = call]
  /\ UNCHANGED <<challenges, answered, offered, users, authenticator, assertions, results>>

\* The email is the one the finish request sends: nothing compares it with the
\* one the ceremony began with.
RegisterFinish(f, r, email) ==
  /\ findByEmail(email) = {}
  /\ starts(f, [at |-> "verifying", key |-> r, email |-> email])

LoginFinish(f, a) ==
  /\ a.user \in DOMAIN users
  /\ starts(f, [at |-> "verifying", key |-> a.login, user |-> a.user,
                stored |-> users[a.user].counter, counter |-> a.counter])

\* What the WebAuthn library asks of a counting authenticator.
counterAccepted(stored, counter) == (counter = 0 /\ stored = 0) \/ counter > stored

verifies(call) == call.key \in Registration \/ counterAccepted(call.stored, call.counter)

verifyRegistrationResponse(f) ==
  /\ finishes[f].at = "verifying" /\ finishes[f].key \in Registration
  /\ deleteChallenge(finishes[f].key)
  /\ finishes' = [finishes EXCEPT ![f].at = "writing"]
  /\ UNCHANGED <<answered, offered, users, authenticator, assertions, results>>

verifyAuthenticationResponse(f) ==
  /\ finishes[f].at = "verifying" /\ finishes[f].key \in Login
  /\ verifies(finishes[f])
  /\ deleteChallenge(finishes[f].key)
  /\ finishes' = [finishes EXCEPT ![f].at = "writing"]
  /\ UNCHANGED <<answered, offered, users, authenticator, assertions, results>>

\* The response is not what the ceremony asked for: the challenge stays.
VerificationFails(f) ==
  /\ finishes[f].at = "verifying"
  /\ finishes' = [finishes EXCEPT ![f] = idle]
  /\ UNCHANGED <<challenges, answered, offered, users, authenticator, assertions, results>>

ends(f, counted) ==
  /\ finishes' = [finishes EXCEPT ![f] = idle]
  /\ results' = IF counted THEN [results EXCEPT ![finishes[f].key] = @ + 1] ELSE results
  /\ UNCHANGED <<challenges, answered, offered, authenticator, assertions>>

\* repo.save inserts the row, or overwrites the one that has its id; the unique
\* columns may refuse it, when the challenge is already spent.
CreateUser(f) ==
  /\ finishes[f].at = "writing" /\ finishes[f].key \in Registration
  /\ LET r == finishes[f].key
         ok == savable(r, finishes[f].email) IN
       /\ users' = IF ok THEN createUserRow(r, finishes[f].email) ELSE users
       /\ ends(f, ok)

\* userRepo.update writes the credentials read before the verification, with the
\* new counter in them; then the tokens are issued.
UpdateUser(f) ==
  /\ finishes[f].at = "writing" /\ finishes[f].key \in Login
  /\ users' = updateUserRow(finishes[f].user, finishes[f].counter)
  /\ ends(f, TRUE)

\* An entry's time is up: get deletes it.
Expire(c) ==
  /\ c \in challenges
  /\ challenges' = challenges \ {c}
  /\ UNCHANGED <<answered, offered, users, authenticator, assertions, finishes, results>>

\* The server stops: the store is in memory, and the calls running are lost.
Restart ==
  /\ challenges # {} \/ \E f \in Finish : finishes[f] # idle
  /\ challenges' = {}
  /\ finishes' = [f \in Finish |-> idle]
  /\ UNCHANGED <<answered, offered, users, authenticator, assertions, results>>

AccountsNext ==
  \/ \E r \in Registration, e \in Email : RegisterBegin(r, e)
  \/ \E l \in Login, e \in Email : LoginBegin(l, e)
  \/ \E l \in Login : Sign(l)
  \/ \E f \in Finish, r \in Registration, e \in Email : RegisterFinish(f, r, e)
  \/ \E f \in Finish, a \in assertions : LoginFinish(f, a)
  \/ \E f \in Finish : \/ verifyRegistrationResponse(f)
                       \/ verifyAuthenticationResponse(f)
                       \/ VerificationFails(f)
                       \/ CreateUser(f)
                       \/ UpdateUser(f)
  \/ \E c \in Ceremony : Expire(c)
  \/ Restart

AccountsSpec == AccountsInit /\ [][AccountsNext]_accountsVars
-----------------------------------------------------------------------------
\* A challenge is out of the store before what it proves is written, and stays
\* out: of finishes of one ceremony only those that had read the challenge before
\* the first deleted it can still get an account or a login out of it
\* (verifyRegistrationResponse and verifyAuthenticationResponse delete last).  This is
\* less than the "one-time use" deleteChallenge speaks of (challenge-store.ts:58): two
\* finishes that overlap may both succeed on one challenge; one that begins later may not.
SpentBeforeWritten ==
  \A c \in Ceremony :
     (results[c] > 0 \/ \E f \in Finish : finishes[f].at = "writing" /\ finishes[f].key = c)
       => c \notin challenges

\* The counter stored for a credential goes down only when the write was decided
\* by an older row: a login that read it before another login wrote, or a second
\* finish of the registration that made it (loginFinish reads the row, awaits the
\* verification and writes the row it had read).
CounterFallsStale ==
  [][\A u \in DOMAIN users :
        users'[u].counter < users[u].counter =>
          \E f \in Finish :
             /\ finishes[f].at = "writing"
             /\ \/ finishes[f].key \in Login /\ finishes[f].stored # users[u].counter
                \/ finishes[f].key = u /\ results[u] > 0]_accountsVars

\* "Generates a challenge and returns registration options" (auth.service.ts:93):
\* a begin request that passes its checks is answered with options.
BeginsAnswered == \A c \in Ceremony : answered[c] # "error"
=============================================================================
