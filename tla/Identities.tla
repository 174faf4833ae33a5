------------------------------- MODULE Identities -------------------------------
(***************************************************************************)
(* Identities and tokens: agents created by humans, the JWTs of both, what *)
(* the guards let a token do, and how one token is exchanged for another.  *)
(* A token is what it says; signing and the clock are abstract.            *)
(***************************************************************************)
EXTENDS Roles, Maps

CONSTANTS
  Human,      \* users with an account; all of them can log in
  Agent,      \* the agent ids createAgentIdentity draws
  AgentName,  \* names that end in (ai) and are otherwise well formed
  OtherName,  \* names that are not
  Blanks,     \* runs of blanks, of any length and kind
  noBlanks,   \* the empty one
  ClientKey   \* the public keys clients send, none of them drawn by the server

ASSUME IdentitiesAssumption ==
  AgentName \cap OtherName = {} /\ Agent \cap ClientKey = {} /\ noBlanks \in Blanks

VARIABLES
  agents,   \* the table: agent -> row
  tokens,   \* the tokens issued and not expired
  proved    \* history: who logged in, or authenticated with the agent's key

identitiesVars == <<agents, tokens, proved>>

createToken(kind, sub, scopes, type) ==
  [kind |-> kind, sub |-> sub, scopes |-> scopes, tokenType |-> type]

TokenPayload(t) ==
  /\ DOMAIN t = {"kind", "sub", "scopes", "tokenType"}
  /\ t.kind \in {"human", "agent"} /\ t.tokenType \in {"access", "refresh"}
  /\ t.sub \in IF t.kind = "human" THEN Human ELSE Agent
  /\ t.scopes \subseteq Permission

\* A name as it is sent: blanks may stand at either end.
DisplayName == [before : Blanks, trimmed : AgentName \cup OtherName, after : Blanks]

AgentRow(row) ==
  /\ row.name \in DisplayName /\ row.owner \in Human
  /\ row.publicKey \in ClientKey /\ row.manifest.name \in AgentName
  /\ row.scopes \subseteq Permission
  /\ row.role \in Role /\ row.status = "active"

IdentitiesTypeOK ==
  /\ DOMAIN agents \subseteq Agent
  /\ \A a \in DOMAIN agents : AgentRow(agents[a])
  /\ \A t \in tokens : TokenPayload(t)
  /\ proved \subseteq Human \cup Agent

IdentitiesInit == agents = emptyMap /\ tokens = {} /\ proved = {}
-----------------------------------------------------------------------------
\* Mutant of issueAgentRefreshToken: the token of an agent is one of a human.
issueAgentRefreshToken_OfHuman(a, scopes) == createToken("human", a, scopes, "refresh")

issueHumanAccessToken(h) == createToken("human", h, {}, "access")
issueHumanRefreshToken(h) == createToken("human", h, {}, "refresh")
issueAgentAccessToken(a, scopes) == createToken("agent", a, scopes, "access")
issueAgentRefreshToken(a, scopes) == createToken("agent", a, scopes, "refresh")

issueHumanTokens(h) == {issueHumanAccessToken(h), issueHumanRefreshToken(h)}

issueAgentTokens(a, scopes) ==
  {issueAgentAccessToken(a, scopes), issueAgentRefreshToken(a, scopes)}

\* TODO in the code: the role is read off the token, not off the database.
resolveRole(t) ==
  IF t.kind = "human" THEN "human_user"
  ELSE IF Cardinality(t.scopes) > 5 THEN "agent_privileged" ELSE "agent_basic"

\* What a token counts for at all: issued, and not expired.
verifyToken(t) == t \in tokens

JwtAuthGuard(t) == verifyToken(t) /\ t.tokenType = "access"

RbacGuard(t, permission) == checkPermission(resolveRole(t), permission)

canActivate(t, permission) == JwtAuthGuard(t) /\ RbacGuard(t, permission)

\* The role GET /auth/verify answers for an access token, and POST /auth/refresh for
\* the pair it returns: that of the subject's row.
rowRole(t) == IF t.kind = "human" THEN "human_user" ELSE agents[t.sub].role

verifyAccessToken(t) == IF JwtAuthGuard(t) THEN rowRole(t) ELSE "invalid"

HumanLogin(h) ==
  /\ tokens' = tokens \cup issueHumanTokens(h)
  /\ proved' = proved \cup {h}
  /\ UNCHANGED agents

\* Length, suffix, a name before it, and the characters allowed, of the trimmed name.
validateAgentName(name) == name.trimmed \in AgentName

\* A signature is worth the key it verifies under.  The key pair drawn for an agent
\* is named by the agent; nobody keeps its private half.
signManifest(signer) == signer

createManifest(name, signer) ==
  [name |-> name.trimmed, signature |-> signManifest(signer)]

verifyManifestSignature(manifest, publicKey) == manifest.signature = publicKey

validateManifest(manifest, publicKey) ==
  manifest.name \in AgentName /\ verifyManifestSignature(manifest, publicKey)

verifyAgentManifest(manifest, publicKey) == validateManifest(manifest, publicKey)

\* A name that is taken ends the request, by the unique column.  The row keeps the
\* name as it was sent and the client's key beside a manifest signed by another.
createAgent(a, owner, name, publicKey, scopes) ==
  /\ \A b \in DOMAIN agents : agents[b].name # name
  /\ agents' = put(agents, a, [name |-> name, owner |-> owner, scopes |-> scopes,
                               publicKey |-> publicKey, manifest |-> createManifest(name, a),
                               role |-> agentRole(scopes), status |-> "active"])

\* The id is new; the token is made before the row, and handed out after it.
createAgentIdentity(a, scopes) ==
  /\ a \notin DOMAIN agents
  /\ tokens' = tokens \cup {issueAgentAccessToken(a, scopes)}

CreateAgent(t, a, name, publicKey, capability) ==
  LET scopes == inferScopes(capability) IN
    /\ canActivate(t, "agent:create")
    /\ validateAgentName(name)
    /\ t.sub \in Human
    /\ createAgentIdentity(a, scopes)
    /\ createAgent(a, t.sub, name, publicKey, scopes)
    /\ UNCHANGED proved

\* The signature is by the key the row holds, over the id and a fresh timestamp.
authenticateAgent(a) ==
  /\ a \in DOMAIN agents /\ agents[a].status = "active"
  /\ tokens' = tokens \cup issueAgentTokens(a, agents[a].scopes)
  /\ proved' = proved \cup {a}
  /\ UNCHANGED agents

\* Mutant of refreshTokens: the type of the token is not looked at.
refreshTokens_AnyType(t) ==
  IF t.kind = "human" THEN issueHumanTokens(t.sub) ELSE issueAgentTokens(t.sub, t.scopes)

\* What refreshTokens makes of a token; nothing, unless it is a refresh token.
refreshTokens(t) ==
  IF t.tokenType # "refresh" THEN {}
  ELSE IF t.kind = "human" THEN issueHumanTokens(t.sub)
  ELSE issueAgentTokens(t.sub, t.scopes)

\* The old refresh token is not spent, and the subject's row is not consulted.
refresh(t) ==
  /\ verifyToken(t) /\ refreshTokens(t) # {}
  /\ tokens' = tokens \cup refreshTokens(t)
  /\ UNCHANGED <<agents, proved>>

expireToken(t) ==
  /\ tokens' = tokens \ {t}
  /\ UNCHANGED <<agents, proved>>

IdentitiesNext ==
  \/ \E h \in Human : HumanLogin(h)
  \/ \E t \in tokens, a \in Agent \ DOMAIN agents, n \in DisplayName, k \in ClientKey,
        c \in Capability : CreateAgent(t, a, n, k, c)
  \/ \E a \in Agent : authenticateAgent(a)
  \/ \E t \in tokens : refresh(t)
  \/ \E t \in tokens : expireToken(t)

IdentitiesSpec == IdentitiesInit /\ [][IdentitiesNext]_identitiesVars
-----------------------------------------------------------------------------
\* An agent as verifyAgentIdentity is given it: with the key pair drawn for it, as
\* createAgentIdentity returned it, or with the key that its row holds.
AgentIdentity(a, publicKey) ==
  [agentId |-> a, name |-> agents[a].name, manifest |-> agents[a].manifest,
   keypairPublicKey |-> publicKey]

verifyAgentToken(t) == verifyToken(t) /\ t.kind = "agent"

\* The suffix is looked for at the end of the name as it was sent: blanks after it
\* hide it, blanks before the name do not.
checkSuffixEnforcement(identity) ==
  /\ identity.name.trimmed \in AgentName /\ identity.name.after = noBlanks
  /\ identity.manifest.name \in AgentName

verifyAgentIdentity(identity, t) ==
  /\ checkSuffixEnforcement(identity)
  /\ verifyAgentManifest(identity.manifest, identity.keypairPublicKey)
  /\ verifyAgentToken(t) /\ t.sub = identity.agentId
-----------------------------------------------------------------------------
\* A token is never worth more, or less, than its subject's row: whatever chain of
\* creations, authentications and refreshes it comes from, it carries the row's
\* scopes and the guard reads the row's role off it; and a refresh token is only
\* ever held by who has logged in or proved the agent's key at least once
\* (createAgent hands out an access token alone).
TokensJustified ==
  \A t \in tokens :
     /\ t.tokenType = "refresh" => t.sub \in proved
     /\ t.kind = "agent" =>
          t.sub \in DOMAIN agents /\ t.scopes = agents[t.sub].scopes
     /\ verifyAccessToken(t) \in {"invalid", resolveRole(t)}

\* Of all the tokens about, verifyAgentIdentity takes for an agent its own, refresh
\* tokens included, if the agent's name was sent without blanks after it and the identity
\* comes with the key drawn at its creation; with the key in the agent's row it takes
\* none (createAgent stores the client's key beside the manifest the other signed).
OwnTokensVerify ==
  \A a \in DOMAIN agents, t \in tokens :
     /\ verifyAgentIdentity(AgentIdentity(a, a), t)
          <=> t.kind = "agent" /\ t.sub = a /\ agents[a].name.after = noBlanks
     /\ ~verifyAgentIdentity(AgentIdentity(a, agents[a].publicKey), t)

\* Two agents have manifests of one name only if their rows differ in the blanks at one
\* end, however many of either: the name is validated, and put into the manifest,
\* trimmed, and stored as it was sent, so that the unique column tells them apart.
NamesTold ==
  \A a, b \in DOMAIN agents :
     a # b /\ agents[a].manifest.name = agents[b].manifest.name
       => \/ agents[a].name.before # agents[b].name.before
          \/ agents[a].name.after # agents[b].name.after

\* Tokens, identities and names of agents hold what their rows say, as above: over
\* every order of logins, creations, authentications, refreshes and expiries.
IdentitiesHold == TokensJustified /\ OwnTokensVerify /\ NamesTold
=============================================================================
