------------------------------- MODULE AgentCards -------------------------------
(***************************************************************************)
(* AgentCardService: cards by URL, an index from names to URLs beside it,  *)
(* and cards fetched from remote agents.  A card is its name, its URL and  *)
(* what its signature is worth; the rest of its contents is abstract.      *)
(***************************************************************************)
EXTENDS Maps

CONSTANTS
  CardUrl, CardName,  \* valid URLs, and names ending in (ai)
  Discovery           \* calls of discoverAgent that wait for a fetch (a bound)

VARIABLES
  cards,      \* URL -> the card of its entry
  nameIndex,  \* name -> URL
  fetching,   \* call -> the URL it fetches
  disturbed   \* history: the names touched by a rename or a fetch

cardsVars == <<cards, nameIndex, fetching, disturbed>>

\* What a signature is worth under the card's public key: "stale" is left over from
\* other contents, "foreign" made by updateCard with or over another key.
Signature == {"none", "good", "stale", "foreign"}

AgentCard ==
  [name : CardName, url : CardUrl, publicKey : {TRUE}, signature : Signature]
    \cup [name : CardName, url : CardUrl, publicKey : {FALSE}, signature : {"none", "stale"}]

CardsTypeOK ==
  /\ DOMAIN cards \subseteq CardUrl /\ cards \in [DOMAIN cards -> AgentCard]
  /\ DOMAIN nameIndex \subseteq CardName /\ nameIndex \in [DOMAIN nameIndex -> CardUrl]
  /\ DOMAIN fetching \subseteq Discovery /\ fetching \in [DOMAIN fetching -> CardUrl]
  /\ disturbed \subseteq CardName

CardsInit ==
  /\ cards = emptyMap /\ nameIndex = emptyMap /\ fetching = emptyMap
  /\ disturbed = {}
-----------------------------------------------------------------------------
\* The signature covers the contents and the public key, not itself; a card without
\* one of signature and key fails the verification.
verifyAgentCardSignature(card) == card.publicKey /\ card.signature = "good"

validateAgentCard(card) ==
  (card.signature # "none" /\ card.publicKey) => verifyAgentCardSignature(card)

registerCard(card) ==
  /\ validateAgentCard(card)
  /\ card.url \notin DOMAIN cards /\ card.name \notin DOMAIN nameIndex
  /\ cards' = put(cards, card.url, card)
  /\ nameIndex' = put(nameIndex, card.name, card.url)
  /\ UNCHANGED <<fetching, disturbed>>

\* What an update brings: a name, perhaps a public key, perhaps a signature, which
\* is then one of the updated contents; and the caller may sign, with a key.
CardUpdate == [name : CardName, key : BOOLEAN, signature : BOOLEAN]

Signer == {"nobody", "owner", "other"}

\* Without a signature of its own the update leaves the old contents' in place.
updatedCard(url, old, update) ==
  LET key == old.publicKey \/ update.key IN
    [name |-> update.name, url |-> url, publicKey |-> key,
     signature |-> IF update.signature THEN IF key THEN "good" ELSE "stale"
                   ELSE IF old.signature = "none" THEN "none" ELSE "stale"]

\* The signature covers the updated card and the key it came with; the old key is
\* put back after that.
signAgentCard(old, new, signer, update) ==
  [name |-> new.name, url |-> new.url, publicKey |-> old.publicKey,
   signature |-> IF ~old.publicKey THEN "stale"
                 ELSE IF signer = "owner" /\ ~update.key THEN "good" ELSE "foreign"]

\* Validation comes before the signing, so a signed card with a public key is
\* updated only by a caller that brings the new signature.  The index is left as it is.
updateCard(url, update, signer) ==
  /\ url \in DOMAIN cards
  /\ LET old == cards[url]
         new == updatedCard(url, old, update) IN
       /\ validateAgentCard(new)
       /\ cards' = [cards EXCEPT ![url] =
                      IF signer = "nobody" THEN new ELSE signAgentCard(old, new, signer, update)]
       /\ disturbed' = IF update.name = old.name THEN disturbed
                       ELSE disturbed \cup {update.name, old.name}
  /\ UNCHANGED <<nameIndex, fetching>>

\* Mutant of unregisterCard: the index keeps the name.
unregisterCard_IndexKept(url) ==
  /\ url \in DOMAIN cards
  /\ cards' = restrictTo(cards, DOMAIN cards \ {url})
  /\ UNCHANGED <<nameIndex, fetching, disturbed>>

unregisterCard(url) ==
  /\ url \in DOMAIN cards
  /\ nameIndex' = restrictTo(nameIndex, DOMAIN nameIndex \ {cards[url].name})
  /\ cards' = restrictTo(cards, DOMAIN cards \ {url})
  /\ UNCHANGED <<fetching, disturbed>>

getCardByUrl(url) == IF url \in DOMAIN cards THEN {cards[url]} ELSE {}

\* The router answers a cached card of any age, so fetchAndCacheCard never finds one
\* to compare with its time to live.
discoverAgent(d, url) ==
  /\ d \notin DOMAIN fetching
  /\ getCardByUrl(url) = {}
  /\ fetching' = put(fetching, d, url)
  /\ UNCHANGED <<cards, nameIndex, disturbed>>

fetched(d) == fetching' = restrictTo(fetching, DOMAIN fetching \ {d})

\* What the remote agent sends is stored under the URL asked for, indexed under its
\* own URL; nothing is compared with what the registry holds by now.
FetchReturns(d, card) ==
  /\ d \in DOMAIN fetching
  /\ validateAgentCard(card)
  /\ LET url == fetching[d] IN
       /\ cards' = put(cards, url, card)
       /\ nameIndex' = put(nameIndex, card.name, card.url)
       /\ disturbed' = disturbed \cup {c.name : c \in {card} \cup getCardByUrl(url)}
  /\ fetched(d)

\* The time-out of five seconds, an HTTP error, a card that is not valid.
FetchFails(d) ==
  /\ d \in DOMAIN fetching
  /\ fetched(d)
  /\ UNCHANGED <<cards, nameIndex, disturbed>>

CardsNext ==
  \/ \E card \in AgentCard : registerCard(card)
  \/ \E url \in CardUrl, update \in CardUpdate, signer \in Signer :
        updateCard(url, update, signer)
  \/ \E url \in CardUrl : unregisterCard(url)
  \/ \E d \in Discovery, url \in CardUrl : discoverAgent(d, url)
  \/ \E d \in Discovery : FetchFails(d) \/ \E card \in AgentCard : FetchReturns(d, card)

CardsSpec == CardsInit /\ [][CardsNext]_cardsVars
-----------------------------------------------------------------------------
getCardByName(name) ==
  IF name \in DOMAIN nameIndex THEN getCardByUrl(nameIndex[name]) ELSE {}

\* The cards of a name, by a search of all cards.
cardsNamed(name) == {cards[u] : u \in {v \in DOMAIN cards : cards[v].name = name}}

\* The look-up by name and the cards agree on every name that no rename and no fetch
\* has touched, whatever happens to the others: a rename onto a taken name, and the
\* removal of either card after it, damage those two names only.  And a card with a
\* public key never keeps a signature of other contents: one that does not verify
\* was made by updateCard, with another key or over a key it then took back
\* (updateCard leaves nameIndex alone and signs last, unchecked; fetchAndCacheCard
\* stores across an await).
LookupsConfined ==
  /\ \A name \in CardName \ disturbed :
        /\ getCardByName(name) = cardsNamed(name)
        /\ name \in DOMAIN nameIndex <=> cardsNamed(name) # {}
  /\ \A u \in DOMAIN cards : cards[u].publicKey => cards[u].signature # "stale"
=============================================================================
