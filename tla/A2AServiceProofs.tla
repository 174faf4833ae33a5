--------------------------- MODULE A2AServiceProofs ---------------------------
(* What holds of the A2A service, for any set of tasks, and of the card       *)
(* registry it is started with, for any URLs, names and discoveries.          *)
EXTENDS A2AService, AgentCards, TLAPS

\* A row is inserted once: while the insert is under way there is none.
SavedOnce == \A t \in saving : t \notin DOMAIN taskRows

\* A confirmed task has its row, and stays in the table whatever the router forgets.
ConfirmedHaveRows ==
  \A t \in DOMAIN replies : replies[t] = "task" => t \in DOMAIN taskRows

\* A cancel the router knows of is in the table, on its way there, or missed: the
\* reason why a restart can answer "submitted" again in those ways only.
CancelsAccounted ==
  \A t \in DOMAIN router : router[t] = "canceled" =>
    \/ t \in cancelling \cup missed
    \/ t \in DOMAIN taskRows /\ taskRows[t] = "canceled"

ServiceInv == A2AServiceTypeOK /\ SavedOnce /\ ConfirmedHaveRows /\ CancelsAccounted

\* answerCreate answers a call that waits, and no other: by the outcome of its insert.
LEMMA AnswerFacts ==
  ASSUME A2AServiceTypeOK, NEW t \in DOMAIN replies, NEW stored \in BOOLEAN,
         answerCreate(t, stored)
  PROVE  /\ DOMAIN replies' = DOMAIN replies
         /\ replies' \in [DOMAIN replies' -> {"pending", "task", "error", "lost"}]
         /\ \A x \in DOMAIN replies :
               \/ replies'[x] = replies[x]
               \/ x = t /\ replies'[x] = IF stored THEN "task" ELSE "error"
<1>1. errorCode("tasks/send", t, stored) = IF stored THEN 0 ELSE -32603
  BY DEF errorCode
<1>2. (errorCode("tasks/send", t, stored) = 0) = stored
  BY <1>1
<1> QED BY <1>2 DEF A2AServiceTypeOK, answerCreate

LEMMA ServiceInitInv == A2AServiceInit => ServiceInv
BY DEF A2AServiceInit, ServiceInv, A2AServiceTypeOK, SavedOnce, ConfirmedHaveRows,
       CancelsAccounted, emptyMap

LEMMA CreateTaskKeeps ==
  ASSUME ServiceInv, NEW t \in TaskId, createTask(t)
  PROVE  ServiceInv'
<1> USE DEF ServiceInv
<1>1. /\ t \notin DOMAIN replies /\ UNCHANGED <<taskRows, cancelling, missed>>
      /\ router' = put(router, t, "submitted") /\ replies' = put(replies, t, "pending")
      /\ saving' = saving \cup {t}
  BY DEF createTask
<1>2. /\ DOMAIN router' = DOMAIN router \cup {t} /\ router'[t] = "submitted"
      /\ \A x \in DOMAIN router \ {t} : router'[x] = router[x]
      /\ router' \in [DOMAIN router' -> A2ATaskStatus]
  BY <1>1 DEF put, A2AServiceTypeOK, A2ATaskStatus
<1>3. /\ DOMAIN replies' = DOMAIN replies \cup {t} /\ replies'[t] = "pending"
      /\ \A x \in DOMAIN replies \ {t} : replies'[x] = replies[x]
      /\ replies' \in [DOMAIN replies' -> {"pending", "task", "error", "lost"}]
  BY <1>1 DEF put, A2AServiceTypeOK
<1>4. A2AServiceTypeOK'
  BY <1>1, <1>2, <1>3 DEF A2AServiceTypeOK
<1>5. SavedOnce'
  BY <1>1 DEF SavedOnce, A2AServiceTypeOK
<1>6. ConfirmedHaveRows'
  BY <1>1, <1>3 DEF ConfirmedHaveRows
<1>7. CancelsAccounted'
  BY <1>1, <1>2 DEF CancelsAccounted
<1> QED BY <1>4, <1>5, <1>6, <1>7

LEMMA InsertLandsKeeps ==
  ASSUME ServiceInv, NEW t \in saving, InsertLands(t)
  PROVE  ServiceInv'
<1> USE DEF ServiceInv
<1>1. /\ t \in DOMAIN replies /\ t \notin DOMAIN taskRows
      /\ UNCHANGED <<router, cancelling, missed>>
      /\ taskRows' = put(taskRows, t, "submitted")
      /\ saving' = saving \ {t} /\ answerCreate(t, TRUE)
  BY DEF InsertLands, A2AServiceTypeOK, SavedOnce
<1>2. /\ DOMAIN taskRows' = DOMAIN taskRows \cup {t}
      /\ \A x \in DOMAIN taskRows \ {t} : taskRows'[x] = taskRows[x]
      /\ taskRows' \in [DOMAIN taskRows' -> A2ATaskStatus]
  BY <1>1 DEF put, A2AServiceTypeOK, A2ATaskStatus
<1>3. /\ DOMAIN replies' = DOMAIN replies
      /\ replies' \in [DOMAIN replies' -> {"pending", "task", "error", "lost"}]
      /\ \A x \in DOMAIN replies : replies'[x] = replies[x] \/ x = t
  BY <1>1, AnswerFacts
<1>4. A2AServiceTypeOK'
  BY <1>1, <1>2, <1>3 DEF A2AServiceTypeOK
<1>5. SavedOnce'
  BY <1>1, <1>2 DEF SavedOnce
<1>6. ConfirmedHaveRows'
  BY <1>2, <1>3 DEF ConfirmedHaveRows
<1>7. CancelsAccounted'
  BY <1>1, <1>2 DEF CancelsAccounted
<1> QED BY <1>4, <1>5, <1>6, <1>7

LEMMA InsertFailsKeeps ==
  ASSUME ServiceInv, NEW t \in saving, InsertFails(t)
  PROVE  ServiceInv'
<1> USE DEF ServiceInv
<1>1. /\ t \in DOMAIN replies /\ UNCHANGED <<router, taskRows, cancelling, missed>>
      /\ saving' = saving \ {t} /\ answerCreate(t, FALSE)
  BY DEF InsertFails, A2AServiceTypeOK
<1>2. /\ DOMAIN replies' = DOMAIN replies
      /\ replies' \in [DOMAIN replies' -> {"pending", "task", "error", "lost"}]
      /\ \A x \in DOMAIN replies : replies'[x] = replies[x] \/ replies'[x] = "error"
  BY <1>1, AnswerFacts
<1>3. A2AServiceTypeOK'
  BY <1>1, <1>2 DEF A2AServiceTypeOK
<1>4. SavedOnce' /\ ConfirmedHaveRows' /\ CancelsAccounted'
  BY <1>1, <1>2 DEF SavedOnce, ConfirmedHaveRows, CancelsAccounted
<1> QED BY <1>3, <1>4

LEMMA CancelKeeps ==
  ASSUME ServiceInv, NEW t \in TaskId, cancelTask(t)
  PROVE  ServiceInv'
<1> USE DEF ServiceInv
<1>1. t \in DOMAIN router
  BY DEF cancelTask, errorCode
<1>2. /\ UNCHANGED <<taskRows, saving, replies, missed>>
      /\ router' = [router EXCEPT ![t] = "canceled"] /\ cancelling' = cancelling \cup {t}
  BY DEF cancelTask
<1>3. A2AServiceTypeOK'
  BY <1>1, <1>2 DEF A2AServiceTypeOK, A2ATaskStatus
<1>4. SavedOnce' /\ ConfirmedHaveRows' /\ CancelsAccounted'
  BY <1>1, <1>2 DEF SavedOnce, ConfirmedHaveRows, CancelsAccounted, A2AServiceTypeOK
<1> QED BY <1>3, <1>4

LEMMA UpdateRowKeeps ==
  ASSUME ServiceInv, NEW t \in cancelling, UpdateLands(t) \/ UpdateFails(t)
  PROVE  ServiceInv'
<1> USE DEF ServiceInv
<1>1. /\ cancelling' = cancelling \ {t} /\ UNCHANGED <<router, saving, replies>>
      /\ t \in DOMAIN replies /\ t \in TaskId
  BY DEF UpdateLands, UpdateFails, A2AServiceTypeOK
<1>2. \/ /\ t \in DOMAIN taskRows /\ missed' = missed
         /\ taskRows' = [taskRows EXCEPT ![t] = "canceled"]
      \/ missed' = missed \cup {t} /\ taskRows' = taskRows
  BY DEF UpdateLands, UpdateFails
<1>3. /\ DOMAIN taskRows' = DOMAIN taskRows
      /\ taskRows' \in [DOMAIN taskRows' -> A2ATaskStatus]
      /\ \A x \in DOMAIN taskRows : taskRows'[x] = taskRows[x] \/ taskRows'[x] = "canceled"
  BY <1>2 DEF A2AServiceTypeOK, A2ATaskStatus
<1>4. A2AServiceTypeOK'
  BY <1>1, <1>2, <1>3 DEF A2AServiceTypeOK
<1>5. SavedOnce' /\ ConfirmedHaveRows'
  BY <1>1, <1>3 DEF SavedOnce, ConfirmedHaveRows
<1>6. CancelsAccounted'
  BY <1>1, <1>2, <1>3 DEF CancelsAccounted, A2AServiceTypeOK
<1> QED BY <1>4, <1>5, <1>6

LEMMA RestartKeeps ==
  ASSUME ServiceInv, RestartRouter
  PROVE  ServiceInv'
<1> USE DEF ServiceInv
<1>1. /\ DOMAIN router' = {} /\ UNCHANGED <<taskRows, saving, cancelling, missed>>
      /\ router' \in [DOMAIN router' -> A2ATaskStatus]
  BY DEF RestartRouter, emptyMap
<1>2. /\ DOMAIN replies' = DOMAIN replies
      /\ \A x \in DOMAIN replies :
           replies'[x] = IF replies[x] = "pending" THEN "lost" ELSE replies[x]
      /\ replies' \in [DOMAIN replies' -> {"pending", "task", "error", "lost"}]
  BY DEF RestartRouter, A2AServiceTypeOK
<1>3. A2AServiceTypeOK'
  BY <1>1, <1>2 DEF A2AServiceTypeOK
<1>4. SavedOnce' /\ ConfirmedHaveRows' /\ CancelsAccounted'
  BY <1>1, <1>2 DEF SavedOnce, ConfirmedHaveRows, CancelsAccounted
<1> QED BY <1>3, <1>4

LEMMA ServiceNextKeeps == ServiceInv /\ [A2AServiceNext]_a2aServiceVars => ServiceInv'
<1> SUFFICES ASSUME ServiceInv, [A2AServiceNext]_a2aServiceVars
             PROVE  ServiceInv'
  OBVIOUS
<1>1. CASE UNCHANGED a2aServiceVars
  BY <1>1 DEF a2aServiceVars, ServiceInv, A2AServiceTypeOK, SavedOnce, ConfirmedHaveRows,
              CancelsAccounted
<1>2. CASE \E t \in TaskId : createTask(t) \/ cancelTask(t)
  BY <1>2, CreateTaskKeeps, CancelKeeps
<1>3. CASE \E t \in saving : InsertLands(t) \/ InsertFails(t)
  BY <1>3, InsertLandsKeeps, InsertFailsKeeps
<1>4. CASE \E t \in cancelling : UpdateLands(t) \/ UpdateFails(t)
  BY <1>4, UpdateRowKeeps
<1>5. CASE RestartRouter
  BY <1>5, RestartKeeps
<1> QED BY <1>1, <1>2, <1>3, <1>4, <1>5 DEF A2AServiceNext

\* The invariant, and with it the types, in every behaviour of the service.
THEOREM ServiceTypeCorrect == A2AServiceSpec => []A2AServiceTypeOK
<1>1. ServiceInv => A2AServiceTypeOK
  BY DEF ServiceInv
<1> QED BY <1>1, ServiceInitInv, ServiceNextKeeps, PTL DEF A2AServiceSpec

\* Answers never fall back but at a restart: what each step does to getTask.
LEMMA StepsStand ==
  ASSUME ServiceInv, A2AServiceNext, NEW t \in TaskId, fallsBack(t)
  PROVE  /\ RestartRouter
         /\ getTask(t)' = "not found" => replies[t] # "task"
         /\ getTask(t)' = "submitted" => t \in cancelling \cup missed
<1> USE DEF ServiceInv
<1>1. ASSUME NEW x \in TaskId, createTask(x)
      PROVE  FALSE
  <2>1. x \notin DOMAIN router /\ x \notin DOMAIN taskRows
    BY <1>1 DEF createTask, A2AServiceTypeOK
  <2>2. taskRows' = taskRows /\ DOMAIN router' = DOMAIN router \cup {x}
        /\ \A y \in DOMAIN router \ {x} : router'[y] = router[y]
    BY <1>1 DEF put, createTask, A2AServiceTypeOK, A2ATaskStatus
  <2> QED BY <2>1, <2>2 DEF fallsBack, getTask
<1>2. ASSUME NEW x \in TaskId, cancelTask(x)
      PROVE  FALSE
  <2>1. x \in DOMAIN router
    BY <1>2 DEF cancelTask, errorCode
  <2>2. taskRows' = taskRows /\ router' = [router EXCEPT ![x] = "canceled"]
    BY <1>2 DEF cancelTask
  <2> QED BY <2>1, <2>2 DEF fallsBack, getTask, A2AServiceTypeOK
<1>3. ASSUME NEW x \in saving, InsertLands(x) \/ InsertFails(x)
      PROVE  FALSE
  <2>1. router' = router /\ x \notin DOMAIN taskRows
    BY <1>3 DEF InsertLands, InsertFails, SavedOnce
  <2>2. CASE InsertLands(x)
    <3>1. /\ DOMAIN taskRows' = DOMAIN taskRows \cup {x}
          /\ \A y \in DOMAIN taskRows \ {x} : taskRows'[y] = taskRows[y]
      BY <2>2 DEF put, InsertLands, A2AServiceTypeOK, A2ATaskStatus
    <3> QED BY <2>1, <3>1 DEF fallsBack, getTask
  <2>3. CASE InsertFails(x)
    BY <2>1, <2>3 DEF InsertFails, fallsBack, getTask
  <2> QED BY <1>3, <2>2, <2>3
<1>4. ASSUME NEW x \in cancelling, UpdateLands(x) \/ UpdateFails(x)
      PROVE  FALSE
  <2>1. /\ router' = router
        /\ \/ taskRows' = taskRows
           \/ x \in DOMAIN taskRows /\ taskRows' = [taskRows EXCEPT ![x] = "canceled"]
    BY <1>4 DEF UpdateLands, UpdateFails
  <2> QED BY <2>1 DEF fallsBack, getTask, A2AServiceTypeOK
<1>5. RestartRouter
  BY <1>1, <1>2, <1>3, <1>4 DEF A2AServiceNext
<1>6. router' = emptyMap /\ DOMAIN router' = {} /\ taskRows' = taskRows
  BY <1>5 DEF RestartRouter, emptyMap
<1>7. getTask(t)' = IF t \in DOMAIN taskRows THEN taskRows[t] ELSE "not found"
  BY <1>6 DEF getTask
<1>8. t \in DOMAIN router /\ getTask(t) = router[t]
  BY <1>7 DEF fallsBack, getTask
<1>9. getTask(t)' = "not found" => replies[t] # "task"
  BY <1>7, <1>8 DEF ConfirmedHaveRows, A2AServiceTypeOK, A2ATaskStatus
<1>10. getTask(t)' = "submitted" => t \in cancelling \cup missed
  BY <1>7, <1>8 DEF fallsBack, CancelsAccounted, A2AServiceTypeOK, A2ATaskStatus
<1> QED BY <1>5, <1>9, <1>10

\* For any set of tasks, any order of inserts, updates, failures and restarts: what
\* getTask has answered of a task is taken back only by a restart, and then only if
\* its creation was never confirmed or its cancel never reached the table.
THEOREM AnswersAlwaysStand == A2AServiceSpec => AnswersStand
<1>1. ServiceInv /\ [A2AServiceNext]_a2aServiceVars =>
        [\A t \in TaskId : fallsBack(t) =>
           /\ RestartRouter
           /\ getTask(t)' = "not found" => replies[t] # "task"
           /\ getTask(t)' = "submitted" => t \in cancelling \cup missed]_a2aServiceVars
  BY StepsStand
<1> QED BY <1>1, ServiceInitInv, ServiceNextKeeps, PTL DEF A2AServiceSpec, AnswersStand

-------------------------------------------------------------------------------
\* The card registry.

\* The index and the cards agree on a name, in both directions: what the look-ups of
\* LookupsConfined come from, one card per name included.
InStep(name) ==
  /\ name \in DOMAIN nameIndex =>
       nameIndex[name] \in DOMAIN cards /\ cards[nameIndex[name]].name = name
  /\ \A u \in DOMAIN cards : cards[u].name = name =>
       name \in DOMAIN nameIndex /\ nameIndex[name] = u

UndisturbedInStep == \A name \in CardName \ disturbed : InStep(name)

\* No card with a public key keeps a signature of other contents.
SignaturesCurrent ==
  \A u \in DOMAIN cards : cards[u].publicKey => cards[u].signature # "stale"

CardsInv == CardsTypeOK /\ UndisturbedInStep /\ SignaturesCurrent

LEMMA CardsInitInv == CardsInit => CardsInv
BY DEF CardsInit, CardsInv, CardsTypeOK, UndisturbedInStep, InStep, SignaturesCurrent, emptyMap

\* A card that was validated has no signature of other contents under its key.
LEMMA ValidatedCurrent ==
  ASSUME NEW card, validateAgentCard(card)
  PROVE  card.publicKey => card.signature # "stale"
BY DEF validateAgentCard, verifyAgentCardSignature

LEMMA RegisterKeeps ==
  ASSUME CardsInv, NEW card \in AgentCard, registerCard(card)
  PROVE  CardsInv'
<1> USE DEF CardsInv
<1>1. /\ card.url \notin DOMAIN cards /\ card.name \notin DOMAIN nameIndex
      /\ UNCHANGED <<fetching, disturbed>>
      /\ DOMAIN cards' = DOMAIN cards \cup {card.url} /\ cards'[card.url] = card
      /\ \A u \in DOMAIN cards : cards'[u] = cards[u]
      /\ DOMAIN nameIndex' = DOMAIN nameIndex \cup {card.name}
      /\ nameIndex'[card.name] = card.url
      /\ \A n \in DOMAIN nameIndex : nameIndex'[n] = nameIndex[n]
  BY DEF registerCard, put
<1>2. CardsTypeOK'
  <2>1. card.url \in CardUrl /\ card.name \in CardName
    BY DEF AgentCard
  <2>2. cards' \in [DOMAIN cards' -> AgentCard] /\ nameIndex' \in [DOMAIN nameIndex' -> CardUrl]
    BY <2>1 DEF registerCard, put, CardsTypeOK
  <2> QED BY <1>1, <2>1, <2>2 DEF CardsTypeOK
<1>3. UndisturbedInStep'
  BY <1>1 DEF UndisturbedInStep, InStep
<1>4. SignaturesCurrent'
  <2>1. card.publicKey => card.signature # "stale"
    BY ValidatedCurrent DEF registerCard
  <2> QED BY <1>1, <2>1 DEF SignaturesCurrent
<1> QED BY <1>2, <1>3, <1>4

\* A card, its key aside: what the two kinds of AgentCard have in common.
AnyCard == [name : CardName, url : CardUrl, publicKey : BOOLEAN, signature : Signature]

LEMMA CardShape ==
  ASSUME NEW card
  PROVE  card \in AgentCard <=>
           card \in AnyCard /\ (~card.publicKey => card.signature \in {"none", "stale"})
<1>1. ASSUME card \in AgentCard
      PROVE  card \in AnyCard /\ (~card.publicKey => card.signature \in {"none", "stale"})
  BY <1>1 DEF AgentCard, AnyCard, Signature
<1>2. ASSUME card \in AnyCard, ~card.publicKey => card.signature \in {"none", "stale"}
      PROVE  card \in AgentCard
  <2>1. CASE card.publicKey
    <3>1. card \in [name : CardName, url : CardUrl, publicKey : {TRUE}, signature : Signature]
      BY <1>2, <2>1 DEF AnyCard
    <3> QED BY <3>1 DEF AgentCard
  <2>2. CASE ~card.publicKey
    <3>1. card \in [name : CardName, url : CardUrl, publicKey : {FALSE},
                    signature : {"none", "stale"}]
      BY <1>2, <2>2 DEF AnyCard
    <3> QED BY <3>1 DEF AgentCard
  <2> QED BY <2>1, <2>2
<1> QED BY <1>1, <1>2

\* The card that an update and perhaps a signature leave.
LEMMA UpdatedFacts ==
  ASSUME NEW url \in CardUrl, NEW old \in AgentCard, NEW update \in CardUpdate,
         NEW signer \in Signer
  PROVE  LET new == updatedCard(url, old, update)
             signed == signAgentCard(old, new, signer, update) IN
           /\ new \in AgentCard /\ signed \in AgentCard
           /\ new.name = update.name /\ signed.name = update.name
           /\ signed.publicKey => signed.signature # "stale"
<1> DEFINE new == updatedCard(url, old, update)
           signed == signAgentCard(old, new, signer, update)
           key == old.publicKey \/ update.key
           newSignature == IF update.signature THEN IF key THEN "good" ELSE "stale"
                           ELSE IF old.signature = "none" THEN "none" ELSE "stale"
           signedSignature == IF ~old.publicKey THEN "stale"
                              ELSE IF signer = "owner" /\ ~update.key THEN "good"
                              ELSE "foreign"
<1>1. /\ old \in AnyCard /\ (~old.publicKey => old.signature \in {"none", "stale"})
      /\ update.name \in CardName /\ update.key \in BOOLEAN /\ update.signature \in BOOLEAN
  BY CardShape DEF CardUpdate
<1>2. new \in AnyCard /\ (~new.publicKey => new.signature \in {"none", "stale"})
  <2>1. newSignature \in Signature
    BY DEF Signature
  <2>2. key \in BOOLEAN
    OBVIOUS
  <2>3. ~key => newSignature \in {"none", "stale"}
    OBVIOUS
  <2>4. new = [name |-> update.name, url |-> url, publicKey |-> key, signature |-> newSignature]
    BY DEF updatedCard
  <2> HIDE DEF new, newSignature, key
  <2> QED BY <1>1, <2>1, <2>2, <2>3, <2>4 DEF AnyCard
<1>3. new.name = update.name /\ new.url = url
  BY DEF updatedCard
<1>4. signed = [name |-> update.name, url |-> url, publicKey |-> old.publicKey,
                signature |-> signedSignature]
  BY <1>3 DEF signAgentCard
<1>5. signed \in AnyCard /\ (~signed.publicKey => signed.signature \in {"none", "stale"})
  <2>1. signedSignature \in Signature
    BY DEF Signature
  <2>2. ~old.publicKey => signedSignature \in {"none", "stale"}
    OBVIOUS
  <2> HIDE DEF signed, signedSignature
  <2> QED BY <1>1, <1>4, <2>1, <2>2 DEF AnyCard
<1>6. new \in AgentCard /\ signed \in AgentCard
  BY <1>2, <1>5, CardShape
<1>7. new.name = update.name /\ signed.name = update.name
  BY <1>3, <1>4
<1>8. signed.publicKey => signed.signature # "stale"
  BY <1>4
<1> QED BY <1>6, <1>7, <1>8

LEMMA UpdateCardKeeps ==
  ASSUME CardsInv, NEW url \in CardUrl, NEW update \in CardUpdate, NEW signer \in Signer,
         updateCard(url, update, signer)
  PROVE  CardsInv'
<1> USE DEF CardsInv
<1> DEFINE old == cards[url]
           new == updatedCard(url, old, update)
           left == IF signer = "nobody" THEN new ELSE signAgentCard(old, new, signer, update)
<1>1. /\ url \in DOMAIN cards /\ validateAgentCard(new) /\ UNCHANGED <<nameIndex, fetching>>
      /\ cards' = [cards EXCEPT ![url] = left]
      /\ disturbed' = IF update.name = old.name THEN disturbed
                      ELSE disturbed \cup {update.name, old.name}
  BY DEF updateCard
<1>2. old \in AgentCard
  BY <1>1 DEF CardsTypeOK
<1>3. /\ left \in AgentCard /\ left.name = update.name
      /\ left.publicKey => left.signature # "stale"
  BY <1>1, <1>2, UpdatedFacts, ValidatedCurrent
<1>4. /\ DOMAIN cards' = DOMAIN cards /\ cards'[url] = left
      /\ \A u \in DOMAIN cards \ {url} : cards'[u] = cards[u]
      /\ cards' \in [DOMAIN cards' -> AgentCard]
  BY <1>1, <1>3 DEF CardsTypeOK
<1>5. update.name \in CardName /\ old.name \in CardName
  BY <1>2 DEF CardUpdate, AgentCard
<1> HIDE DEF left, new
<1>6. CardsTypeOK'
  BY <1>1, <1>4, <1>5 DEF CardsTypeOK
<1>7. UndisturbedInStep'
  BY <1>1, <1>3, <1>4 DEF UndisturbedInStep, InStep
<1>8. SignaturesCurrent'
  BY <1>3, <1>4 DEF SignaturesCurrent
<1> QED BY <1>6, <1>7, <1>8

LEMMA UnregisterKeeps ==
  ASSUME CardsInv, NEW url \in CardUrl, unregisterCard(url)
  PROVE  CardsInv'
<1> USE DEF CardsInv
<1>1. /\ url \in DOMAIN cards /\ UNCHANGED <<fetching, disturbed>>
      /\ DOMAIN cards' = DOMAIN cards \ {url}
      /\ \A u \in DOMAIN cards \ {url} : cards'[u] = cards[u]
      /\ DOMAIN nameIndex' = DOMAIN nameIndex \ {cards[url].name}
      /\ \A n \in DOMAIN nameIndex \ {cards[url].name} : nameIndex'[n] = nameIndex[n]
  BY DEF unregisterCard, restrictTo
<1>2. CardsTypeOK'
  <2>1. cards' \in [DOMAIN cards' -> AgentCard] /\ nameIndex' \in [DOMAIN nameIndex' -> CardUrl]
    BY DEF unregisterCard, restrictTo, CardsTypeOK
  <2> QED BY <1>1, <2>1 DEF CardsTypeOK
<1>3. UndisturbedInStep'
  BY <1>1 DEF UndisturbedInStep, InStep
<1>4. SignaturesCurrent'
  BY <1>1 DEF SignaturesCurrent
<1> QED BY <1>2, <1>3, <1>4

LEMMA FetchKeeps ==
  ASSUME CardsInv, NEW d \in Discovery, NEW card \in AgentCard, FetchReturns(d, card)
  PROVE  CardsInv'
<1> USE DEF CardsInv
<1> DEFINE url == fetching[d]
<1>1. /\ url \in CardUrl /\ card.name \in CardName /\ card.url \in CardUrl
      /\ validateAgentCard(card)
      /\ DOMAIN cards' = DOMAIN cards \cup {url} /\ cards'[url] = card
      /\ \A u \in DOMAIN cards \ {url} : cards'[u] = cards[u]
      /\ DOMAIN nameIndex' = DOMAIN nameIndex \cup {card.name}
      /\ nameIndex'[card.name] = card.url
      /\ \A n \in DOMAIN nameIndex \ {card.name} : nameIndex'[n] = nameIndex[n]
  BY DEF FetchReturns, put, CardsTypeOK, AgentCard
<1>2. /\ disturbed \subseteq disturbed' /\ card.name \in disturbed'
      /\ url \in DOMAIN cards => cards[url].name \in disturbed'
      /\ disturbed' \subseteq CardName
  <2>1. disturbed' = disturbed \cup {c.name : c \in {card} \cup getCardByUrl(url)}
    BY DEF FetchReturns
  <2>2. \A c \in {card} \cup getCardByUrl(url) : c.name \in CardName
    BY <1>1 DEF getCardByUrl, CardsTypeOK, AgentCard
  <2>3. url \in DOMAIN cards => cards[url] \in getCardByUrl(url)
    BY DEF getCardByUrl
  <2> QED BY <2>1, <2>2, <2>3 DEF CardsTypeOK
<1>3. CardsTypeOK'
  <2>1. cards' \in [DOMAIN cards' -> AgentCard] /\ nameIndex' \in [DOMAIN nameIndex' -> CardUrl]
    BY <1>1 DEF FetchReturns, put, CardsTypeOK
  <2>2. DOMAIN fetching' \subseteq Discovery /\ fetching' \in [DOMAIN fetching' -> CardUrl]
    BY DEF FetchReturns, fetched, restrictTo, CardsTypeOK
  <2> QED BY <1>1, <1>2, <2>1, <2>2 DEF CardsTypeOK
<1>4. UndisturbedInStep'
  <2> HIDE DEF url
  <2> QED BY <1>1, <1>2 DEF UndisturbedInStep, InStep
<1>5. SignaturesCurrent'
  <2>1. card.publicKey => card.signature # "stale"
    BY <1>1, ValidatedCurrent
  <2> QED BY <1>1, <2>1 DEF SignaturesCurrent
<1> QED BY <1>3, <1>4, <1>5

LEMMA CardsNextKeeps == CardsInv /\ [CardsNext]_cardsVars => CardsInv'
<1> SUFFICES ASSUME CardsInv, [CardsNext]_cardsVars
             PROVE  CardsInv'
  OBVIOUS
<1>1. CASE UNCHANGED <<cards, nameIndex, disturbed>> /\ CardsTypeOK'
  BY <1>1 DEF CardsInv, UndisturbedInStep, InStep, SignaturesCurrent
<1>2. CASE UNCHANGED cardsVars
  BY <1>1, <1>2 DEF cardsVars, CardsInv, CardsTypeOK
<1>3. ASSUME NEW d \in Discovery, NEW url \in CardUrl, discoverAgent(d, url)
      PROVE  CardsInv'
  <2>1. DOMAIN fetching' \subseteq Discovery /\ fetching' \in [DOMAIN fetching' -> CardUrl]
    BY <1>3 DEF discoverAgent, put, CardsInv, CardsTypeOK
  <2> QED BY <1>1, <1>3, <2>1 DEF discoverAgent, CardsInv, CardsTypeOK
<1>4. ASSUME NEW d \in Discovery, FetchFails(d)
      PROVE  CardsInv'
  <2>1. DOMAIN fetching' \subseteq Discovery /\ fetching' \in [DOMAIN fetching' -> CardUrl]
    BY <1>4 DEF FetchFails, fetched, restrictTo, CardsInv, CardsTypeOK
  <2> QED BY <1>1, <1>4, <2>1 DEF FetchFails, CardsInv, CardsTypeOK
<1> QED BY <1>2, <1>3, <1>4, RegisterKeeps, UpdateCardKeeps, UnregisterKeeps, FetchKeeps
        DEF CardsNext

\* For any URLs, names and discoveries the registry's state stays well typed.
THEOREM CardsTypeCorrect == CardsSpec => []CardsTypeOK
<1>1. CardsInv => CardsTypeOK
  BY DEF CardsInv
<1> QED BY <1>1, CardsInitInv, CardsNextKeeps, PTL DEF CardsSpec

\* A name in step is looked up to the one card that has it.
LEMMA InStepLooksUp ==
  ASSUME NEW name, InStep(name)
  PROVE  /\ getCardByName(name) = cardsNamed(name)
         /\ name \in DOMAIN nameIndex <=> cardsNamed(name) # {}
<1>1. CASE name \in DOMAIN nameIndex
  <2>1. getCardByName(name) = {cards[nameIndex[name]]}
    BY <1>1 DEF InStep, getCardByName, getCardByUrl
  <2>2. {v \in DOMAIN cards : cards[v].name = name} = {nameIndex[name]}
    BY <1>1 DEF InStep
  <2>3. cardsNamed(name) = {cards[nameIndex[name]]}
    BY <2>2 DEF cardsNamed
  <2> QED BY <1>1, <2>1, <2>3
<1>2. CASE name \notin DOMAIN nameIndex
  <2>1. getCardByName(name) = {}
    BY <1>2 DEF getCardByName
  <2>2. {v \in DOMAIN cards : cards[v].name = name} = {}
    BY <1>2 DEF InStep
  <2>3. cardsNamed(name) = {}
    BY <2>2 DEF cardsNamed
  <2> QED BY <1>2, <2>1, <2>3
<1> QED BY <1>1, <1>2

\* Whatever is registered, renamed, fetched and removed, in any order: a name that no
\* rename and no fetch touched is looked up to its one card, and no card with a public
\* key keeps a signature of other contents.
THEOREM LookupsAlwaysConfined == CardsSpec => []LookupsConfined
<1>1. CardsInv => LookupsConfined
  BY InStepLooksUp DEF CardsInv, UndisturbedInStep, SignaturesCurrent, LookupsConfined
<1> QED BY <1>1, CardsInitInv, CardsNextKeeps, PTL DEF CardsSpec
===============================================================================
