---------------------------- MODULE AllowListProofs ----------------------------
(* The allow list answers by the last decision, in both of its functions, for *)
(* any entities and tools.                                                    *)
EXTENDS AllowList, TLAPS

\* The entry of an entity holds exactly what was last said about each tool, and
\* an entity without an entry is one nothing was said about: what LastDecisionWins
\* cannot see of the sets while the entity is not restrictive.
EntriesFollow ==
  \A e \in Entity, t \in ToolName :
    /\ t \in entryOf(e).denied <=> lastSaid[e][t] = "deny"
    /\ t \in entryOf(e).allowed <=> lastSaid[e][t] = "allow"

ListInv == TypeOK /\ EntriesFollow

\* Writing an entry and recording what was said keeps the types.
LEMMA EntryWritten ==
  ASSUME TypeOK, NEW e \in Entity, NEW entry \in Entry, setEntry(e, entry)
  PROVE  /\ DOMAIN entries' = DOMAIN entries \cup {e}
         /\ entries' \in [DOMAIN entries' -> Entry]
         /\ \A x \in Entity : entryOf(x)' = IF x = e THEN entry ELSE entryOf(x)
  BY DEF TypeOK, setEntry, entryOf

\* The entry an operation starts from, stored or new, is an entry.
LEMMA EntryTyped ==
  ASSUME TypeOK, NEW e \in Entity
  PROVE  entryOf(e) \in Entry
  BY DEF TypeOK, entryOf, Entry

\* The list's invariant holds at the start.
LEMMA InitListInv == Init => ListInv
  BY DEF Init, ListInv, TypeOK, EntriesFollow, entryOf, Entry

\* Every editing operation keeps it.
LEMMA NextListInv == ListInv /\ [Next]_listVars => ListInv'
<1> SUFFICES ASSUME ListInv, [Next]_listVars PROVE ListInv'
  OBVIOUS
<1> USE DEF ListInv
<1>1. ASSUME NEW e \in Entity, NEW t \in ToolName, AllowTool(e, t) PROVE ListInv'
  <2> DEFINE entry == [entryOf(e) EXCEPT !.allowed = @ \cup {t}, !.denied = @ \ {t}]
  <2>1. entry \in Entry /\ setEntry(e, entry) /\ say(e, t, "allow")
    BY <1>1, EntryTyped DEF AllowTool, Entry
  <2>2. TypeOK'
    <3> HIDE DEF entry
    <3>1. /\ DOMAIN entries' \subseteq Entity
          /\ entries' \in [DOMAIN entries' -> Entry]
      BY <2>1, EntryWritten DEF TypeOK
    <3>2. globalDenied' \subseteq ToolName
      BY <1>1 DEF TypeOK, AllowTool
    <3>3. lastSaid' \in [Entity -> [ToolName -> {"nothing", "allow", "deny"}]]
      BY <2>1 DEF TypeOK, say
    <3> QED BY <3>1, <3>2, <3>3 DEF TypeOK
  <2>3. \A x \in Entity : entryOf(x)' = IF x = e THEN entry ELSE entryOf(x)
    BY <2>1, EntryWritten
  <2>4. /\ entry.allowed = entryOf(e).allowed \cup {t}
        /\ entry.denied = entryOf(e).denied \ {t}
    BY EntryTyped DEF Entry
  <2>5. \A x \in Entity, y \in ToolName :
          lastSaid'[x][y] = IF x = e /\ y = t THEN "allow" ELSE lastSaid[x][y]
    BY <2>1 DEF say, TypeOK
  <2> HIDE DEF entry
  <2>6. EntriesFollow'
    BY <2>3, <2>4, <2>5 DEF EntriesFollow
  <2> QED BY <2>2, <2>6
<1>2. ASSUME NEW e \in Entity, NEW t \in ToolName, DenyTool(e, t) PROVE ListInv'
  <2> DEFINE entry == [entryOf(e) EXCEPT !.denied = @ \cup {t}, !.allowed = @ \ {t}]
  <2>1. entry \in Entry /\ setEntry(e, entry) /\ say(e, t, "deny")
    BY <1>2, EntryTyped DEF DenyTool, Entry
  <2>2. TypeOK'
    <3> HIDE DEF entry
    <3>1. /\ DOMAIN entries' \subseteq Entity
          /\ entries' \in [DOMAIN entries' -> Entry]
      BY <2>1, EntryWritten DEF TypeOK
    <3>2. globalDenied' \subseteq ToolName
      BY <1>2 DEF TypeOK, DenyTool
    <3>3. lastSaid' \in [Entity -> [ToolName -> {"nothing", "allow", "deny"}]]
      BY <2>1 DEF TypeOK, say
    <3> QED BY <3>1, <3>2, <3>3 DEF TypeOK
  <2>3. \A x \in Entity : entryOf(x)' = IF x = e THEN entry ELSE entryOf(x)
    BY <2>1, EntryWritten
  <2>4. /\ entry.denied = entryOf(e).denied \cup {t}
        /\ entry.allowed = entryOf(e).allowed \ {t}
    BY EntryTyped DEF Entry
  <2>5. \A x \in Entity, y \in ToolName :
          lastSaid'[x][y] = IF x = e /\ y = t THEN "deny" ELSE lastSaid[x][y]
    BY <2>1 DEF say, TypeOK
  <2> HIDE DEF entry
  <2>6. EntriesFollow'
    BY <2>3, <2>4, <2>5 DEF EntriesFollow
  <2> QED BY <2>2, <2>6
<1>3. ASSUME NEW t \in ToolName, DenyGlobal(t) \/ RemoveGlobalDeny(t) PROVE ListInv'
  BY <1>3 DEF DenyGlobal, RemoveGlobalDeny, TypeOK, EntriesFollow, entryOf
<1>4. ASSUME NEW e \in Entity, NEW restrictive \in BOOLEAN, SetRestrictive(e, restrictive)
      PROVE ListInv'
  <2> DEFINE entry == [entryOf(e) EXCEPT !.restrictive = restrictive]
  <2>1. entry \in Entry /\ setEntry(e, entry) /\ UNCHANGED lastSaid
    BY <1>4, EntryTyped DEF SetRestrictive, Entry
  <2>2. TypeOK'
    BY <1>4, <2>1, EntryWritten DEF TypeOK, SetRestrictive
  <2>3. \A x \in Entity : entryOf(x)' = IF x = e THEN entry ELSE entryOf(x)
    BY <2>1, EntryWritten
  <2>4. entry.allowed = entryOf(e).allowed /\ entry.denied = entryOf(e).denied
    BY EntryTyped DEF Entry
  <2> HIDE DEF entry
  <2>5. EntriesFollow'
    BY <2>1, <2>3, <2>4 DEF EntriesFollow
  <2> QED BY <2>2, <2>5
<1>5. ASSUME NEW e \in Entity, RemoveEntity(e) PROVE ListInv'
  <2>1. TypeOK'
    BY <1>5 DEF RemoveEntity, TypeOK
  <2>2. \A x \in Entity : x # e => entryOf(x)' = entryOf(x) /\ lastSaid'[x] = lastSaid[x]
    BY <1>5 DEF RemoveEntity, TypeOK, entryOf
  <2>3. /\ entryOf(e)' = [allowed |-> {}, denied |-> {}, restrictive |-> FALSE]
        /\ \A t \in ToolName : lastSaid'[e][t] = "nothing"
    BY <1>5 DEF RemoveEntity, TypeOK, entryOf
  <2>4. EntriesFollow'
    BY <2>2, <2>3 DEF EntriesFollow
  <2> QED BY <2>1, <2>4
<1>6. CASE UNCHANGED listVars
  BY <1>6 DEF listVars, TypeOK, EntriesFollow, entryOf
<1> QED BY <1>1, <1>2, <1>3, <1>4, <1>5, <1>6 DEF Next

\* The entries follow what was said, whatever order the list is edited in.
THEOREM ListInvariant == Spec => []ListInv
  BY InitListInv, NextListInv, PTL DEF Spec

\* isAllowed: the last decision about a tool wins, for any entities and tools.
THEOREM LastDecisionsWin == Spec => []LastDecisionWins
<1>1. ListInv => LastDecisionWins
  BY DEF ListInv, EntriesFollow, LastDecisionWins, isAllowed, entryOf
<1> QED BY <1>1, ListInvariant, PTL

\* getAllowedTools lists exactly what isAllowed lets through.
THEOREM ListingsAgree == Spec => []ListingAgrees
<1>1. ASSUME ListInv, NEW e \in Entity
      PROVE  getAllowedTools(e, ToolName) = {t \in ToolName : isAllowed(e, t)}
  <2>1. CASE e \in DOMAIN entries /\ entries[e].restrictive
    <3>1. entryOf(e) = entries[e] /\ entries[e].allowed \subseteq ToolName
      BY <1>1, <2>1 DEF ListInv, TypeOK, entryOf, Entry
    <3>2. \A t \in ToolName : t \in entries[e].allowed => t \notin entries[e].denied
      BY <1>1, <3>1 DEF ListInv, EntriesFollow
    <3> QED BY <2>1, <3>1, <3>2 DEF getAllowedTools, isAllowed
  <2>2. CASE ~(e \in DOMAIN entries /\ entries[e].restrictive)
    BY <2>2 DEF getAllowedTools, isAllowed, entryOf
  <2> QED BY <2>1, <2>2
<1>2. ListInv => ListingAgrees
  BY <1>1 DEF ListingAgrees
<1> QED BY <1>2, ListInvariant, PTL
=============================================================================
