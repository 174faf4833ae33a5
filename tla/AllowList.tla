------------------------------- MODULE AllowList -------------------------------
(***************************************************************************)
(* The tool governance list of packages/mcp-gateway: per entity the tools  *)
(* it is allowed and denied and whether its list is restrictive, and the   *)
(* tools denied to everyone.                                               *)
(***************************************************************************)
EXTENDS Naturals

CONSTANTS
  Entity,    \* agents and users
  ToolName   \* the names tools are called by

VARIABLES
  entries,       \* the entries Map: a function on the entities that have one
  globalDenied,  \* the set of tools denied to everyone
  lastSaid       \* history: the last of allowTool, denyTool for entity and tool

listVars == <<entries, globalDenied, lastSaid>>

Entry == [allowed : SUBSET ToolName, denied : SUBSET ToolName, restrictive : BOOLEAN]

TypeOK ==
  /\ DOMAIN entries \subseteq Entity
  /\ entries \in [DOMAIN entries -> Entry]
  /\ globalDenied \subseteq ToolName
  /\ lastSaid \in [Entity -> [ToolName -> {"nothing", "allow", "deny"}]]

Init ==
  /\ entries = [e \in {} |-> {}]
  /\ globalDenied = {}
  /\ lastSaid = [e \in Entity |-> [t \in ToolName |-> "nothing"]]
-----------------------------------------------------------------------------
entryOf(e) ==
  IF e \in DOMAIN entries
  THEN entries[e]
  ELSE [allowed |-> {}, denied |-> {}, restrictive |-> FALSE]

setEntry(e, entry) ==
  entries' = [x \in DOMAIN entries \cup {e} |-> IF x = e THEN entry ELSE entries[x]]

say(e, t, what) == lastSaid' = [lastSaid EXCEPT ![e][t] = what]

\* Mutant of AllowTool: the tool stays in the denied set.
AllowTool_StillDenied(e, t) ==
  /\ setEntry(e, [entryOf(e) EXCEPT !.allowed = @ \cup {t}])
  /\ say(e, t, "allow")
  /\ UNCHANGED globalDenied

AllowTool(e, t) ==
  /\ setEntry(e, [entryOf(e) EXCEPT !.allowed = @ \cup {t}, !.denied = @ \ {t}])
  /\ say(e, t, "allow")
  /\ UNCHANGED globalDenied

DenyTool(e, t) ==
  /\ setEntry(e, [entryOf(e) EXCEPT !.denied = @ \cup {t}, !.allowed = @ \ {t}])
  /\ say(e, t, "deny")
  /\ UNCHANGED globalDenied

DenyGlobal(t) ==
  /\ globalDenied' = globalDenied \cup {t}
  /\ UNCHANGED <<entries, lastSaid>>

RemoveGlobalDeny(t) ==
  /\ globalDenied' = globalDenied \ {t}
  /\ UNCHANGED <<entries, lastSaid>>

SetRestrictive(e, restrictive) ==
  /\ setEntry(e, [entryOf(e) EXCEPT !.restrictive = restrictive])
  /\ UNCHANGED <<globalDenied, lastSaid>>

RemoveEntity(e) ==
  /\ entries' = [x \in DOMAIN entries \ {e} |-> entries[x]]
  /\ lastSaid' = [lastSaid EXCEPT ![e] = [t \in ToolName |-> "nothing"]]
  /\ UNCHANGED globalDenied

Next ==
  \/ \E e \in Entity, t \in ToolName : AllowTool(e, t) \/ DenyTool(e, t)
  \/ \E t \in ToolName : DenyGlobal(t) \/ RemoveGlobalDeny(t)
  \/ \E e \in Entity, restrictive \in BOOLEAN : SetRestrictive(e, restrictive)
  \/ \E e \in Entity : RemoveEntity(e)

Spec == Init /\ [][Next]_listVars
-----------------------------------------------------------------------------
isAllowed(e, t) ==
  /\ t \notin globalDenied
  /\ e \in DOMAIN entries =>
       /\ t \notin entries[e].denied
       /\ entries[e].restrictive => t \in entries[e].allowed

\* Mutant of getAllowedTools: a restrictive entity is listed what is denied to all.
getAllowedTools_NoGlobal(e, allTools) ==
  IF e \in DOMAIN entries /\ entries[e].restrictive
  THEN entries[e].allowed
  ELSE {t \in allTools : t \notin entryOf(e).denied /\ t \notin globalDenied}

\* getAllowedTools(entityId, allTools), called with the list of all tools.
getAllowedTools(e, allTools) ==
  IF e \in DOMAIN entries /\ entries[e].restrictive
  THEN entries[e].allowed \ globalDenied
  ELSE {t \in allTools : t \notin entryOf(e).denied /\ t \notin globalDenied}

\* The last thing said of an entity and a tool decides, a global deny overrides
\* it, and silence means yes unless the entity's list is restrictive: the
\* evaluation order of isAllowed, whatever order the list was edited in.
LastDecisionWins ==
  \A e \in Entity, t \in ToolName :
    isAllowed(e, t) <=>
      /\ t \notin globalDenied
      /\ lastSaid[e][t] # "deny"
      /\ (e \in DOMAIN entries /\ entries[e].restrictive) => lastSaid[e][t] = "allow"

\* What getAllowedTools lists is what isAllowed lets through.
ListingAgrees ==
  \A e \in Entity : getAllowedTools(e, ToolName) = {t \in ToolName : isAllowed(e, t)}
=============================================================================
