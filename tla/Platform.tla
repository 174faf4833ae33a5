-------------------------------- MODULE Platform --------------------------------
(***************************************************************************)
(* The services around the router, the gateways and the client, checked in *)
(* one run.  They keep nothing in common: a step of one leaves the others' *)
(* variables alone, and each property speaks of one of them.  A behaviour  *)
(* of them all is, seen from one, a behaviour of that one, so it is enough *)
(* to run them one at a time; "part" says which.                           *)
(***************************************************************************)
EXTENDS Accounts, Identities, Rooms, MessageRows, RateLimiter, A2AService,
        AgentCards, WebSession, ToolCalls

VARIABLE part

platformVars == <<part, accountsVars, identitiesVars, roomsVars, messageRowsVars,
                  rateVars, a2aServiceVars, cardsVars, webVars, toolCallVars>>

Part == {"accounts", "identities", "rooms", "messages", "rate", "a2a", "cards", "web",
         "tools"}

PlatformInit ==
  /\ part \in Part
  /\ AccountsInit /\ IdentitiesInit /\ RoomsInit /\ MessageRowsInit /\ RateInit
  /\ A2AServiceInit /\ CardsInit /\ WebInit /\ ToolCallsInit

\* No variable outside the part that runs changes.
only(p) ==
  /\ part = p /\ UNCHANGED part
  /\ p # "accounts" => UNCHANGED accountsVars
  /\ p # "identities" => UNCHANGED identitiesVars
  /\ p # "rooms" => UNCHANGED roomsVars
  /\ p # "messages" => UNCHANGED messageRowsVars
  /\ p # "rate" => UNCHANGED rateVars
  /\ p # "a2a" => UNCHANGED a2aServiceVars
  /\ p # "cards" => UNCHANGED cardsVars
  /\ p # "web" => UNCHANGED webVars
  /\ p # "tools" => UNCHANGED toolCallVars

PlatformNext ==
  \/ only("accounts") /\ AccountsNext
  \/ only("identities") /\ IdentitiesNext
  \/ only("rooms") /\ RoomsNext
  \/ only("messages") /\ MessageRowsNext
  \/ only("rate") /\ RateNext
  \/ only("a2a") /\ A2AServiceNext
  \/ only("cards") /\ CardsNext
  \/ only("web") /\ WebNext
  \/ only("tools") /\ ToolCallsNext

PlatformSpec == PlatformInit /\ [][PlatformNext]_platformVars

\* Each part's variables keep their types.
PlatformTypeOK ==
  /\ part \in Part
  /\ AccountsTypeOK /\ IdentitiesTypeOK /\ RoomsTypeOK /\ MessageRowsTypeOK /\ RateTypeOK
  /\ A2AServiceTypeOK /\ CardsTypeOK /\ WebTypeOK /\ ToolCallsTypeOK
=============================================================================
