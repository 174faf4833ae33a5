\* Calls against the allow list, a server that comes and goes, and shutdown.
SPECIFICATION FairSpec
CONSTANTS
  Server = {"s"}
  Client = {k1}
  Tool = {"t"}
  Name <- Names
  qualified <- Concatenated
  BuiltinTool = {}
  Caller = {c1, c2}
  Permitted = {c1}
  Call = {i1, i2}
  Governed = {"t"}
  GovernedCaller = {c1}
  maxUnregistering = 1
  maxConcurrentCalls = 1
INVARIANTS
  TypeOK
  ActiveCallsCounted
  LimitUntilShutdown
  LastDecisionWins
  ListingAgrees
PROPERTY EveryCallAuditedOnce
