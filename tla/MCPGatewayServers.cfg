\* The routing table: two server ids, three registrations, two tools.
SPECIFICATION Spec
CONSTANTS
  Server = {"s", "s:s"}
  Client = {k1, k2, k3}
  Tool = {"t", "s:t"}
  Name <- Names
  qualified <- Concatenated
  BuiltinTool = {"t"}
  Caller = {}
  Permitted = {}
  Call = {}
  Governed = {}
  GovernedCaller = {}
  maxUnregistering = 2
  maxConcurrentCalls = 1
SYMMETRY Symmetry
INVARIANTS
  RoutesLead
  NamesRoute
  RegisteredAreConnected
  LeaksExplained
PROPERTY SimpleNamesStay
