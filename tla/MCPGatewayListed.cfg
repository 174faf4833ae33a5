\* listAllTools against the table, after the first server of a tool has gone.
SPECIFICATION Spec
CONSTANTS
  Server = {"s", "r"}
  Client = {k1, k2}
  Tool = {"t"}
  Name <- Names
  qualified <- Concatenated
  BuiltinTool = {}
  Caller = {}
  Permitted = {}
  Call = {}
  Governed = {}
  GovernedCaller = {}
  maxUnregistering = 1
  maxConcurrentCalls = 1
INVARIANT ListedToolsRoutable
