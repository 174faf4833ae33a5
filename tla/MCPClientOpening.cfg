CONSTANTS
  Attempt = {a1}
  Request = {r1, r2}
  Method = {"tools/call"}
  NoAttempt = NoAttempt
  NoRequest = NoRequest
SPECIFICATION FairSpec
PROPERTIES
  EveryConnectEnds
