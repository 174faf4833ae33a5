CONSTANTS
  Attempt = {a1, a2}
  Request = {r1, r2, r3}
  Method = {"tools/list", "tools/call"}
  NoAttempt = NoAttempt
  NoRequest = NoRequest
SPECIFICATION FairSpec
INVARIANTS
  TypeOK
  PendingUnsettled
  AnswersMatch
  ConnectedCanPost
  CacheOfConnection
  NoStraySource
PROPERTIES
  EveryRequestEnds
