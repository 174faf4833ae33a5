CONSTANTS
  Socket = {s1, s2}
  User = {u1, u2}
  Room = {room}
  NoUser = NoUser
  MaxTyping = 2
  MaxVerifying = 1
SPECIFICATION FairSpec
INVARIANTS
  TypeOK
  MapsAgree
  OnlineExplained
  SubscribersKnown
PROPERTIES
  TypingEnds
CHECK_DEADLOCK FALSE
