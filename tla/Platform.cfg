CONSTANTS
  LocalPart = {lp}
  Domain = {d1, d2}
  Registration = {reg1, reg2}
  Login = {l1, l2}
  Finish = {f1, f2}
  MaxSigned = 2
  StoreHasInterface = TRUE
  Human = {h1}
  Agent = {a1, a2}
  AgentName = {an1}
  OtherName = {plain}
  Blanks = {none, space, spaces}
  noBlanks = none
  ClientKey = {k1}
  RoomId = {room}
  Person = {p1, p2, p3}
  MaxRoomMembers = 2
  Reader = {p1, p2}
  RowSender = p1
  Emoji = {smile}
  RowCall = {c1, c2}
  Key = {ip}
  AuthLimit = 1
  ApiLimit = 3
  Window = 2
  MaxTime = 6
  TaskId = {t1, t2}
  CardUrl = {u1, u2}
  CardName = {n1, n2, n3}
  Discovery = {dis1}
  WebUser = {w1, w2}
  Nobody = Nobody
  MaxSocket = 3
  ToolCall = {i1, i2}
  MaxFlawed = 1
SPECIFICATION PlatformSpec
INVARIANTS
  PlatformTypeOK
  SpentBeforeWritten
  IdentitiesHold
  RoomsHold
  WindowsHold
  LookupsConfined
  SocketFollowsSession
  CallsAccounted
PROPERTIES
  CounterFallsStale
  LostOnlyToOverlap
  AnswersStand
CHECK_DEADLOCK FALSE
