\* What becomes of each task and link: two tasks, all operations, fair
\* continuations.
SPECIFICATION FairSpec
CONSTANTS
  Task = {t1, t2}
  Agent = {a1}
  NoAgent = noAgent
  User = {user}
  Text = text
  maxTasksPerAgent = 2
  MAX_ARTIFACTS_PER_TASK = 1
  MaxHistory = 4
  MaxMessages = 2
  MaxOverReleases = 1
INVARIANTS
  HistoryLegal
PROPERTIES
  ImplementsBoard
  EveryDelegationLinked
