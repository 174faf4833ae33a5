\* The limit on concurrent tasks as documented, against repeated closings.
SPECIFICATION Spec
CONSTANTS
  Task = {t1, t2, t3}
  Agent = {a1}
  NoAgent = noAgent
  User = {user}
  Text = text
  maxTasksPerAgent = 1
  MAX_ARTIFACTS_PER_TASK = 0
  MaxHistory = 2
  MaxMessages = 1
  MaxOverReleases = 1
INVARIANT ActiveWithinLimit
