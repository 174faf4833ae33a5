\* A slot given back by every closing, against tasks sent without an agent id.
SPECIFICATION Spec
CONSTANTS
  Task = {t1, t2, t3}
  Agent = {a1}
  NoAgent = noAgent
  User = {user}
  Text = text
  maxTasksPerAgent = 1
  MAX_ARTIFACTS_PER_TASK = 0
  MaxHistory = 2
  MaxMessages = 1
  MaxOverReleases = 1
INVARIANT EveryClosingFreesItsSlot
