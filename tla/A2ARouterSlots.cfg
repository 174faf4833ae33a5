\* Who holds a slot: three tasks, two agents with one slot each, no messages
\* but the links of delegations and no artifacts.
SPECIFICATION Spec
CONSTANTS
  Task = {t1, t2, t3}
  Agent = {a1, a2}
  NoAgent = noAgent
  User = {user}
  Text = text
  maxTasksPerAgent = 1
  MAX_ARTIFACTS_PER_TASK = 0
  MaxHistory = 2
  MaxMessages = 1
  MaxOverReleases = 1
SYMMETRY Symmetry
INVARIANTS
  TypeOK
  NoLeakedSlot
  OverrunExplained
