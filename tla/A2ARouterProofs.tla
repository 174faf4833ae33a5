---------------------------- MODULE A2ARouterProofs ----------------------------
(***************************************************************************)
(* What TLAPS proves of A2ARouter for every set of tasks, agents and users *)
(* and every limit: types, histories and the accounting of slots.          *)
(***************************************************************************)
EXTENDS A2ARouter, TLAPS, FiniteSetTheorems

-----------------------------------------------------------------------------
(* Types *)

\* The task createTask makes is a task record.
LEMMA NewTaskType ==
  ASSUME NEW a \in AgentId, NEW creator \in Creator
  PROVE  newTask(a, creator) \in TaskRecord
BY DEF newTask, TaskRecord, TaskStatus, Message

\* transitionTask's result is a task record.
LEMMA TransitionedType ==
  ASSUME NEW task \in TaskRecord, NEW s \in TaskStatus
  PROVE  transitioned(task, s) \in TaskRecord
<1>1. task.history \in Seq(TaskStatus) BY DEF TaskRecord
<1>2. Append(task.history, s) \in Seq(TaskStatus) BY <1>1
<1>3. QED BY <1>2 DEF transitioned, TaskRecord

\* Adding a task, counted for its agent, keeps the maps typed.
LEMMA AddTaskType ==
  ASSUME TypeOK, NEW t \in Task, NEW a \in AgentId, NEW creator \in Creator,
         addTask(t, a, creator)
  PROVE  /\ DOMAIN tasks' \subseteq Task
         /\ tasks' \in [DOMAIN tasks' -> TaskRecord]
         /\ agentTaskCounts' \in [AgentId -> Nat]
         /\ overReleased' \in [AgentId -> Nat]
BY NewTaskType DEF addTask, TypeOK

\* Giving a slot back keeps the counts natural: it is clamped at zero.
LEMMA ReleaseSlotType ==
  ASSUME TypeOK, NEW a \in AgentId, NEW again \in BOOLEAN, releaseSlot(a, again)
  PROVE  /\ agentTaskCounts' \in [AgentId -> Nat]
         /\ overReleased' \in [AgentId -> Nat]
BY DEF releaseSlot, TypeOK

\* Writing a transitioned task keeps the tasks typed.
LEMMA ApplyTransitionType ==
  ASSUME TypeOK, NEW t \in DOMAIN tasks, NEW s \in TaskStatus, applyTransition(t, s)
  PROVE  /\ DOMAIN tasks' = DOMAIN tasks
         /\ tasks' \in [DOMAIN tasks' -> TaskRecord]
         /\ delegations' \subseteq Delegation
BY TransitionedType DEF applyTransition, TypeOK

\* A new router is well typed.
LEMMA TypeInit == Init => TypeOK
BY DEF Init, TypeOK, Delegation

\* Every method keeps the router's maps typed.
LEMMA TypeStep == TypeOK /\ [Next]_vars => TypeOK'
<1> SUFFICES ASSUME TypeOK, [Next]_vars PROVE TypeOK'
  OBVIOUS
<1>1. ASSUME NEW t \in Task, NEW a \in AgentId, NEW creator \in User, CreateTask(t, a, creator)
      PROVE  TypeOK'
  <2>1. creator \in Creator BY DEF Creator
  <2>2. QED BY <1>1, <2>1, AddTaskType DEF CreateTask, TypeOK
<1>2. ASSUME NEW t \in Task, NEW d \in Task, NEW target \in Agent, DelegateTask(t, target, d)
      PROVE  TypeOK'
  <2> DEFINE creator == IF tasks[t].assignedAgentId # NoAgent
                        THEN tasks[t].assignedAgentId ELSE tasks[t].createdBy
  <2>1. tasks[t] \in TaskRecord BY <1>2 DEF DelegateTask, TypeOK
  <2>2. creator \in Creator BY <2>1 DEF TaskRecord, Creator
  <2>3. target \in AgentId BY DEF AgentId
  <2>4. addTask(d, target, creator) BY <1>2 DEF DelegateTask
  <2>5. delegations' \subseteq Delegation BY <1>2 DEF DelegateTask, TypeOK, Delegation
  <2>6. QED BY <2>2, <2>3, <2>4, <2>5, AddTaskType DEF TypeOK
<1>3. ASSUME NEW p \in delegations, LinkDelegation(p)
      PROVE  TypeOK'
  <2>1. p.original \in Task /\ p.created \in Message BY DEF TypeOK, Delegation, Message
  <2>2. ASSUME p.original \in DOMAIN tasks
        PROVE  [tasks[p.original] EXCEPT !.messages = Append(@, p.created)] \in TaskRecord
    <3>1. tasks[p.original] \in TaskRecord BY <2>2 DEF TypeOK
    <3>2. tasks[p.original].messages \in Seq(Message) BY <3>1 DEF TaskRecord
    <3>3. Append(tasks[p.original].messages, p.created) \in Seq(Message) BY <2>1, <3>2
    <3>4. QED BY <3>1, <3>3 DEF TaskRecord
  <2>3. DOMAIN tasks' = DOMAIN tasks /\ tasks' \in [DOMAIN tasks' -> TaskRecord]
    BY <1>3, <2>2 DEF LinkDelegation, TypeOK
  <2>4. QED BY <1>3, <2>3 DEF LinkDelegation, TypeOK
<1>4. ASSUME NEW t \in Task, CancelTask(t)
      PROVE  TypeOK'
  <2>1. t \in DOMAIN tasks BY <1>4 DEF CancelTask
  <2>2. tasks[t].assignedAgentId \in AgentId BY <2>1 DEF TypeOK, TaskRecord
  <2>3. isTerminalStatus(tasks[t].status) \in BOOLEAN BY DEF isTerminalStatus
  <2>4. "canceled" \in TaskStatus BY DEF TaskStatus
  <2>5. QED BY <1>4, <2>1, <2>2, <2>3, <2>4, ReleaseSlotType, ApplyTransitionType
           DEF CancelTask, TypeOK
<1>5. ASSUME NEW t \in Task, NEW s \in TaskStatus, TransitionTask(t, s)
      PROVE  TypeOK'
  <2>1. t \in DOMAIN tasks BY <1>5 DEF TransitionTask
  <2>2. tasks[t].assignedAgentId \in AgentId BY <2>1 DEF TypeOK, TaskRecord
  <2>3. isTerminalStatus(tasks[t].status) \in BOOLEAN BY DEF isTerminalStatus
  <2>4. /\ agentTaskCounts' \in [AgentId -> Nat]
        /\ overReleased' \in [AgentId -> Nat]
    BY <1>5, <2>2, <2>3, ReleaseSlotType DEF TransitionTask, TypeOK
  <2>5. QED BY <1>5, <2>1, <2>4, ApplyTransitionType DEF TransitionTask, TypeOK
<1>6. ASSUME NEW t \in Task, AddTaskMessage(t)
      PROVE  TypeOK'
  <2>1. tasks[t] \in TaskRecord BY <1>6 DEF AddTaskMessage, TypeOK
  <2>2. tasks[t].messages \in Seq(Message) BY <2>1 DEF TaskRecord
  <2>3. Append(tasks[t].messages, Text) \in Seq(Message) BY <2>2 DEF Message
  <2>4. [tasks[t] EXCEPT !.messages = Append(@, Text)] \in TaskRecord BY <2>1, <2>3 DEF TaskRecord
  <2>5. QED BY <1>6, <2>4 DEF AddTaskMessage, TypeOK
<1>7. ASSUME NEW t \in Task, AddTaskArtifact(t)
      PROVE  TypeOK'
  <2>1. tasks[t] \in TaskRecord BY <1>7 DEF AddTaskArtifact, TypeOK
  <2>2. [tasks[t] EXCEPT !.artifacts = @ + 1] \in TaskRecord BY <2>1 DEF TaskRecord
  <2>3. QED BY <1>7, <2>2 DEF AddTaskArtifact, TypeOK
<1>8. CASE UNCHANGED vars
  BY <1>8 DEF vars, TypeOK
<1>9. QED BY <1>1, <1>2, <1>3, <1>4, <1>5, <1>6, <1>7, <1>8 DEF Next

(* The router's maps stay well typed whatever methods its callers call.     *)
THEOREM TypeCorrect == Spec => []TypeOK
BY TypeInit, TypeStep, PTL DEF Spec
-----------------------------------------------------------------------------
(* Histories *)

\* A new task has the history <<"submitted">>.
LEMMA NewTaskLegal ==
  ASSUME NEW a, NEW creator
  PROVE  legalHistory(newTask(a, creator))
BY DEF newTask, legalHistory

\* An accepted transition extends a legal history to a legal one.
LEMMA TransitionedLegal ==
  ASSUME NEW task \in TaskRecord, NEW s \in TaskStatus,
         legalHistory(task), acceptsTransition(task, s)
  PROVE  legalHistory(transitioned(task, s))
<1> DEFINE h == task.history
           n == Len(h)
<1>1. CASE s = task.status
  BY <1>1 DEF transitioned
<1>2. CASE s # task.status
  <2>1. h \in Seq(TaskStatus) /\ n \in Nat /\ n > 0 /\ task.status = h[n]
    BY DEF TaskRecord, legalHistory
  <2>2. s \in VALID_TRANSITIONS[h[n]]
    BY <1>2, <2>1 DEF acceptsTransition
  <2>3. DEFINE g == Append(h, s)
  <2>4. Len(g) = n + 1 /\ g[n + 1] = s /\ \A i \in 1 .. n : g[i] = h[i]
    BY <2>1
  <2>5. transitioned(task, s).history = g /\ transitioned(task, s).status = s
    BY <1>2 DEF transitioned, TaskRecord
  <2>6. ASSUME NEW i \in 1 .. Len(g) - 1
        PROVE  g[i + 1] \in VALID_TRANSITIONS[g[i]]
    <3>1. CASE i = n
      BY <2>1, <2>2, <2>4, <3>1
    <3>2. CASE i \in 1 .. n - 1
      <4>1. h[i + 1] \in VALID_TRANSITIONS[h[i]] BY <3>2 DEF legalHistory
      <4>2. i \in 1 .. n /\ i + 1 \in 1 .. n BY <2>1, <3>2
      <4>3. QED BY <2>4, <4>1, <4>2
    <3>3. i = n \/ i \in 1 .. n - 1 BY <2>1, <2>4
    <3>4. QED BY <3>1, <3>2, <3>3
  <2>7. g[1] = "submitted"
    BY <2>1, <2>4 DEF legalHistory
  <2>8. Len(g) > 0 /\ g[Len(g)] = s
    BY <2>1, <2>4
  <2>9. QED BY <2>5, <2>6, <2>7, <2>8 DEF legalHistory
<1>3. QED BY <1>1, <1>2

\* Steps that leave statuses and histories alone keep them legal.
LEMMA HistoryKept ==
  ASSUME HistoryLegal, DOMAIN tasks' = DOMAIN tasks,
         \A t \in DOMAIN tasks : /\ tasks'[t].status = tasks[t].status
                                 /\ tasks'[t].history = tasks[t].history
  PROVE  HistoryLegal'
BY DEF HistoryLegal, legalHistory

\* Adding a task keeps the histories legal.
LEMMA HistoryAdded ==
  ASSUME HistoryLegal, NEW t, NEW a, NEW creator, addTask(t, a, creator)
  PROVE  HistoryLegal'
BY NewTaskLegal DEF addTask, HistoryLegal

\* Writing an accepted transition keeps the histories legal.
LEMMA HistoryTransition ==
  ASSUME TypeOK, HistoryLegal, NEW t \in DOMAIN tasks, NEW s \in TaskStatus,
         applyTransition(t, s)
  PROVE  HistoryLegal'
<1>1. legalHistory(transitioned(tasks[t], s))
  BY TransitionedLegal DEF TypeOK, HistoryLegal, applyTransition
<1>2. QED BY <1>1 DEF applyTransition, HistoryLegal, TypeOK

\* Every method keeps the histories legal.
LEMMA HistoryStep == TypeOK /\ HistoryLegal /\ [Next]_vars => HistoryLegal'
<1> SUFFICES ASSUME TypeOK, HistoryLegal, [Next]_vars PROVE HistoryLegal'
  OBVIOUS
<1>1. ASSUME NEW t \in Task, NEW a \in AgentId, NEW creator \in User, CreateTask(t, a, creator)
      PROVE  HistoryLegal'
  BY <1>1, HistoryAdded DEF CreateTask
<1>2. ASSUME NEW t \in Task, NEW d \in Task, NEW target \in Agent, DelegateTask(t, target, d)
      PROVE  HistoryLegal'
  BY <1>2, HistoryAdded DEF DelegateTask
<1>3. ASSUME NEW p \in delegations, LinkDelegation(p)
      PROVE  HistoryLegal'
  <2>1. \A t \in DOMAIN tasks : tasks[t] \in TaskRecord BY DEF TypeOK
  <2>2. QED BY <1>3, <2>1, HistoryKept DEF LinkDelegation, TaskRecord
<1>4. ASSUME NEW t \in Task, CancelTask(t)
      PROVE  HistoryLegal'
  BY <1>4, HistoryTransition DEF CancelTask, TaskStatus
<1>5. ASSUME NEW t \in Task, NEW s \in TaskStatus, TransitionTask(t, s)
      PROVE  HistoryLegal'
  BY <1>5, HistoryTransition DEF TransitionTask
<1>6. ASSUME NEW t \in Task, AddTaskMessage(t) \/ AddTaskArtifact(t)
      PROVE  HistoryLegal'
  <2>1. \A x \in DOMAIN tasks : tasks[x] \in TaskRecord BY DEF TypeOK
  <2>2. QED BY <1>6, <2>1, HistoryKept DEF AddTaskMessage, AddTaskArtifact, TaskRecord
<1>7. CASE UNCHANGED vars
  BY <1>7 DEF vars, HistoryLegal
<1>8. QED BY <1>1, <1>2, <1>3, <1>4, <1>5, <1>6, <1>7 DEF Next

(* Whatever calls transitionTask and cancelTask get, a task's history is a   *)
(* path of VALID_TRANSITIONS from submitted to the task's status.            *)
THEOREM HistoriesLegal == Spec => []HistoryLegal
<1>1. Init => HistoryLegal BY DEF Init, HistoryLegal
<1>2. QED BY <1>1, HistoryStep, TypeCorrect, PTL DEF Spec
-----------------------------------------------------------------------------
(***************************************************************************)
(* Slots.  NoLeakedSlot and OverrunExplained are not inductive alone: the  *)
(* limit bounds the counter, the counter bounds the open tasks up to what  *)
(* was over-released, and only finitely many tasks exist.                  *)
(***************************************************************************)
CountWithinLimit == \A a \in Agent : agentTaskCounts[a] <= maxTasksPerAgent

ActiveCovered ==
  \A a \in Agent : Cardinality(Active(a)) <= agentTaskCounts[a] + overReleased[a]

SlotInv ==
  /\ IsFiniteSet(DOMAIN tasks)
  /\ CountWithinLimit
  /\ NoLeakedSlot
  /\ ActiveCovered

\* An agent's open tasks are finitely many, so they can be counted.
LEMMA ActiveFinite ==
  ASSUME IsFiniteSet(DOMAIN tasks), NEW a
  PROVE  IsFiniteSet(Active(a)) /\ Cardinality(Active(a)) \in Nat
<1>1. Active(a) \in SUBSET DOMAIN tasks BY DEF Active
<1>2. QED BY <1>1, FS_Subset, FS_CardinalityType

\* Steps that leave every status and holder alone leave the open tasks alone.
LEMMA ActiveKept ==
  ASSUME DOMAIN tasks' = DOMAIN tasks,
         \A t \in DOMAIN tasks : /\ tasks'[t].status = tasks[t].status
                                 /\ tasks'[t].assignedAgentId = tasks[t].assignedAgentId,
         NEW a
  PROVE  Active(a)' = Active(a)
BY DEF Active

\* Steps that touch neither the counts nor who holds what keep the slot
\* invariant.
LEMMA SlotsKept ==
  ASSUME SlotInv, UNCHANGED <<agentTaskCounts, overReleased>>,
         DOMAIN tasks' = DOMAIN tasks,
         \A t \in DOMAIN tasks : /\ tasks'[t].status = tasks[t].status
                                 /\ tasks'[t].assignedAgentId = tasks[t].assignedAgentId
  PROVE  SlotInv'
<1>1. \A a : Active(a)' = Active(a) BY ActiveKept
<1>2. QED BY <1>1 DEF SlotInv, CountWithinLimit, NoLeakedSlot, ActiveCovered

\* A new task takes one slot of its agent and becomes one of its open tasks.
LEMMA SlotsTaken ==
  ASSUME TypeOK, SlotInv, NEW t \in Task, NEW a \in AgentId, NEW creator,
         addTask(t, a, creator)
  PROVE  SlotInv'
<1>1. DOMAIN tasks' = DOMAIN tasks \cup {t} /\ t \notin DOMAIN tasks
  BY DEF addTask
<1>2. IsFiniteSet(DOMAIN tasks')
  BY <1>1, FS_AddElement DEF SlotInv
<1>3. Active(a)' = Active(a) \cup {t} /\ t \notin Active(a)
  BY <1>1 DEF addTask, Active, newTask, isTerminalStatus
<1>4. \A b : b # a => Active(b)' = Active(b)
  BY <1>1 DEF addTask, Active, newTask
<1>5. Cardinality(Active(a)') = Cardinality(Active(a)) + 1
  BY <1>3, ActiveFinite, FS_AddElement DEF SlotInv
<1>6. /\ agentTaskCounts' = [agentTaskCounts EXCEPT ![a] = @ + 1]
      /\ overReleased' = overReleased
      /\ agentTaskCounts[a] < maxTasksPerAgent
  BY DEF addTask, hasSlot
<1>7. ASSUME NEW b \in Agent
      PROVE  /\ agentTaskCounts'[b] <= maxTasksPerAgent
             /\ agentTaskCounts'[b] <= Cardinality(Active(b)')
             /\ Cardinality(Active(b)') <= agentTaskCounts'[b] + overReleased'[b]
  <2>1. b \in AgentId BY DEF AgentId
  <2>2. /\ agentTaskCounts[b] \in Nat /\ overReleased[b] \in Nat
        /\ maxTasksPerAgent \in Nat /\ Cardinality(Active(b)) \in Nat
    BY <2>1, RouterAssumption, ActiveFinite DEF TypeOK, SlotInv
  <2>3. /\ agentTaskCounts[b] <= maxTasksPerAgent
        /\ agentTaskCounts[b] <= Cardinality(Active(b))
        /\ Cardinality(Active(b)) <= agentTaskCounts[b] + overReleased[b]
    BY DEF SlotInv, CountWithinLimit, NoLeakedSlot, ActiveCovered
  <2>4. CASE b = a
    <3>1. agentTaskCounts'[b] = agentTaskCounts[b] + 1
      BY <1>6, <2>1, <2>4 DEF TypeOK
    <3>2. QED BY <1>5, <1>6, <2>2, <2>3, <2>4, <3>1
  <2>5. CASE b # a
    <3>1. agentTaskCounts'[b] = agentTaskCounts[b]
      BY <1>6, <2>1, <2>5 DEF TypeOK
    <3>2. QED BY <1>4, <1>6, <2>3, <2>5, <3>1
  <2>6. QED BY <2>4, <2>5
<1>8. QED BY <1>2, <1>7 DEF SlotInv, CountWithinLimit, NoLeakedSlot, ActiveCovered

\* A transition that ends in an open status keeps the open tasks and the slots.
LEMMA SlotsOpenTransition ==
  ASSUME TypeOK, SlotInv, NEW t \in DOMAIN tasks, NEW s \in TaskStatus,
         applyTransition(t, s), ~isTerminalStatus(s),
         UNCHANGED <<agentTaskCounts, overReleased>>
  PROVE  SlotInv'
<1>1. tasks[t] \in TaskRecord BY DEF TypeOK
<1>2. /\ transitioned(tasks[t], s).assignedAgentId = tasks[t].assignedAgentId
      /\ transitioned(tasks[t], s).status = s
  BY <1>1 DEF transitioned, TaskRecord
<1>3. ~isTerminalStatus(tasks[t].status)
  BY DEF applyTransition, acceptsTransition, isTerminalStatus, VALID_TRANSITIONS
<1>4. DOMAIN tasks' = DOMAIN tasks BY DEF applyTransition, TypeOK
<1>5. \A a : Active(a)' = Active(a)
  BY <1>2, <1>3, <1>4 DEF applyTransition, Active, TypeOK
<1>6. QED BY <1>4, <1>5 DEF SlotInv, CountWithinLimit, NoLeakedSlot, ActiveCovered

\* Closing a task, again or for the first time, with the slot it releases.
LEMMA SlotsReleased ==
  ASSUME TypeOK, SlotInv, NEW t \in DOMAIN tasks, NEW s \in TaskStatus,
         NEW a \in AgentId, a = tasks[t].assignedAgentId,
         NEW again \in BOOLEAN, again <=> isTerminalStatus(tasks[t].status),
         applyTransition(t, s), isTerminalStatus(s), releaseSlot(a, again)
  PROVE  SlotInv'
<1>1. tasks[t] \in TaskRecord BY DEF TypeOK
<1>2. /\ transitioned(tasks[t], s).assignedAgentId = a
      /\ transitioned(tasks[t], s).status = s
  BY <1>1 DEF transitioned, TaskRecord
<1>3. DOMAIN tasks' = DOMAIN tasks BY DEF applyTransition, TypeOK
<1>4. \A x \in DOMAIN tasks : x # t => tasks'[x] = tasks[x]
  BY DEF applyTransition, TypeOK
<1>5. tasks'[t].assignedAgentId = a /\ tasks'[t].status = s
  BY <1>2 DEF applyTransition, TypeOK
<1>6. Active(a)' = Active(a) \ {t} /\ (t \in Active(a) <=> ~again)
  BY <1>3, <1>4, <1>5 DEF Active
<1>7. \A b : b # a => Active(b)' = Active(b)
  BY <1>3, <1>4, <1>5 DEF Active
<1>8. /\ again => Cardinality(Active(a)') = Cardinality(Active(a))
      /\ ~again => Cardinality(Active(a)') = Cardinality(Active(a)) - 1
  <2>1. IsFiniteSet(Active(a)) BY ActiveFinite DEF SlotInv
  <2>2. Cardinality(Active(a) \ {t}) =
          IF t \in Active(a) THEN Cardinality(Active(a)) - 1 ELSE Cardinality(Active(a))
    BY <2>1, FS_RemoveElement
  <2>3. QED BY <1>6, <2>2
<1>9. IsFiniteSet(DOMAIN tasks') BY <1>3 DEF SlotInv
<1>10. ASSUME NEW b \in Agent
       PROVE  /\ agentTaskCounts'[b] <= maxTasksPerAgent
              /\ agentTaskCounts'[b] <= Cardinality(Active(b)')
              /\ Cardinality(Active(b)') <= agentTaskCounts'[b] + overReleased'[b]
  <2>1. b \in AgentId /\ b # NoAgent BY RouterAssumption DEF AgentId
  <2>2. /\ agentTaskCounts[b] \in Nat /\ overReleased[b] \in Nat
        /\ maxTasksPerAgent \in Nat /\ Cardinality(Active(b)) \in Nat
    BY <2>1, RouterAssumption, ActiveFinite DEF TypeOK, SlotInv
  <2>3. /\ agentTaskCounts[b] <= maxTasksPerAgent
        /\ agentTaskCounts[b] <= Cardinality(Active(b))
        /\ Cardinality(Active(b)) <= agentTaskCounts[b] + overReleased[b]
    BY DEF SlotInv, CountWithinLimit, NoLeakedSlot, ActiveCovered
  <2>4. CASE b # a
    <3>1. agentTaskCounts'[b] = agentTaskCounts[b] /\ overReleased'[b] = overReleased[b]
      BY <2>1, <2>4 DEF releaseSlot, TypeOK
    <3>2. QED BY <1>7, <2>3, <2>4, <3>1
  <2>5. CASE b = a /\ agentTaskCounts[b] = 0
    <3>1. agentTaskCounts'[b] = 0 /\ overReleased'[b] = overReleased[b]
      BY <2>1, <2>5 DEF releaseSlot, TypeOK
    <3>2. Cardinality(Active(b)') \in Nat
      BY <1>6, <2>5, ActiveFinite, FS_RemoveElement, FS_CardinalityType DEF SlotInv
    <3>3. Cardinality(Active(b)') <= Cardinality(Active(b))
      BY <1>8, <2>2, <2>5
    <3>4. QED BY <2>2, <2>3, <2>5, <3>1, <3>2, <3>3
  <2>6. CASE b = a /\ agentTaskCounts[b] > 0 /\ again
    <3>1. /\ agentTaskCounts'[b] = agentTaskCounts[b] - 1
          /\ overReleased'[b] = overReleased[b] + 1
      BY <2>1, <2>6 DEF releaseSlot, TypeOK
    <3>2. QED BY <1>8, <2>2, <2>3, <2>6, <3>1
  <2>7. CASE b = a /\ agentTaskCounts[b] > 0 /\ ~again
    <3>1. /\ agentTaskCounts'[b] = agentTaskCounts[b] - 1
          /\ overReleased'[b] = overReleased[b]
      BY <2>1, <2>7 DEF releaseSlot, TypeOK
    <3>2. QED BY <1>8, <2>2, <2>3, <2>7, <3>1
  <2>8. QED BY <2>2, <2>4, <2>5, <2>6, <2>7
<1>11. QED BY <1>9, <1>10 DEF SlotInv, CountWithinLimit, NoLeakedSlot, ActiveCovered

\* Every method keeps the slot invariant.
LEMMA SlotStep == TypeOK /\ SlotInv /\ [Next]_vars => SlotInv'
<1> SUFFICES ASSUME TypeOK, SlotInv, [Next]_vars PROVE SlotInv'
  OBVIOUS
<1>1. ASSUME NEW t \in Task, NEW a \in AgentId, NEW creator \in User, CreateTask(t, a, creator)
      PROVE  SlotInv'
  BY <1>1, SlotsTaken DEF CreateTask
<1>2. ASSUME NEW t \in Task, NEW d \in Task, NEW target \in Agent, DelegateTask(t, target, d)
      PROVE  SlotInv'
  BY <1>2, SlotsTaken DEF DelegateTask, AgentId
<1>3. ASSUME NEW p \in delegations, LinkDelegation(p)
      PROVE  SlotInv'
  <2>1. \A t \in DOMAIN tasks : tasks[t] \in TaskRecord BY DEF TypeOK
  <2>2. QED BY <1>3, <2>1, SlotsKept DEF LinkDelegation, TaskRecord
<1>4. ASSUME NEW t \in Task, CancelTask(t)
      PROVE  SlotInv'
  <2>1. t \in DOMAIN tasks /\ tasks[t].assignedAgentId \in AgentId
    BY <1>4 DEF CancelTask, TypeOK, TaskRecord
  <2>2. isTerminalStatus(tasks[t].status) \in BOOLEAN BY DEF isTerminalStatus
  <2>3. "canceled" \in TaskStatus /\ isTerminalStatus("canceled")
    BY DEF TaskStatus, isTerminalStatus
  <2>4. QED BY <1>4, <2>1, <2>2, <2>3, SlotsReleased DEF CancelTask
<1>5. ASSUME NEW t \in Task, NEW s \in TaskStatus, TransitionTask(t, s)
      PROVE  SlotInv'
  <2>1. t \in DOMAIN tasks /\ tasks[t].assignedAgentId \in AgentId
    BY <1>5 DEF TransitionTask, TypeOK, TaskRecord
  <2>2. isTerminalStatus(tasks[t].status) \in BOOLEAN BY DEF isTerminalStatus
  <2>3. CASE isTerminalStatus(s)
    BY <1>5, <2>1, <2>2, <2>3, SlotsReleased DEF TransitionTask
  <2>4. CASE ~isTerminalStatus(s)
    BY <1>5, <2>1, <2>4, SlotsOpenTransition DEF TransitionTask
  <2>5. QED BY <2>3, <2>4
<1>6. ASSUME NEW t \in Task, AddTaskMessage(t) \/ AddTaskArtifact(t)
      PROVE  SlotInv'
  <2>1. \A x \in DOMAIN tasks : tasks[x] \in TaskRecord BY DEF TypeOK
  <2>2. QED BY <1>6, <2>1, SlotsKept DEF AddTaskMessage, AddTaskArtifact, TaskRecord
<1>7. CASE UNCHANGED vars
  <2>1. \A a : Active(a)' = Active(a) BY <1>7 DEF vars, Active
  <2>2. QED BY <1>7, <2>1 DEF vars, SlotInv, CountWithinLimit, NoLeakedSlot, ActiveCovered
<1>8. QED BY <1>1, <1>2, <1>3, <1>4, <1>5, <1>6, <1>7 DEF Next

\* A new router has no slot taken and no open task.
LEMMA SlotInit == Init => SlotInv
<1> SUFFICES ASSUME Init PROVE SlotInv
  OBVIOUS
<1>1. DOMAIN tasks = {} /\ \A a : Active(a) = {} BY DEF Init, Active
<1>2. \A a \in Agent : agentTaskCounts[a] = 0 /\ overReleased[a] = 0 BY DEF Init, AgentId
<1>3. IsFiniteSet({}) /\ Cardinality({}) = 0 BY FS_EmptySet
<1>4. \A a : Cardinality(Active(a)) = 0 BY <1>1, <1>3
<1>5. maxTasksPerAgent \in Nat BY RouterAssumption
<1>6. QED BY <1>1, <1>2, <1>3, <1>4, <1>5
         DEF SlotInv, CountWithinLimit, NoLeakedSlot, ActiveCovered

(* No named agent ever has a slot taken by a task that is closed: whatever    *)
(* order tasks are created, delegated, moved and closed in, no slot leaks.    *)
THEOREM SlotsNeverLeak == Spec => []NoLeakedSlot
<1>1. SlotInv => NoLeakedSlot BY DEF SlotInv
<1>2. QED BY <1>1, SlotInit, SlotStep, TypeCorrect, PTL DEF Spec

(* maxTasksPerAgent is exceeded only by slots that closing a closed task freed. *)
THEOREM OverrunsExplained == Spec => []OverrunExplained
<1>1. TypeOK /\ SlotInv => OverrunExplained
  <2> SUFFICES ASSUME TypeOK, SlotInv, NEW a \in Agent
               PROVE  Cardinality(Active(a)) <= maxTasksPerAgent + overReleased[a]
    BY DEF OverrunExplained
  <2>1. /\ agentTaskCounts[a] \in Nat /\ overReleased[a] \in Nat
        /\ maxTasksPerAgent \in Nat /\ Cardinality(Active(a)) \in Nat
    BY RouterAssumption, ActiveFinite DEF TypeOK, SlotInv, AgentId
  <2>2. QED BY <2>1 DEF SlotInv, CountWithinLimit, ActiveCovered
<1>2. QED BY <1>1, SlotInit, SlotStep, TypeCorrect, PTL DEF Spec
-----------------------------------------------------------------------------
(***************************************************************************)
(* Refinement.  A step of the router is a step of the board or leaves it   *)
(* alone; the one fact needed beside types is that a delegation under way  *)
(* is between tasks that exist.                                            *)
(***************************************************************************)
DelegationsExist ==
  \A p \in delegations : p.original \in DOMAIN tasks /\ p.created \in DOMAIN tasks

\* No task of a delegation in progress is ever removed.
LEMMA DelegationsExistStep == TypeOK /\ DelegationsExist /\ [Next]_vars => DelegationsExist'
<1> SUFFICES ASSUME TypeOK, DelegationsExist, [Next]_vars PROVE DelegationsExist'
  OBVIOUS
<1>1. ASSUME NEW t \in Task, NEW d \in Task, NEW target \in Agent, DelegateTask(t, target, d)
      PROVE  DelegationsExist'
  BY <1>1 DEF DelegateTask, addTask, DelegationsExist
<1>2. ASSUME NEW t \in Task, NEW a \in AgentId, NEW creator \in User, CreateTask(t, a, creator)
      PROVE  DelegationsExist'
  BY <1>2 DEF CreateTask, addTask, DelegationsExist
<1>3. CASE DOMAIN tasks' = DOMAIN tasks /\ delegations' \subseteq delegations
  BY <1>3 DEF DelegationsExist
<1>4. QED
  BY <1>1, <1>2, <1>3
     DEF Next, vars, LinkDelegation, CancelTask, TransitionTask, applyTransition,
         AddTaskMessage, AddTaskArtifact

\* What appending a message does to the links of a task.
LEMMA LinksAppended ==
  ASSUME NEW t \in DOMAIN tasks, NEW m, tasks[t].messages \in Seq(Message), m \in Message,
         tasks'[t].messages = Append(tasks[t].messages, m)
  PROVE  LinksOf(t)' = LinksOf(t) \cup ({m} \cap Task)
<1> DEFINE s == tasks[t].messages
<1>1. Len(Append(s, m)) = Len(s) + 1 /\ Append(s, m)[Len(s) + 1] = m /\ Len(s) \in Nat
  OBVIOUS
<1>2. \A k \in 1 .. Len(s) : Append(s, m)[k] = s[k]
  OBVIOUS
<1>3. 1 .. Len(s) + 1 = (1 .. Len(s)) \cup {Len(s) + 1}
  BY <1>1
<1>4. QED BY <1>1, <1>2, <1>3 DEF LinksOf

\* Steps that keep every task's messages keep the links.
LEMMA LinksKept ==
  ASSUME DOMAIN tasks' = DOMAIN tasks,
         \A t \in DOMAIN tasks : tasks'[t].messages = tasks[t].messages
  PROVE  linksNow' = linksNow
BY DEF linksNow, LinksOf

\* Adding a task puts it on the board and links nothing.
LEMMA AddTaskPosts ==
  ASSUME TypeOK, NEW t \in Task, NEW a \in AgentId, NEW creator, addTask(t, a, creator)
  PROVE  /\ boardNow[t] = "absent"
         /\ boardNow' = [boardNow EXCEPT ![t] = "open"]
         /\ linksNow' = linksNow
<1>1. DOMAIN tasks' = DOMAIN tasks \cup {t} /\ t \notin DOMAIN tasks
      /\ tasks'[t] = newTask(a, creator)
      /\ \A x \in DOMAIN tasks : tasks'[x] = tasks[x]
  BY DEF addTask
<1>2. boardNow' = [boardNow EXCEPT ![t] = "open"] /\ boardNow[t] = "absent"
  <2>1. tasks'[t].status = "submitted" BY <1>1 DEF newTask
  <2>2. boardOf(t) = "absent" /\ boardOf(t)' = "open"
    BY <1>1, <2>1 DEF boardOf, isTerminalStatus
  <2>3. \A x \in Task : x # t => boardOf(x)' = boardOf(x)
    BY <1>1 DEF boardOf
  <2>4. QED BY <2>2, <2>3 DEF boardNow
<1>3. LinksOf(t)' = {}
  BY <1>1, RouterAssumption DEF LinksOf, newTask
<1>4. \A x \in DOMAIN tasks : LinksOf(x)' = LinksOf(x)
  BY <1>1 DEF LinksOf
<1>5. linksNow' = linksNow
  BY <1>1, <1>3, <1>4 DEF linksNow
<1>6. QED BY <1>2, <1>5

\* A transition closes an open task with its outcome or shows nothing.
LEMMA TransitionCloses ==
  ASSUME TypeOK, NEW t \in Task, t \in DOMAIN tasks, NEW s \in TaskStatus, applyTransition(t, s)
  PROVE  (\E outcome \in {"completed", "failed", "canceled"} : Board!Close(t, outcome))
           \/ UNCHANGED <<boardNow, owedNow, linksNow>>
<1>1. tasks[t] \in TaskRecord BY DEF TypeOK
<1>2. /\ DOMAIN tasks' = DOMAIN tasks
      /\ tasks'[t] = transitioned(tasks[t], s)
      /\ \A x \in DOMAIN tasks : x # t => tasks'[x] = tasks[x]
  BY DEF applyTransition, TypeOK
<1>3. transitioned(tasks[t], s).messages = tasks[t].messages
      /\ transitioned(tasks[t], s).status = s
  BY <1>1 DEF transitioned, TaskRecord
<1>4. linksNow' = linksNow
  <2>1. \A x \in DOMAIN tasks : tasks'[x].messages = tasks[x].messages BY <1>2, <1>3
  <2>2. QED BY <1>2, <2>1, LinksKept
<1>5. owedNow' = owedNow BY DEF applyTransition, owedNow
<1>6. CASE s = tasks[t].status
  <2>1. boardNow' = boardNow BY <1>2, <1>3, <1>6 DEF boardNow, boardOf
  <2>2. QED BY <1>4, <1>5, <2>1
<1>7. CASE s # tasks[t].status
  <2>1. ~isTerminalStatus(tasks[t].status)
    BY <1>7 DEF applyTransition, acceptsTransition, isTerminalStatus, VALID_TRANSITIONS
  <2>2. CASE isTerminalStatus(s)
    <3>1. boardNow[t] = "open" /\ boardNow' = [boardNow EXCEPT ![t] = s]
      BY <1>2, <1>3, <2>1, <2>2 DEF boardNow, boardOf
    <3>2. Board!Close(t, s) BY <1>4, <1>5, <3>1 DEF Board!Close
    <3>3. QED BY <2>2, <3>2 DEF isTerminalStatus
  <2>3. CASE ~isTerminalStatus(s)
    <3>1. boardNow' = boardNow BY <1>2, <1>3, <2>1, <2>3 DEF boardNow, boardOf
    <3>2. QED BY <1>4, <1>5, <3>1
  <2>4. QED BY <2>2, <2>3
<1>8. QED BY <1>6, <1>7

\* Every method of the router is a step of the board, or none.
LEMMA BoardStep ==
  TypeOK /\ DelegationsExist /\ [Next]_vars => [Board!Next]_(Board!boardVars)
<1> SUFFICES ASSUME TypeOK, DelegationsExist, [Next]_vars
             PROVE  Board!Next \/ UNCHANGED <<boardNow, owedNow, linksNow>>
  BY DEF Board!boardVars
<1>1. ASSUME NEW t \in Task, NEW a \in AgentId, NEW creator \in User, CreateTask(t, a, creator)
      PROVE  Board!Next
  <2>1. owedNow' = owedNow BY <1>1 DEF CreateTask, owedNow
  <2>2. Board!Post(t) BY <1>1, <2>1, AddTaskPosts DEF CreateTask, Board!Post
  <2>3. QED BY <2>2 DEF Board!Next
<1>2. ASSUME NEW t \in Task, NEW d \in Task, NEW target \in Agent, DelegateTask(t, target, d)
      PROVE  Board!Next
  <2> DEFINE new == [original |-> t, created |-> d]
  <2>1. owedNow' = owedNow \cup {<<t, d>>}
    <3>1. delegations' = delegations \cup {new} BY <1>2 DEF DelegateTask
    <3>2. <<new.original, new.created>> = <<t, d>> OBVIOUS
    <3> HIDE DEF new
    <3>3. QED BY <3>1, <3>2 DEF owedNow
  <2>2. boardNow[t] # "absent"
    BY <1>2 DEF DelegateTask, boardNow, boardOf, isTerminalStatus
  <2>3. /\ boardNow[d] = "absent" /\ boardNow' = [boardNow EXCEPT ![d] = "open"]
        /\ linksNow' = linksNow
    BY <1>2, AddTaskPosts DEF DelegateTask, AgentId
  <2>4. Board!Delegate(t, d) BY <2>1, <2>2, <2>3 DEF Board!Delegate
  <2>5. QED BY <2>4 DEF Board!Next
<1>3. ASSUME NEW p \in delegations, LinkDelegation(p)
      PROVE  Board!Next
  <2> DEFINE o == p.original
             c == p.created
  <2>1. o \in Task /\ c \in Task /\ c \in Message /\ o \in DOMAIN tasks /\ tasks[o] \in TaskRecord
    BY DEF TypeOK, Delegation, DelegationsExist, Message
  <2>2. tasks[o].messages \in Seq(Message) BY <2>1 DEF TaskRecord
  <2>3. /\ DOMAIN tasks' = DOMAIN tasks
        /\ tasks'[o] = [tasks[o] EXCEPT !.messages = Append(@, c)]
        /\ \A x \in DOMAIN tasks : x # o => tasks'[x] = tasks[x]
    BY <1>3, <2>1 DEF LinkDelegation, TypeOK
  <2>4. tasks'[o].messages = Append(tasks[o].messages, c) /\ tasks'[o].status = tasks[o].status
    BY <2>1, <2>3 DEF TaskRecord
  <2>5. boardNow' = boardNow BY <2>3, <2>4 DEF boardNow, boardOf
  <2>6. owedNow' = owedNow \ {<<o, c>>}
    <3>1. delegations' = delegations \ {p} BY <1>3 DEF LinkDelegation
    <3>2. \A q \in delegations : <<q.original, q.created>> = <<o, c>> => q = p
      BY DEF TypeOK, Delegation
    <3>3. QED BY <3>1, <3>2 DEF owedNow
  <2>7. linksNow' = linksNow \cup {<<o, c>>}
    <3>1. LinksOf(o)' = LinksOf(o) \cup {c} BY <2>1, <2>2, <2>4, LinksAppended
    <3>2. \A x \in DOMAIN tasks : x # o => LinksOf(x)' = LinksOf(x) BY <2>3 DEF LinksOf
    <3>3. QED BY <2>1, <2>3, <3>1, <3>2 DEF linksNow
  <2>8. <<o, c>> \in owedNow BY DEF owedNow
  <2>9. Board!Link(o, c) BY <2>5, <2>6, <2>7, <2>8 DEF Board!Link
  <2>10. QED BY <2>1, <2>9 DEF Board!Next
<1>4. ASSUME NEW t \in Task, CancelTask(t)
      PROVE  Board!Next \/ UNCHANGED <<boardNow, owedNow, linksNow>>
  <2>1. "canceled" \in TaskStatus BY DEF TaskStatus
  <2>2. QED BY <1>4, <2>1, TransitionCloses DEF CancelTask, Board!Next
<1>5. ASSUME NEW t \in Task, NEW s \in TaskStatus, TransitionTask(t, s)
      PROVE  Board!Next \/ UNCHANGED <<boardNow, owedNow, linksNow>>
  BY <1>5, TransitionCloses DEF TransitionTask, Board!Next
<1>6. ASSUME NEW t \in Task, AddTaskMessage(t)
      PROVE  UNCHANGED <<boardNow, owedNow, linksNow>>
  <2>1. t \in DOMAIN tasks /\ tasks[t] \in TaskRecord BY <1>6 DEF AddTaskMessage, TypeOK
  <2>2. tasks[t].messages \in Seq(Message) /\ Text \in Message BY <2>1 DEF TaskRecord, Message
  <2>3. /\ DOMAIN tasks' = DOMAIN tasks
        /\ tasks'[t] = [tasks[t] EXCEPT !.messages = Append(@, Text)]
        /\ \A x \in DOMAIN tasks : x # t => tasks'[x] = tasks[x]
    BY <1>6, <2>1 DEF AddTaskMessage, TypeOK
  <2>4. tasks'[t].messages = Append(tasks[t].messages, Text) /\ tasks'[t].status = tasks[t].status
    BY <2>1, <2>3 DEF TaskRecord
  <2>5. LinksOf(t)' = LinksOf(t)
    <3>1. {Text} \cap Task = {} BY RouterAssumption
    <3>2. LinksOf(t)' = LinksOf(t) \cup ({Text} \cap Task)
      BY <2>1, <2>2, <2>4, LinksAppended
    <3>3. QED BY <3>1, <3>2
  <2>6. ASSUME NEW x \in DOMAIN tasks PROVE LinksOf(x)' = LinksOf(x)
    <3>1. CASE x = t BY <2>5, <3>1
    <3>2. CASE x # t BY <2>3, <3>2 DEF LinksOf
    <3>3. QED BY <3>1, <3>2
  <2>7. linksNow' = linksNow BY <2>3, <2>6 DEF linksNow
  <2>8. boardNow' = boardNow BY <2>3, <2>4 DEF boardNow, boardOf
  <2>9. QED BY <1>6, <2>7, <2>8 DEF AddTaskMessage, owedNow
<1>7. ASSUME NEW t \in Task, AddTaskArtifact(t)
      PROVE  UNCHANGED <<boardNow, owedNow, linksNow>>
  <2>1. t \in DOMAIN tasks /\ tasks[t] \in TaskRecord BY <1>7 DEF AddTaskArtifact, TypeOK
  <2>2. /\ DOMAIN tasks' = DOMAIN tasks
        /\ tasks'[t] = [tasks[t] EXCEPT !.artifacts = @ + 1]
        /\ \A x \in DOMAIN tasks : x # t => tasks'[x] = tasks[x]
    BY <1>7, <2>1 DEF AddTaskArtifact, TypeOK
  <2>3. \A x \in DOMAIN tasks : /\ tasks'[x].messages = tasks[x].messages
                                /\ tasks'[x].status = tasks[x].status
    BY <2>1, <2>2 DEF TaskRecord
  <2>4. boardNow' = boardNow BY <2>2, <2>3 DEF boardNow, boardOf
  <2>5. linksNow' = linksNow BY <2>2, <2>3, LinksKept
  <2>6. QED BY <1>7, <2>4, <2>5 DEF AddTaskArtifact, owedNow
<1>8. CASE UNCHANGED vars
  BY <1>8 DEF vars, boardNow, boardOf, owedNow, linksNow, LinksOf
<1>9. QED BY <1>1, <1>2, <1>3, <1>4, <1>5, <1>6, <1>7, <1>8 DEF Next

\* A new router is an empty board.
LEMMA BoardInit == Init => Board!Init /\ DelegationsExist
BY DEF Init, Board!Init, boardNow, boardOf, owedNow, linksNow, DelegationsExist

(* The router implements the task board: a task is posted once, gets one      *)
(* outcome that no later call changes, and keeps every link written into it.  *)
THEOREM RouterImplementsBoard == Spec => ImplementsBoard
BY BoardInit, BoardStep, DelegationsExistStep, TypeCorrect, PTL
   DEF Spec, ImplementsBoard, Board!Spec

-----------------------------------------------------------------------------
(***************************************************************************)
(* Delegations.  What follows from the refinement about the links between  *)
(* tasks.                                                                  *)
(***************************************************************************)
\* The links, owed or written.
edges == owedNow \cup linksNow

\* A task is created by at most one delegation, out of a task that was there before,
\* and its link is either owed or written.
LinkedOnce ==
  /\ \A e, f \in edges : e[2] = f[2] => e = f
  /\ \A e \in edges : boardNow[e[1]] # "absent" /\ boardNow[e[2]] # "absent" /\ e[1] # e[2]
  /\ owedNow \cap linksNow = {}

\* An outcome is final, a task that was posted stays, and so does a link; one that
\* is owed goes only by being written.
LinksPaid ==
  /\ \A t \in Task : /\ boardNow[t] \notin {"absent", "open"} => boardNow'[t] = boardNow[t]
                     /\ boardNow[t] # "absent" => boardNow'[t] # "absent"
  /\ owedNow \ owedNow' \subseteq linksNow'
  /\ linksNow \subseteq linksNow'

\* Every step of the board keeps the links so.
LEMMA LinkedOnceStep ==
  ASSUME TypeOK, LinkedOnce, [Board!Next]_(Board!boardVars)
  PROVE  LinkedOnce' /\ LinksPaid
<1>1. boardNow = [t \in Task |-> boardNow[t]]
  BY DEF boardNow
<1>2. \A e \in edges : e[1] \in Task /\ e[2] \in Task /\ e = <<e[1], e[2]>>
  BY DEF edges, owedNow, linksNow, TypeOK, Delegation
<1>3. CASE UNCHANGED <<boardNow, owedNow, linksNow>>
  BY <1>3 DEF LinkedOnce, LinksPaid, edges
<1>4. ASSUME NEW t \in Task, Board!Post(t) PROVE LinkedOnce' /\ LinksPaid
  <2>1. /\ boardNow[t] = "absent" /\ boardNow'[t] = "open"
        /\ \A x \in Task \ {t} : boardNow'[x] = boardNow[x]
        /\ UNCHANGED <<owedNow, linksNow>>
    BY <1>1, <1>4 DEF Board!Post
  <2>2. edges' = edges
    BY <2>1 DEF edges
  <2>3. \A x \in Task : boardNow[x] # "absent" => boardNow'[x] # "absent"
    BY <2>1
  <2> QED BY <1>2, <2>1, <2>2, <2>3 DEF LinkedOnce, LinksPaid
<1>5. ASSUME NEW t \in Task, NEW d \in Task, Board!Delegate(t, d)
      PROVE  LinkedOnce' /\ LinksPaid
  <2>1. /\ boardNow[t] # "absent" /\ boardNow[d] = "absent" /\ boardNow'[d] = "open"
        /\ \A x \in Task \ {d} : boardNow'[x] = boardNow[x]
        /\ owedNow' = owedNow \cup {<<t, d>>} /\ linksNow' = linksNow
    BY <1>1, <1>5 DEF Board!Delegate
  <2>2. edges' = edges \cup {<<t, d>>}
    BY <2>1 DEF edges
  <2>3. \A e \in edges : e[1] # d /\ e[2] # d
    BY <2>1 DEF LinkedOnce
  <2>4. \A x \in Task : boardNow[x] # "absent" => boardNow'[x] # "absent"
    BY <2>1
  <2>5. <<t, d>> \notin linksNow
    BY <2>3 DEF edges
  <2>6. LinkedOnce'
    BY <1>2, <2>1, <2>2, <2>3, <2>4, <2>5 DEF LinkedOnce
  <2>7. LinksPaid
    BY <2>1, <2>4 DEF LinksPaid
  <2> QED BY <2>6, <2>7
<1>6. ASSUME NEW t \in Task, NEW d \in Task, Board!Link(t, d)
      PROVE  LinkedOnce' /\ LinksPaid
  <2>1. /\ <<t, d>> \in owedNow /\ owedNow' = owedNow \ {<<t, d>>}
        /\ linksNow' = linksNow \cup {<<t, d>>} /\ boardNow' = boardNow
    BY <1>6 DEF Board!Link
  <2>2. edges' = edges
    BY <2>1 DEF edges
  <2> QED BY <2>1, <2>2 DEF LinkedOnce, LinksPaid
<1>7. ASSUME NEW t \in Task, NEW outcome \in {"completed", "failed", "canceled"},
             Board!Close(t, outcome)
      PROVE  LinkedOnce' /\ LinksPaid
  <2>1. /\ boardNow[t] = "open" /\ boardNow'[t] = outcome
        /\ \A x \in Task \ {t} : boardNow'[x] = boardNow[x]
        /\ UNCHANGED <<owedNow, linksNow>>
    BY <1>1, <1>7 DEF Board!Close
  <2>2. edges' = edges
    BY <2>1 DEF edges
  <2>3. \A x \in Task : boardNow[x] # "absent" => boardNow'[x] # "absent"
    BY <2>1
  <2> QED BY <1>2, <2>1, <2>2, <2>3 DEF LinkedOnce, LinksPaid
<1> QED BY <1>3, <1>4, <1>5, <1>6, <1>7 DEF Board!Next, Board!boardVars

\* The steps of the router keep the links so.
LEMMA LinkedInvariant == Spec => [](TypeOK /\ DelegationsExist /\ LinkedOnce)
<1>1. Init => LinkedOnce
  BY DEF Init, LinkedOnce, edges, owedNow, linksNow
<1>2. TypeOK /\ DelegationsExist /\ LinkedOnce /\ [Next]_vars => LinkedOnce'
  BY BoardStep, LinkedOnceStep
<1> QED BY <1>1, <1>2, BoardInit, DelegationsExistStep, TypeCorrect, PTL DEF Spec

(* delegateTask (a2a-router-service.ts) creates a task for one original only, and never *)
(* for itself: whatever is delegated on from there, each task has at most one parent.   *)
THEOREM DelegatedOnce == Spec => []LinkedOnce
BY LinkedInvariant, PTL

(* What an observer of the tasks may rely on from one moment to the next. *)
THEOREM LinksNeverLost == Spec => [][LinksPaid]_vars
<1>1. TypeOK /\ DelegationsExist /\ LinkedOnce /\ [Next]_vars => LinksPaid
  BY BoardStep, LinkedOnceStep
<1> QED BY <1>1, LinkedInvariant, PTL DEF Spec

\* A link is among a task's messages once.
NoDoubleLink ==
  \A t \in DOMAIN tasks : \A j, k \in 1 .. Len(tasks[t].messages) :
    tasks[t].messages[j] \in Task /\ tasks[t].messages[j] = tasks[t].messages[k] => j = k

\* Appending a message that is no link, or a link that was not there.
LEMMA AppendedOnce ==
  ASSUME TypeOK, NoDoubleLink, NEW t \in DOMAIN tasks, NEW m \in Message,
         m \in Task => m \notin LinksOf(t),
         DOMAIN tasks' = DOMAIN tasks,
         tasks'[t].messages = Append(tasks[t].messages, m),
         \A x \in DOMAIN tasks \ {t} : tasks'[x].messages = tasks[x].messages
  PROVE  NoDoubleLink'
<1> PICK s \in Seq(Message) : s = tasks[t].messages
  BY DEF TypeOK, TaskRecord
<1>1. /\ Len(s) \in Nat /\ Len(Append(s, m)) = Len(s) + 1
      /\ Append(s, m)[Len(s) + 1] = m
      /\ \A k \in 1 .. Len(s) : Append(s, m)[k] = s[k]
  OBVIOUS
<1>2. \A k \in 1 .. Len(s) : m \in Task => s[k] # m
  BY DEF LinksOf
<1>3. \A j, k \in 1 .. Len(s) : s[j] \in Task /\ s[j] = s[k] => j = k
  BY DEF NoDoubleLink
<1>4. \A j, k \in 1 .. Len(s) + 1 :
        Append(s, m)[j] \in Task /\ Append(s, m)[j] = Append(s, m)[k] => j = k
  <2> SUFFICES ASSUME NEW j \in 1 .. Len(s) + 1, NEW k \in 1 .. Len(s) + 1,
                      Append(s, m)[j] \in Task, Append(s, m)[j] = Append(s, m)[k]
               PROVE  j = k
    OBVIOUS
  <2>1. (j \in 1 .. Len(s) \/ j = Len(s) + 1) /\ (k \in 1 .. Len(s) \/ k = Len(s) + 1)
    BY <1>1
  <2> QED BY <1>1, <1>2, <1>3, <2>1
<1>5. \A j, k \in 1 .. Len(tasks'[t].messages) :
        tasks'[t].messages[j] \in Task /\ tasks'[t].messages[j] = tasks'[t].messages[k] => j = k
  BY <1>1, <1>4
<1>6. \A x \in DOMAIN tasks \ {t} : \A j, k \in 1 .. Len(tasks'[x].messages) :
        tasks'[x].messages[j] \in Task /\ tasks'[x].messages[j] = tasks'[x].messages[k] => j = k
  BY DEF NoDoubleLink
<1> QED BY <1>5, <1>6 DEF NoDoubleLink

\* Every step keeps the links single.
LEMMA NoDoubleLinkStep ==
  ASSUME TypeOK, DelegationsExist, LinkedOnce, NoDoubleLink, [Next]_vars
  PROVE  NoDoubleLink'
<1>1. ASSUME DOMAIN tasks' = DOMAIN tasks,
             \A t \in DOMAIN tasks : tasks'[t].messages = tasks[t].messages
      PROVE  NoDoubleLink'
  BY <1>1 DEF NoDoubleLink
<1>2. ASSUME NEW t \in Task, NEW a, NEW creator, addTask(t, a, creator) PROVE NoDoubleLink'
  <2>1. /\ DOMAIN tasks' = DOMAIN tasks \cup {t}
        /\ tasks'[t].messages = <<Text>>
        /\ \A x \in DOMAIN tasks : tasks'[x] = tasks[x]
    BY <1>2 DEF addTask, newTask
  <2>2. \A j, k \in 1 .. Len(<<Text>>) : j = k
    OBVIOUS
  <2> QED BY <2>1, <2>2 DEF NoDoubleLink
<1>3. ASSUME NEW p \in delegations, LinkDelegation(p) PROVE NoDoubleLink'
  <2>1. PICK o \in DOMAIN tasks, c \in Task : o = p.original /\ c = p.created
    BY DEF TypeOK, Delegation, DelegationsExist
  <2>2. tasks' = [tasks EXCEPT ![o].messages = Append(@, c)]
    BY <1>3, <2>1 DEF LinkDelegation
  <2>3. tasks[o] \in TaskRecord
    BY DEF TypeOK
  <2>4. /\ DOMAIN tasks' = DOMAIN tasks
        /\ tasks'[o].messages = Append(tasks[o].messages, c)
        /\ \A x \in DOMAIN tasks \ {o} : tasks'[x].messages = tasks[x].messages
    BY <2>2, <2>3 DEF TaskRecord
  <2>5. c \notin LinksOf(o)
    <3>1. <<o, c>> \in owedNow
      BY <2>1 DEF owedNow
    <3>2. <<o, c>> \notin linksNow
      BY <3>1 DEF LinkedOnce
    <3> QED BY <2>1, <3>2 DEF linksNow, TypeOK
  <2> QED BY <2>4, <2>5, AppendedOnce DEF Message
<1>4. ASSUME NEW t \in Task, AddTaskMessage(t) PROVE NoDoubleLink'
  <2>1. t \in DOMAIN tasks /\ tasks' = [tasks EXCEPT ![t].messages = Append(@, Text)]
    BY <1>4 DEF AddTaskMessage
  <2>2. tasks[t] \in TaskRecord
    BY <2>1 DEF TypeOK
  <2>3. /\ DOMAIN tasks' = DOMAIN tasks
        /\ tasks'[t].messages = Append(tasks[t].messages, Text)
        /\ \A x \in DOMAIN tasks \ {t} : tasks'[x].messages = tasks[x].messages
    BY <2>1, <2>2 DEF TaskRecord
  <2> QED BY <2>1, <2>3, AppendedOnce, RouterAssumption DEF Message
<1>5. ASSUME NEW t \in Task, AddTaskArtifact(t) PROVE NoDoubleLink'
  <2>1. t \in DOMAIN tasks /\ tasks' = [tasks EXCEPT ![t].artifacts = @ + 1]
    BY <1>5 DEF AddTaskArtifact
  <2>2. tasks[t] \in TaskRecord
    BY <2>1 DEF TypeOK
  <2> QED BY <1>1, <2>1, <2>2 DEF TaskRecord
<1>6. ASSUME NEW t \in Task, NEW s \in TaskStatus, t \in DOMAIN tasks, applyTransition(t, s)
      PROVE  NoDoubleLink'
  <2>1. tasks[t] \in TaskRecord /\ tasks' = [tasks EXCEPT ![t] = transitioned(@, s)]
    BY <1>6 DEF TypeOK, applyTransition
  <2>2. transitioned(tasks[t], s).messages = tasks[t].messages
    BY <2>1 DEF transitioned, TaskRecord
  <2> QED BY <1>1, <2>1, <2>2
<1>7. ASSUME NEW t \in Task, CancelTask(t) PROVE NoDoubleLink'
  <2>1. t \in DOMAIN tasks /\ applyTransition(t, "canceled") /\ "canceled" \in TaskStatus
    BY <1>7 DEF CancelTask, TaskStatus
  <2> QED BY <1>6, <2>1
<1>8. ASSUME NEW t \in Task, NEW s \in TaskStatus, TransitionTask(t, s) PROVE NoDoubleLink'
  BY <1>6, <1>8 DEF TransitionTask
<1>9. CASE UNCHANGED vars
  BY <1>1, <1>9 DEF vars
<1>10. ASSUME NEW t \in Task, NEW d \in Task, NEW target \in Agent, DelegateTask(t, target, d)
       PROVE  NoDoubleLink'
  BY <1>2, <1>10 DEF DelegateTask
<1>11. ASSUME NEW t \in Task, NEW a \in AgentId, NEW creator \in User, CreateTask(t, a, creator)
       PROVE  NoDoubleLink'
  BY <1>2, <1>11 DEF CreateTask
<1> QED BY <1>3, <1>4, <1>5, <1>7, <1>8, <1>9, <1>10, <1>11 DEF Next

(* The second half of delegateTask writes its link exactly once, whatever transitions *)
(* and messages come between the halves.                                              *)
THEOREM LinksWrittenOnce == Spec => []NoDoubleLink
<1>1. Init => NoDoubleLink
  BY DEF Init, NoDoubleLink
<1>2. TypeOK /\ DelegationsExist /\ LinkedOnce /\ NoDoubleLink /\ [Next]_vars => NoDoubleLink'
  BY NoDoubleLinkStep
<1> QED BY <1>1, <1>2, LinkedInvariant, PTL DEF Spec

\* The two sides of EveryDelegationLinked.
isOwed(t, d) == [original |-> t, created |-> d] \in delegations

isWritten(t, d) == t \in DOMAIN tasks /\ d \in LinksOf(t)

(* EveryDelegationLinked asks nothing of the router but that the promise of            *)
(* delegateTask continues: the link is then written, and it stays.                     *)
THEOREM ContinuedDelegationsLinked ==
  ASSUME NEW t \in Task, NEW d \in Task
  PROVE  Spec /\ (isOwed(t, d) ~> ~isOwed(t, d)) => (isOwed(t, d) ~> []isWritten(t, d))
<1>1. ASSUME TypeOK PROVE isOwed(t, d) <=> <<t, d>> \in owedNow
  <2>1. isOwed(t, d) => <<t, d>> \in owedNow
    BY DEF isOwed, owedNow
  <2>2. ASSUME NEW q \in delegations, <<q.original, q.created>> = <<t, d>>
        PROVE  q = [original |-> t, created |-> d]
    BY <1>1, <2>2 DEF TypeOK, Delegation
  <2> QED BY <2>1, <2>2 DEF isOwed, owedNow
<1>2. ASSUME TypeOK' PROVE <<t, d>> \in owedNow' => isOwed(t, d)'
  <2>1. ASSUME NEW q \in delegations', <<q.original, q.created>> = <<t, d>>
        PROVE  q = [original |-> t, created |-> d]
    BY <1>2, <2>1 DEF TypeOK, Delegation
  <2> QED BY <2>1 DEF isOwed, owedNow
<1>3. /\ isWritten(t, d) <=> <<t, d>> \in linksNow
      /\ isWritten(t, d)' <=> <<t, d>> \in linksNow'
  BY DEF isWritten, linksNow
<1>4. TypeOK /\ DelegationsExist /\ LinkedOnce /\ [Next]_vars =>
        /\ isWritten(t, d) => isWritten(t, d)'
        /\ isOwed(t, d) /\ ~isOwed(t, d)' => isWritten(t, d)'
  <2> SUFFICES ASSUME TypeOK, DelegationsExist, LinkedOnce, [Next]_vars
               PROVE  /\ isWritten(t, d) => isWritten(t, d)'
                      /\ isOwed(t, d) /\ ~isOwed(t, d)' => isWritten(t, d)'
    OBVIOUS
  <2>1. LinksPaid /\ TypeOK'
    BY BoardStep, LinkedOnceStep, TypeStep
  <2> QED BY <1>1, <1>2, <1>3, <2>1 DEF LinksPaid
<1> QED BY <1>4, LinkedInvariant, PTL DEF Spec
=============================================================================
